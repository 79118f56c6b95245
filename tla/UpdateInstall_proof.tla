------------------------- MODULE UpdateInstall_proof ------------------------
(***************************************************************************)
(* Proofs about InstanceLock and UpdateInstall, for every set of processes *)
(* and releases.                                                           *)
(***************************************************************************)
EXTENDS UpdateInstall, TLAPS

\* What every step can rely on.
USE DEF lockVars, instVars, vars

-----------------------------------------------------------------------------
(* The instance lock.                                                      *)

Past(p) == InLock(p) /\ pc[p] # "mutex"

\* Past its start on the mutex a process owns it.
Owned ==
    /\ pc \in [Procs -> Phases]
    /\ Windows => \A p \in Procs : Past(p) => mutex = p

LEMMA LockStepOwned ==
  ASSUME Owned, NEW p \in Procs, LockStep(p) PROVE Owned'
<1>. USE InstanceAssumption
     DEF Owned, Past, InLock, Phases, Acquiring, Leaving
<1>1. CASE Begin(p) BY <1>1 DEF Begin
<1>2. CASE TakeMutex(p) BY <1>2 DEF TakeMutex
<1>3. CASE Look(p) BY <1>3 DEF Look, GiveUp
<1>4. CASE Remove(p) BY <1>4 DEF Remove, GiveUp
<1>5. CASE Create(p) BY <1>5 DEF Create, GiveUp
<1>6. CASE Write(p) BY <1>6 DEF Write
<1>7. CASE Close(p) BY <1>7 DEF Close
<1>8. CASE Unlink(p) BY <1>8 DEF Unlink
<1>9. CASE Finish(p) BY <1>9 DEF Finish
<1>10. CASE BeginSync(p) BY <1>10 DEF BeginSync
<1>11. CASE Crash(p) BY <1>11 DEF Crash
<1>12. CASE Reuse(p) BY <1>12 DEF Reuse
<1>. QED
  BY <1>1, <1>2, <1>3, <1>4, <1>5, <1>6, <1>7, <1>8, <1>9, <1>10, <1>11, <1>12
  DEF LockStep

\* Every step of the whole program is a step of the lock or leaves it alone.
LEMMA StepIsLockStep ==
  ASSUME [Next]_vars PROVE LockNext \/ UNCHANGED lockVars
BY ZenonT(60)
   DEF Next, Publish, Start, Work, Leave, CheckForUpdate, Staged, Dropped, SetCard, Launch,
       HelperStep, Waited, Check, CopyBackup, Replace, Smoke, Cleanup, Rollback, Restart,
       Spoil, HelperDies, Still, LockNext, LockStep

\* Seen through the lock alone the program with its updates is InstanceLock: nothing
\* that checks, stages, installs or rolls back a release, starts the program again or
\* kills the helper does to the lock anything that a process on its own cannot do.
THEOREM UpdateImplementsLock == Spec => LockSpec
<1>1. Init => LockInit BY DEF Init
<1>2. [Next]_vars => [LockNext]_lockVars BY StepIsLockStep
<1>. QED BY <1>1, <1>2, PTL DEF Spec, LockSpec

\* On Windows one process at a time is past the mutex, whatever crashes, restarts
\* and helpers there are (_acquire_windows_mutex, release_instance_lock).
THEOREM OneWindow == Spec => []OneInLock
<1>1. Init => Owned
  BY DEF Init, LockInit, Owned, Past, InLock, Phases, Acquiring, Leaving
<1>2. Owned /\ [Next]_vars => Owned'
  <2>. SUFFICES ASSUME Owned, [Next]_vars PROVE Owned' OBVIOUS
  <2>1. CASE UNCHANGED lockVars BY <2>1 DEF Owned, Past, InLock
  <2>. QED BY <2>1, StepIsLockStep, LockStepOwned DEF LockNext
<1>3. Owned => OneInLock BY DEF Owned, Past, OneInLock
<1>. QED BY <1>1, <1>2, <1>3, PTL DEF Spec

-----------------------------------------------------------------------------
(* The update, with one helper at a time.                                  *)

OneHelper == \A g, h \in Helpers : g = h

Steps == {"idle", "wait", "check", "copy", "replace", "smoke", "rollback", "cleanup",
          "restart"}
HelperRecord == [at : Steps, parent : Procs \cup {NoOne}, from : Versions \cup {None},
                 staged : Files, said : {"nothing", "applied", "failed"}]
Card == [at : {"idle", "loading", "ready"}, want : Versions \cup {None}]

\* The variables of the update, and what a card and a helper carry.
Carried ==
    /\ target \in Versions /\ latest \in Versions
    /\ backups \in [Versions -> Files] /\ ver \in [Procs -> Versions]
    /\ card \in [Procs -> Card]
    /\ \A p \in Procs : card[p].at # "idle" => card[p].want \in Versions
    /\ helper \in [Helpers -> HelperRecord]
    /\ \A h \in Helpers :
          /\ helper[h].at # "idle" => helper[h].from \in Versions
          /\ helper[h].at \in {"copy", "replace"} => helper[h].staged # Half

\* A program that does not work is never started, so nobody but the helper that
\* installed it can be there, and its predecessor is in the backup.
Safe ==
    /\ Works(target) \/ /\ \A p \in Procs : pc[p] = "off"
                        /\ \A h \in Helpers : helper[h].at \in {"idle", "smoke", "rollback"}
    /\ \A h \in Helpers :
          helper[h].at \in {"replace", "smoke", "rollback"} => Works(backups[helper[h].from])
    /\ Recoverable

\* What moves one helper leaves the record of that helper alone but for its step.
LEMMA GoesTyped ==
  ASSUME Carried, NEW h \in Helpers, NEW at \in Steps, Goes(h, at)
  PROVE  /\ helper' \in [Helpers -> HelperRecord]
         /\ helper'[h].at = at /\ helper'[h].from = helper[h].from
         /\ helper'[h].staged = helper[h].staged
BY DEF Carried, Goes, HelperRecord

LEMMA EndsTyped ==
  ASSUME Carried, NEW h \in Helpers, NEW said \in {"nothing", "applied", "failed"},
         Ends(h, said)
  PROVE  /\ helper' \in [Helpers -> HelperRecord]
         /\ helper'[h].at = "idle" /\ helper'[h].from = helper[h].from
         /\ helper'[h].staged = helper[h].staged
BY ZenonT(60) DEF Carried, Ends, HelperRecord, Steps

\* The steps of the processes and of their cards.
LEMMA ProcessSafe ==
  ASSUME OneHelper, Owned, Carried, Safe, NEW p \in Procs,
         Start(p) \/ Work(p) \/ Leave(p) \/ CheckForUpdate(p) \/ Staged(p) \/ Dropped(p)
  PROVE  Carried' /\ Safe'
<1>1. UNCHANGED <<target, backups, latest, helper>>
  BY DEF Start, Work, Leave, CheckForUpdate, Staged, Dropped, SetCard
<1>2. Carried'
  <2>1. CASE Start(p) BY <1>1, <2>1 DEF Start, Carried
  <2>2. CASE Work(p) BY <1>1, <2>2 DEF Work, Carried
  <2>3. CASE Leave(p) BY <1>1, <2>3 DEF Leave, Carried, Card, IdleCard
  <2>4. CASE CheckForUpdate(p)
    BY <1>1, <2>4 DEF CheckForUpdate, SetCard, Carried, Card
  <2>5. CASE Staged(p) BY <1>1, <2>5 DEF Staged, SetCard, Carried, Card
  <2>6. CASE Dropped(p) BY <1>1, <2>6 DEF Dropped, SetCard, Carried, Card, IdleCard
  <2>. QED BY <2>1, <2>2, <2>3, <2>4, <2>5, <2>6
<1>3. Works(target) \/ UNCHANGED pc
  BY DEF Safe, Start, Work, Leave, CheckForUpdate, Staged, Dropped, SetCard, TakeMutex,
         Look, Remove, Create, Write, Unlink, Finish, Reuse, Close, Crash, InLock,
         Acquiring, Leaving
<1>. QED BY <1>1, <1>2, <1>3 DEF Safe, Recoverable, Works

LEMMA LaunchSafe ==
  ASSUME OneHelper, Carried, Safe, NEW p \in Procs, NEW h \in Helpers, Launch(p, h)
  PROVE  Carried' /\ Safe'
<1>1. Works(target) BY DEF Safe, Launch, Close
<1>2. helper' = [helper EXCEPT ![h] = NewHelper(p)] BY DEF Launch
<1>3. /\ NewHelper(p) \in HelperRecord /\ NewHelper(p).at = "wait"
      /\ NewHelper(p).from \in Versions
  BY DEF Launch, NewHelper, IdleHelper, Carried, Card, HelperRecord, Steps, Files
<1>4. /\ helper' \in [Helpers -> HelperRecord]
      /\ helper'[h].at = "wait" /\ helper'[h].from \in Versions
  BY <1>2, <1>3 DEF Carried
<1>5. Carried'
  BY <1>4 DEF OneHelper, Launch, Carried, Card, IdleCard
<1>. QED BY <1>1, <1>4, <1>5 DEF OneHelper, Launch, Safe, Recoverable, Works

\* A step of the helper after which it holds no backup it may have to put back.
LEMMA Harmless ==
  ASSUME OneHelper, Carried, NEW h \in Helpers,
         helper' \in [Helpers -> HelperRecord],
         helper'[h].at \in {"idle", "check", "copy", "cleanup", "restart"},
         helper'[h].from = helper[h].from, helper[h].at # "idle",
         helper'[h].at = "copy" => helper'[h].staged # Half,
         target' \in Versions, backups' \in [Versions -> Files],
         ver' \in [Procs -> Versions], UNCHANGED <<latest, card>>,
         Works(target')
  PROVE  Carried' /\ Safe'
<1>1. Carried' BY DEF OneHelper, Carried, Card
<1>2. Works(target)' BY DEF Works
<1>3. \A g \in Helpers : helper'[g].at \notin {"replace", "smoke", "rollback"}
  BY DEF OneHelper
<1>. QED BY <1>1, <1>2, <1>3 DEF Safe, Recoverable

\* A step after which it does, and the backup works.
LEMMA Covered ==
  ASSUME OneHelper, Carried, NEW h \in Helpers,
         helper' \in [Helpers -> HelperRecord],
         helper'[h].at \in {"replace", "smoke", "rollback"},
         helper'[h].from = helper[h].from, helper[h].at # "idle",
         helper'[h].at = "replace" => Works(target') /\ helper'[h].staged # Half,
         Works(target') \/ \A p \in Procs : pc'[p] = "off",
         target' \in Versions, backups' \in [Versions -> Files],
         Works(backups'[helper[h].from]),
         UNCHANGED <<latest, card, ver>>
  PROVE  Carried' /\ Safe'
<1>1. Carried' BY DEF OneHelper, Carried, Card
<1>2. Works(backups[helper[h].from])'
  BY DEF Works
<1>3. helper[h].from \in Versions BY DEF Carried
<1>4. Recoverable' BY <1>2, <1>3 DEF Recoverable, Works
<1>. QED BY <1>1, <1>2, <1>4 DEF OneHelper, Safe, Works

LEMMA HelperSafe ==
  ASSUME OneHelper, Carried, Safe, NEW h \in Helpers,
         HelperStep(h) \/ Spoil(h) \/ HelperDies(h)
  PROVE  Carried' /\ Safe'
<1>. DEFINE from == helper[h].from
<1>a. ASSUME helper[h].at # "idle" PROVE from \in Versions
  BY <1>a DEF Carried
<1>b. ASSUME helper[h].at \in {"wait", "check", "copy", "replace", "cleanup", "restart"}
      PROVE  Works(target)
  BY <1>b DEF Safe
<1>c. /\ target \in Versions /\ backups \in [Versions -> Files]
      /\ ver \in [Procs -> Versions] /\ helper \in [Helpers -> HelperRecord]
  BY DEF Carried
<1>1. CASE Waited(h)
  <2>1. \/ Goes(h, "check") \/ Ends(h, "failed") BY <1>1 DEF Waited
  <2>2. /\ helper' \in [Helpers -> HelperRecord] /\ helper'[h].at \in {"check", "idle"}
        /\ helper'[h].from = helper[h].from
    BY <2>1, GoesTyped, EndsTyped DEF Steps
  <2>. QED BY <1>1, <1>b, <1>c, <2>2, Harmless DEF Waited, Still
<1>2. CASE Check(h)
  <2>1. \/ Goes(h, "copy") /\ helper[h].staged # Half
        \/ Ends(h, "failed")
    BY <1>2 DEF Check
  <2>2. /\ helper' \in [Helpers -> HelperRecord] /\ helper'[h].at \in {"copy", "idle"}
        /\ helper'[h].from = helper[h].from
        /\ helper'[h].at = "copy" => helper'[h].staged # Half
    BY <2>1, GoesTyped, EndsTyped DEF Steps
  <2>. QED BY <1>2, <1>b, <1>c, <2>2, Harmless DEF Check, Still
<1>3. CASE CopyBackup(h)
  <2>. helper[h].at = "copy" /\ Works(target) /\ UNCHANGED target BY <1>3, <1>b DEF CopyBackup
  <2>1. CASE backups' = [backups EXCEPT ![from] = target] /\ Goes(h, "replace")
    <3>1. /\ helper' \in [Helpers -> HelperRecord] /\ helper'[h].at = "replace"
          /\ helper'[h].from = from /\ helper'[h].staged = helper[h].staged
      BY <2>1, GoesTyped DEF Steps
    <3>2. backups' \in [Versions -> Files] /\ Works(backups'[from])
      BY <2>1, <1>a, <1>c DEF Files
    <3>3. helper[h].staged # Half BY DEF Carried
    <3>. QED BY <1>3, <1>c, <3>1, <3>2, <3>3, Covered DEF CopyBackup, Still
  <2>2. CASE backups' = [backups EXCEPT ![from] = Half] /\ Ends(h, "failed")
    <3>1. /\ helper' \in [Helpers -> HelperRecord] /\ helper'[h].at = "idle"
          /\ helper'[h].from = from
      BY <2>2, EndsTyped
    <3>2. backups' \in [Versions -> Files] BY <2>2, <1>c DEF Files
    <3>. QED BY <1>3, <1>c, <3>1, <3>2, Harmless DEF CopyBackup, Still
  <2>. QED BY <1>3, <2>1, <2>2 DEF CopyBackup
<1>4. CASE Replace(h)
  <2>0. /\ helper[h].at = "replace" /\ Works(target) /\ Works(backups[from])
        /\ UNCHANGED <<backups, latest, card, ver>>
    BY <1>4, <1>b DEF Replace, Safe, Still
  <2>1. CASE InUse \/ helper[h].staged = None
    <3>1. Goes(h, "rollback") /\ UNCHANGED target BY <1>4, <2>1 DEF Replace
    <3>2. /\ helper' \in [Helpers -> HelperRecord] /\ helper'[h].at = "rollback"
          /\ helper'[h].from = from
      BY <3>1, GoesTyped DEF Steps
    <3>. QED BY <1>c, <2>0, <3>1, <3>2, Covered
  <2>2. CASE ~(InUse \/ helper[h].staged = None)
    <3>1. /\ target' = helper[h].staged
          /\ helper' = [helper EXCEPT ![h].at = "smoke", ![h].staged = None]
      BY <1>4, <2>2 DEF Replace
    <3>2. /\ helper' \in [Helpers -> HelperRecord] /\ helper'[h].at = "smoke"
          /\ helper'[h].from = from
      BY <1>c, <3>1, ZenonT(60) DEF HelperRecord, Steps, Files
    <3>3. target' \in Versions
      BY <1>c, <2>0, <2>2, <3>1 DEF Carried, HelperRecord, Files
    <3>4. \A p \in Procs : pc'[p] = "off" BY <1>4, <2>2 DEF Replace, InUse, Still
    <3>. QED BY <1>c, <2>0, <3>2, <3>3, <3>4, Covered
  <2>. QED BY <2>1, <2>2
<1>5. CASE Smoke(h)
  <2>0. helper[h].at = "smoke" /\ UNCHANGED <<target, backups, pc, latest, card, ver>>
    BY <1>5 DEF Smoke, Still
  <2>1. CASE Works(target) /\ Goes(h, "cleanup")
    <3>1. /\ helper' \in [Helpers -> HelperRecord] /\ helper'[h].at = "cleanup"
          /\ helper'[h].from = from
      BY <2>1, GoesTyped DEF Steps
    <3>. QED BY <1>c, <2>0, <2>1, <3>1, Harmless
  <2>2. CASE Goes(h, "rollback")
    <3>1. /\ helper' \in [Helpers -> HelperRecord] /\ helper'[h].at = "rollback"
          /\ helper'[h].from = from
      BY <2>2, GoesTyped DEF Steps
    <3>2. Works(backups'[from]) /\ (Works(target') \/ \A p \in Procs : pc'[p] = "off")
      BY <2>0 DEF Safe
    <3>. QED BY <1>c, <2>0, <3>1, <3>2, Covered
  <2>. QED BY <1>5, <2>1, <2>2 DEF Smoke
<1>6. CASE Cleanup(h)
  <2>0. helper[h].at = "cleanup" /\ UNCHANGED <<target, pc, latest, card, ver>>
    BY <1>6 DEF Cleanup, Still
  <2>1. backups' \in [Versions -> Files]
    BY <1>6, <1>c DEF Cleanup, Cleaned, Files
  <2>2. /\ helper' \in [Helpers -> HelperRecord] /\ helper'[h].at = "restart"
        /\ helper'[h].from = from
    BY <1>6, <1>c, ZenonT(60) DEF Cleanup, HelperRecord, Steps
  <2>. QED BY <1>b, <1>c, <2>0, <2>1, <2>2, Harmless
<1>7. CASE Rollback(h)
  <2>0. /\ helper[h].at = "rollback" /\ UNCHANGED <<pc, latest, card, ver>>
        /\ Works(backups[from]) /\ from \in Versions
    BY <1>7, <1>a DEF Rollback, Still, Safe
  <2>1. /\ helper' \in [Helpers -> HelperRecord] /\ helper'[h].at = "idle"
        /\ helper'[h].from = from
    BY <1>7, EndsTyped DEF Rollback
  <2>2. /\ target' \in Versions /\ backups' \in [Versions -> Files] /\ Works(target')
    <3>1. CASE InUse
      BY <1>7, <1>c, <2>0, <3>1 DEF Rollback, Safe, InUse
    <3>2. CASE ~InUse
      <4>1. backups[from] # None BY <2>0 DEF Works, Versions, None
      <4>2. target' = backups[from] /\ backups' = [backups EXCEPT ![from] = None]
        BY <1>7, <3>2, <4>1 DEF Rollback
      <4>. QED BY <1>c, <2>0, <4>2 DEF Works, Files
    <3>. QED BY <3>1, <3>2
  <2>. QED BY <1>c, <2>0, <2>1, <2>2, Harmless
<1>8. CASE Restart(h)
  <2>0. helper[h].at = "restart" /\ UNCHANGED <<target, backups, latest, card>>
    BY <1>8 DEF Restart
  <2>1. /\ helper' \in [Helpers -> HelperRecord] /\ helper'[h].at = "idle"
        /\ helper'[h].from = from
    BY <1>8, GoesTyped, EndsTyped DEF Restart, Steps
  <2>2. ver' \in [Procs -> Versions] BY <1>8, <1>c DEF Restart
  <2>. QED BY <1>b, <1>c, <2>0, <2>1, <2>2, Harmless
<1>9. CASE Spoil(h)
  <2>0. /\ helper[h].at \in {"wait", "check"}
        /\ UNCHANGED <<target, backups, pc, latest, card, ver>>
    BY <1>9 DEF Spoil, Still
  <2>1. PICK f \in {Half, None} : helper' = [helper EXCEPT ![h].staged = f]
    BY <1>9 DEF Spoil
  <2>2. /\ helper' \in [Helpers -> HelperRecord] /\ helper'[h].at = helper[h].at
        /\ helper'[h].from = from
    BY <1>c, <2>1 DEF HelperRecord, Files
  <2>3. Works(target) BY <1>b, <2>0
  <2>4. Carried'
    BY <1>c, <2>0, <2>2 DEF OneHelper, Carried
  <2>. QED BY <2>0, <2>2, <2>3, <2>4 DEF OneHelper, Safe, Recoverable, Works
<1>10. CASE HelperDies(h)
  <2>0. helper[h].at # "idle" /\ UNCHANGED <<target, pc, latest, card, ver>>
    BY <1>10 DEF HelperDies, Still
  <2>1. /\ helper' \in [Helpers -> HelperRecord] /\ helper'[h].at = "idle"
        /\ helper'[h].from = from
    BY <1>10, GoesTyped DEF HelperDies, Steps
  <2>2. backups' \in [Versions -> Files] BY <1>10, <1>c DEF HelperDies, Files
  <2>3. CASE Works(target)
    BY <1>c, <2>0, <2>1, <2>2, <2>3, Harmless
  <2>4. CASE ~Works(target)
    <3>1. UNCHANGED backups BY <1>10, <1>b, <2>4 DEF HelperDies
    <3>2. Carried' BY <2>0, <2>1, <2>2 DEF OneHelper, Carried
    <3>. QED BY <2>0, <2>1, <2>4, <3>1, <3>2 DEF OneHelper, Safe, Recoverable, Works
  <2>. QED BY <2>3, <2>4
<1>. QED
  BY <1>1, <1>2, <1>3, <1>4, <1>5, <1>6, <1>7, <1>8, <1>9, <1>10 DEF HelperStep

\* The inductive invariant of the update.
UpdateInv == Owned /\ Carried /\ Safe

LEMMA InitUpdateInv == ASSUME Init PROVE UpdateInv
<1>1. Owned BY DEF Init, LockInit, Owned, Past, InLock, Phases, Acquiring, Leaving
<1>2. 1 \in Versions /\ 1 \notin Bad BY UpdateAssumption DEF Versions
<1>3. Carried
  BY <1>2 DEF Init, Carried, Card, HelperRecord, Steps, Files, IdleCard, IdleHelper
<1>4. Safe BY <1>2 DEF Init, Safe, Recoverable, Works, IdleHelper
<1>. QED BY <1>1, <1>3, <1>4 DEF UpdateInv

LEMMA StepUpdateInv ==
  ASSUME OneHelper, UpdateInv, [Next]_vars PROVE UpdateInv'
<1>1. Owned /\ Carried /\ Safe BY DEF UpdateInv
<1>2. Owned'
  <2>1. CASE UNCHANGED lockVars BY <1>1, <2>1 DEF Owned, Past, InLock
  <2>. QED BY <1>1, <2>1, StepIsLockStep, LockStepOwned DEF LockNext
<1>3. Carried' /\ Safe'
  <2>1. CASE Publish
    <3>1. latest' \in Versions BY <1>1, <2>1, UpdateAssumption DEF Publish, Carried, Versions
    <3>. QED BY <1>1, <2>1, <3>1 DEF Publish, Carried, Safe, Recoverable, Works
  <2>2. ASSUME NEW p \in Procs, NEW h \in Helpers, Launch(p, h) PROVE Carried' /\ Safe'
    BY <1>1, <2>2, LaunchSafe
  <2>3. ASSUME NEW p \in Procs, Start(p) \/ Work(p) \/ Leave(p) \/ CheckForUpdate(p)
                                 \/ Staged(p) \/ Dropped(p)
        PROVE  Carried' /\ Safe'
    BY <1>1, <2>3, ProcessSafe
  <2>4. ASSUME NEW h \in Helpers, HelperStep(h) \/ Spoil(h) \/ HelperDies(h)
        PROVE  Carried' /\ Safe'
    BY <1>1, <2>4, HelperSafe
  <2>stutters. CASE UNCHANGED vars BY <1>1, <2>stutters DEF Carried, Safe, Recoverable, Works
  <2>. QED BY <2>1, <2>2, <2>3, <2>4, <2>stutters DEF Next
<1>. QED BY <1>2, <1>3 DEF UpdateInv

\* With one helper at a time: whatever step of the update fails, whoever dies and
\* whoever starts the program meanwhile, a whole release that works is the program
\* or one of its backups (apply_staged_update, _handle_apply_update).
THEOREM ProgramRecoverable == ASSUME OneHelper PROVE Spec => []Recoverable
<1>1. Init => UpdateInv BY InitUpdateInv
<1>2. UpdateInv /\ [Next]_vars => UpdateInv' BY StepUpdateInv
<1>3. UpdateInv => Recoverable BY DEF UpdateInv, Safe
<1>. QED BY <1>1, <1>2, <1>3, PTL DEF Spec

-----------------------------------------------------------------------------
LEMMA LockStepTyped ==
  ASSUME LockTypeOK, NEW p \in Procs, LockStep(p) PROVE LockTypeOK'
<1>. USE InstanceAssumption DEF LockTypeOK, Phases, Acquiring, Leaving
<1>1. Closed(p) \in [by : Procs \cup {NoOne}, pid : Procs \cup {NoOne}, open : BOOLEAN]
  BY DEF Closed
<1>2. NoFile \in [by : Procs \cup {NoOne}, pid : Procs \cup {NoOne}, open : BOOLEAN]
  BY DEF NoFile
<1>3. CASE Begin(p) BY <1>3 DEF Begin, InLock
<1>4. CASE TakeMutex(p) BY <1>4 DEF TakeMutex
<1>5. CASE Look(p) BY <1>5 DEF Look, GiveUp
<1>6. CASE Remove(p)
  <2>1. /\ pc' \in [Procs -> Phases] /\ mutex' \in Procs \cup {NoOne}
        /\ UNCHANGED <<second, foreign, met>>
    BY <1>6 DEF Remove, GiveUp
  <2>2. file' = NoFile \/ file' = file
    BY <1>6 DEF Remove
  <2>. QED BY <1>2, <2>1, <2>2
<1>7. CASE Create(p)
  <2>1. /\ pc' \in [Procs -> Phases] /\ mutex' \in Procs \cup {NoOne}
        /\ second' \in [Procs -> BOOLEAN] /\ UNCHANGED <<foreign, met>>
    BY <1>7, ZenonT(60) DEF Create, GiveUp
  <2>2. file' \in [by : Procs \cup {NoOne}, pid : Procs \cup {NoOne}, open : BOOLEAN]
    <3>1. CASE file = NoFile
      <4>1. file' = [by |-> p, pid |-> NoOne, open |-> TRUE] BY <1>7, <3>1 DEF Create
      <4>. QED BY <4>1
    <3>2. CASE file # NoFile
      <4>1. file' = file BY <1>7, <3>2 DEF Create
      <4>. QED BY <4>1
    <3>. QED BY <3>1, <3>2
  <2>. QED BY <2>1, <2>2
<1>8. CASE Write(p) BY <1>8 DEF Write
<1>9. CASE Close(p) BY <1>1, <1>9 DEF Close
<1>10. CASE Unlink(p) BY <1>2, <1>10 DEF Unlink
<1>11. CASE Finish(p) BY <1>11 DEF Finish
<1>12. CASE BeginSync(p) BY <1>12 DEF BeginSync
<1>13. CASE Crash(p) BY <1>1, <1>13 DEF Crash
<1>14. CASE Reuse(p) BY <1>14 DEF Reuse
<1>. QED
  BY <1>3, <1>4, <1>5, <1>6, <1>7, <1>8, <1>9, <1>10, <1>11, <1>12, <1>13, <1>14
  DEF LockStep

\* Every variable of the program start and of the update keeps its type; with one
\* helper at a time the program file is a whole release whenever one looks, also
\* between the steps of a replacement and of a roll-back.
THEOREM UpdateTyped == ASSUME OneHelper PROVE Spec => []TypeOK
<1>1. Init => UpdateInv /\ LockTypeOK
  <2>1. Init => LockTypeOK
    BY InstanceAssumption DEF Init, LockInit, LockTypeOK, NoFile, Phases
  <2>. QED BY <2>1, InitUpdateInv
<1>2. UpdateInv /\ LockTypeOK /\ [Next]_vars => UpdateInv' /\ LockTypeOK'
  <2>1. LockTypeOK /\ UNCHANGED lockVars => LockTypeOK' BY DEF LockTypeOK
  <2>. QED BY <2>1, StepUpdateInv, StepIsLockStep, LockStepTyped DEF LockNext
<1>3. UpdateInv /\ LockTypeOK => TypeOK
  BY DEF UpdateInv, Carried, Card, HelperRecord, Steps, TypeOK
<1>. QED BY <1>1, <1>2, <1>3, PTL DEF Spec
-----------------------------------------------------------------------------
(* No start is refused without a reason, with or without a mutex.          *)

\* Two that are in the lock at a time have met.
AllMet == \A p, q \in Procs : InLock(p) /\ InLock(q) /\ p # q => met[p]

\* The mutex and an open file belong to processes that are there.
OwnersLive ==
    /\ mutex # NoOne => InLock(mutex) /\ pc[mutex] # "mutex"
    /\ file.open => file.by \in Procs /\ pc[file.by] \in {"write", "window"}

\* A start on its second attempt has found the file of somebody; if that is
\* another file now, or none, who changed it has been met.
SecondTry ==
    \A p \in Procs :
      second[p] =>
        /\ pc[p] # "mutex"
        /\ pc[p] \in {"look", "remove"} => file # NoFile \/ met[p]
        /\ pc[p] = "create" => file = NoFile \/ met[p]

Noticed == LockTypeOK /\ AllMet /\ OwnersLive /\ SecondTry

\* What a step of p changes for everybody else.
LEMMA OthersStay ==
  ASSUME LockTypeOK, NEW p \in Procs, LockStep(p)
  PROVE  /\ \A q \in Procs \ {p} : pc'[q] = pc[q] /\ second'[q] = second[q]
         /\ \A q \in Procs : met[q] /\ q # p => met'[q]
         /\ InLock(p) => UNCHANGED met
         /\ ~InLock(p) => UNCHANGED file
BY DEF LockStep, LockTypeOK, Begin, TakeMutex, Look, Remove, Create, Write, Close, Unlink,
       Finish, BeginSync, Crash, Reuse, GiveUp, InLock, Acquiring, Leaving

\* Who is in the lock after a step was there before it, or has just begun.
LEMMA EntersByBegin ==
  ASSUME LockTypeOK, NEW p \in Procs, LockStep(p), ~InLock(p), InLock(p)'
  PROVE  Begin(p)
BY DEF LockStep, LockTypeOK, Begin, TakeMutex, Look, Remove, Create, Write, Close, Unlink,
       Finish, BeginSync, Crash, Reuse, GiveUp, InLock, Acquiring, Leaving

LEMMA StepAllMet ==
  ASSUME LockTypeOK, AllMet, NEW p \in Procs, LockStep(p) PROVE AllMet'
<1>. SUFFICES ASSUME NEW q \in Procs, NEW r \in Procs, InLock(q)', InLock(r)', q # r
              PROVE  met'[q]
  BY DEF AllMet
<1>1. \A o \in Procs \ {p} : InLock(o)' => InLock(o) BY OthersStay DEF InLock
<1>2. CASE InLock(p) \/ p \notin {q, r}
  <2>1. InLock(q) /\ InLock(r) BY <1>1, <1>2
  <2>2. met[q] BY <2>1 DEF AllMet
  <2>3. CASE InLock(p) BY <2>2, <2>3, OthersStay
  <2>4. CASE p \notin {q, r} BY <2>2, <2>4, OthersStay
  <2>. QED BY <1>2, <2>3, <2>4
<1>3. CASE ~InLock(p) /\ p \in {q, r}
  <2>1. Begin(p) BY <1>3, EntersByBegin
  <2>2. CASE p = q
    <3>1. InLock(r) BY <1>1, <2>2
    <3>. QED BY <2>1, <2>2, <3>1 DEF Begin
  <2>3. CASE p = r
    <3>1. InLock(q) BY <1>1, <2>3
    <3>. QED BY <2>1, <2>3, <3>1 DEF Begin
  <2>. QED BY <1>3, <2>2, <2>3
<1>. QED BY <1>2, <1>3

LEMMA StepOwnersLive ==
  ASSUME LockTypeOK, OwnersLive, NEW p \in Procs, LockStep(p) PROVE OwnersLive'
<1>. USE InstanceAssumption DEF OwnersLive, LockTypeOK, InLock, Acquiring, Leaving
<1>1. CASE Begin(p) BY <1>1 DEF Begin
<1>2. CASE TakeMutex(p) BY <1>2 DEF TakeMutex
<1>3. CASE Look(p) BY <1>3 DEF Look, GiveUp
<1>4. CASE Remove(p) BY <1>4 DEF Remove, GiveUp, NoFile
<1>5. CASE Create(p) BY <1>5 DEF Create, GiveUp
<1>6. CASE Write(p) BY <1>6 DEF Write
<1>7. CASE Close(p) BY <1>7 DEF Close, Closed
<1>8. CASE Unlink(p) BY <1>8 DEF Unlink, NoFile
<1>9. CASE Finish(p) BY <1>9 DEF Finish
<1>10. CASE BeginSync(p) BY <1>10 DEF BeginSync
<1>11. CASE Crash(p) BY <1>11 DEF Crash, Closed
<1>12. CASE Reuse(p) BY <1>12 DEF Reuse
<1>. QED
  BY <1>1, <1>2, <1>3, <1>4, <1>5, <1>6, <1>7, <1>8, <1>9, <1>10, <1>11, <1>12
  DEF LockStep

LEMMA StepSecondTry ==
  ASSUME LockTypeOK, AllMet, OwnersLive, SecondTry, NEW p \in Procs, LockStep(p)
  PROVE  SecondTry'
<1>. SUFFICES ASSUME NEW q \in Procs, second'[q]
              PROVE  /\ pc'[q] # "mutex"
                     /\ pc'[q] \in {"look", "remove"} => file' # NoFile \/ met'[q]
                     /\ pc'[q] = "create" => file' = NoFile \/ met'[q]
  BY DEF SecondTry
\* Somebody else's step changes the file only if the two have met.
<1>1. CASE q # p
  <2>1. pc'[q] = pc[q] /\ second[q] /\ (met[q] => met'[q]) BY <1>1, OthersStay
  <2>2. CASE InLock(p)
    <3>1. pc[q] \in {"look", "remove", "create"} => met[q]
      BY <1>1, <2>2 DEF AllMet, InLock, Acquiring
    <3>. QED BY <2>1, <3>1 DEF SecondTry
  <2>3. CASE ~InLock(p)
    BY <2>1, <2>3, OthersStay DEF SecondTry
  <2>. QED BY <2>2, <2>3
<1>2. CASE q = p
  <2>. USE <1>2 DEF LockTypeOK, SecondTry
  <2>1. CASE Begin(p) BY <2>1 DEF Begin
  <2>2. CASE TakeMutex(p) BY <2>2 DEF TakeMutex
  <2>3. CASE Look(p) BY <2>3 DEF Look, GiveUp, Stale
  <2>4. CASE Remove(p)
    <3>1. CASE Removable BY <2>4, <3>1 DEF Remove, GiveUp
    <3>2. CASE ~Removable /\ second[p] BY <2>4, <3>2 DEF Remove, GiveUp
    <3>. QED BY <2>4, <3>1, <3>2 DEF Remove
  <2>5. CASE Create(p) BY <2>5 DEF Create, GiveUp
  <2>6. CASE Write(p) BY <2>6 DEF Write
  <2>7. CASE Close(p) BY <2>7 DEF Close
  <2>8. CASE Unlink(p) BY <2>8 DEF Unlink
  <2>9. CASE Finish(p) BY <2>9 DEF Finish
  <2>10. CASE BeginSync(p) BY <2>10 DEF BeginSync
  <2>11. CASE Crash(p) BY <2>11 DEF Crash
  <2>12. CASE Reuse(p) BY <2>12 DEF Reuse
  <2>. QED
    BY <2>1, <2>2, <2>3, <2>4, <2>5, <2>6, <2>7, <2>8, <2>9, <2>10, <2>11, <2>12
    DEF LockStep
<1>. QED BY <1>1, <1>2

\* Why a start may be refused in a state.
Excuse(p) == met[p] \/ (file.pid \in Procs /\ ~file.open /\ Running(file.pid))

LEMMA RefusedIsExcused ==
  ASSUME Noticed, NEW p \in Procs, LockStep(p),
         pc[p] # "refused", pc'[p] = "refused"
  PROVE  Excuse(p)
<1>. USE InstanceAssumption DEF Noticed
\* Whoever else is in the lock has been met.
<1>1. ASSUME NEW q \in Procs, InLock(q), q # p, InLock(p) PROVE met[p]
  BY <1>1 DEF AllMet
<1>2. ASSUME pc[p] \in {"look", "remove", "create"}, file.open PROVE met[p]
  BY <1>1, <1>2 DEF OwnersLive, InLock, Acquiring
<1>3. CASE TakeMutex(p)
  <2>1. mutex # NoOne /\ pc[p] = "mutex" BY <1>3 DEF TakeMutex, LockTypeOK
  <2>2. mutex \in Procs /\ InLock(mutex) /\ mutex # p
    BY <2>1 DEF OwnersLive, LockTypeOK
  <2>. QED BY <1>1, <2>1, <2>2 DEF InLock, Acquiring, Excuse
<1>4. CASE Look(p)
  <2>1. pc[p] = "look" /\ second[p] /\ ~Stale BY <1>4 DEF Look, LockTypeOK
  <2>. QED BY <1>2, <2>1 DEF SecondTry, Stale, Excuse
<1>5. CASE Remove(p)
  <2>1. pc[p] = "remove" /\ second[p] /\ ~Removable BY <1>5 DEF Remove, LockTypeOK
  <2>. QED BY <1>2, <2>1 DEF SecondTry, Removable, Excuse
<1>6. CASE Create(p)
  <2>1. pc[p] = "create" /\ second[p] /\ file # NoFile BY <1>6 DEF Create, LockTypeOK
  <2>. QED BY <2>1 DEF SecondTry, Excuse
<1>7. ~(Begin(p) \/ Write(p) \/ Close(p) \/ Unlink(p) \/ Finish(p) \/ BeginSync(p)
        \/ Crash(p) \/ Reuse(p))
  BY ZenonT(60) DEF LockTypeOK, Begin, Write, Close, Unlink, Finish, BeginSync, Crash, Reuse
<1>. QED BY <1>3, <1>4, <1>5, <1>6, <1>7 DEF LockStep

\* A start that gives up has met another window, or the number in the lock file
\* is in use again, with a mutex or without one: nothing that a crash, a start
\* or an update leaves behind locks the user out (acquire_instance_lock,
\* _remove_stale_lock).
THEOREM NobodyLockedOut == Spec => RefusedForAReason
<1>. DEFINE Step ==
       \A p \in Procs : pc[p] # "refused" /\ pc'[p] = "refused" =>
         met[p] \/ (file.pid \in Procs /\ ~file.open /\ Running(file.pid))
<1>1. Init => Noticed
  BY InstanceAssumption
  DEF Init, LockInit, Noticed, LockTypeOK, AllMet, OwnersLive, SecondTry, NoFile, Phases,
      InLock, Acquiring, Leaving
<1>2. Noticed /\ [Next]_vars => Noticed' /\ [Step]_lockVars
  <2>. SUFFICES ASSUME Noticed, [Next]_vars PROVE Noticed' /\ [Step]_lockVars
    OBVIOUS
  <2>1. CASE UNCHANGED lockVars
    BY <2>1 DEF Noticed, LockTypeOK, AllMet, OwnersLive, SecondTry, InLock
  <2>2. ASSUME NEW p \in Procs, LockStep(p) PROVE Noticed' /\ Step
    <3>1. Noticed'
      BY <2>2, LockStepTyped, StepAllMet, StepOwnersLive, StepSecondTry DEF Noticed
    <3>2. Step
      BY <2>2, RefusedIsExcused, OthersStay DEF Noticed, Excuse
    <3>. QED BY <3>1, <3>2
  <2>. QED BY <2>1, <2>2, StepIsLockStep DEF LockNext
<1>. HIDE DEF Step
<1>3. Spec => [][Step]_lockVars BY <1>1, <1>2, PTL DEF Spec
<1>. QED BY <1>3 DEF RefusedForAReason, Step
=============================================================================
