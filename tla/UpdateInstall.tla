--------------------------- MODULE UpdateInstall ---------------------------
(***************************************************************************)
(* The program replaces itself on Windows (websync/core/update_*.py, the   *)
(* card in gui/settings_tab/updater.py and --apply-update in               *)
(* x3_websync.py): a window finds a newer release, downloads and checks    *)
(* it, starts a helper from a copy of itself and ends; the helper waits    *)
(* for it, backs the program up, replaces it, tries it, rolls back if it   *)
(* does not work, and starts it again.  Meanwhile the user and the task    *)
(* scheduler start the program as they like, a second window may begin     *)
(* another update, and a helper may die between any two steps.             *)
(* The processes and their lock are those of InstanceLock.                 *)
(***************************************************************************)
EXTENDS InstanceLock

CONSTANTS Helpers,      \* helper processes
          MaxVersion,   \* bound: releases are 1..MaxVersion, the first is installed
          Bad,          \* the releases that do not work
          KeepCount     \* UPDATE_BACKUP_KEEP_COUNT

ASSUME UpdateAssumption ==
    MaxVersion \in Nat \ {0} /\ Bad \subseteq 2..MaxVersion /\ KeepCount \in Nat

VARIABLES target,    \* what the program file holds
          backups,   \* what the backup named after each version holds
          latest,    \* the release on the server
          ver,       \* the version each process runs
          card,      \* the updater card of each window: its step and its release
          helper     \* the helper processes

instVars == <<target, backups, latest, ver, card, helper>>
vars == <<lockVars, instVars>>

Versions == 1..MaxVersion
None == 0                   \* no file
Half == MaxVersion + 1      \* a file that is not all there
Files == Versions \cup {None, Half}

IdleCard == [at |-> "idle", want |-> None]
IdleHelper == [at |-> "idle", parent |-> NoOne, from |-> None, staged |-> None,
               said |-> "nothing"]

TypeOK ==
    /\ LockTypeOK
    /\ target \in Versions
    /\ backups \in [Versions -> Files]
    /\ latest \in Versions
    /\ ver \in [Procs -> Versions]
    /\ card \in [Procs -> [at : {"idle", "loading", "ready"}, want : Versions \cup {None}]]
    /\ helper \in [Helpers ->
          [at : {"idle", "wait", "check", "copy", "replace", "smoke", "rollback",
                 "cleanup", "restart"},
           parent : Procs \cup {NoOne}, from : Versions \cup {None}, staged : Files,
           said : {"nothing", "applied", "failed"}]]

Init ==
    /\ LockInit
    /\ target = 1
    /\ backups = [v \in Versions |-> None]
    /\ latest = 1
    /\ ver = [p \in Procs |-> 1]
    /\ card = [p \in Procs |-> IdleCard]
    /\ helper = [h \in Helpers |-> IdleHelper]

-----------------------------------------------------------------------------
\* Processes.  A program that fails the smoke check does not get past its
\* imports, so nothing is said of it here.
Works(f) == f \in Versions \ Bad
InUse == \E p \in Procs : pc[p] # "off"

Start(p) ==
    /\ Works(target)
    /\ Begin(p) \/ BeginSync(p)
    /\ ver' = [ver EXCEPT ![p] = target]
    /\ UNCHANGED <<target, backups, latest, card, helper>>

Work(p) ==
    /\ \/ TakeMutex(p) \/ Look(p) \/ Remove(p) \/ Create(p) \/ Write(p)
       \/ Unlink(p) \/ Finish(p) \/ Reuse(p)
    /\ UNCHANGED instVars

\* The card goes with its window.
Leave(p) ==
    /\ Close(p) \/ Crash(p)
    /\ card' = [card EXCEPT ![p] = IdleCard]
    /\ UNCHANGED <<target, backups, latest, ver, helper>>

-----------------------------------------------------------------------------
\* The card.
Publish ==
    /\ latest < MaxVersion
    /\ latest' = latest + 1
    /\ UNCHANGED <<lockVars, target, backups, ver, card, helper>>

SetCard(p, c) ==
    /\ card' = [card EXCEPT ![p] = c]
    /\ UNCHANGED <<lockVars, target, backups, latest, ver, helper>>

\* verify_release_manifest: nothing but a signed, unexpired manifest of a newer
\* version is an offer; anything else leaves the card as it was.
Offered(v) == latest > v

\* The user looks for an update and wants the one that is offered.
CheckForUpdate(p) ==
    /\ pc[p] = "window" /\ card[p].at = "idle" /\ Offered(ver[p])
    /\ SetCard(p, [at |-> "loading", want |-> latest])

\* The download is complete, of the right size and with the right hash.
Staged(p) ==
    /\ card[p].at = "loading"
    /\ SetCard(p, [card[p] EXCEPT !.at = "ready"])

\* It was cancelled, failed, or the user does not want to restart.
Dropped(p) ==
    /\ card[p].at # "idle"
    /\ SetCard(p, IdleCard)

\* The arguments given to the helper; the backup is named after the version.
NewHelper(p) ==
    [IdleHelper EXCEPT !.at = "wait", !.parent = p, !.from = ver[p],
                       !.staged = card[p].want]

\* launch_update_and_exit: the helper is started, then the window ends.
Launch(p, h) ==
    /\ card[p].at = "ready" /\ helper[h].at = "idle"
    /\ helper' = [helper EXCEPT ![h] = NewHelper(p)]
    /\ card' = [card EXCEPT ![p] = IdleCard]
    /\ Close(p)
    /\ UNCHANGED <<target, backups, latest, ver>>

-----------------------------------------------------------------------------
\* The helper.
Goes(h, at) == helper' = [helper EXCEPT ![h].at = at]
Ends(h, said) == helper' = [helper EXCEPT ![h].at = "idle", ![h].said = said]
Still == UNCHANGED <<lockVars, latest, ver, card>>

\* The disk or a virus scanner spoils or takes the downloaded file away.
Spoil(h) ==
    /\ helper[h].at \in {"wait", "check"} /\ helper[h].staged \in Versions
    /\ \E f \in {Half, None} : helper' = [helper EXCEPT ![h].staged = f]
    /\ Still /\ UNCHANGED <<target, backups>>

\* The parent is gone, or fifteen seconds are over.
Waited(h) ==
    /\ helper[h].at = "wait"
    /\ IF Running(helper[h].parent) THEN Ends(h, "failed") ELSE Goes(h, "check")
    /\ Still /\ UNCHANGED <<target, backups>>

\* A backup of this version must not exist yet.
ValidPaths(h) == backups[helper[h].from] = None /\ helper[h].staged # None

\* Faulty: the file is not hashed again before it is installed.
CheckPathsOnly(h) ==
    /\ helper[h].at = "check"
    /\ IF ValidPaths(h)
       THEN Goes(h, "copy") ELSE Ends(h, "failed")
    /\ Still /\ UNCHANGED <<target, backups>>

\* The paths, then the size and the hash of the downloaded file.
Check(h) ==
    /\ helper[h].at = "check"
    /\ IF ValidPaths(h) /\ helper[h].staged # Half
       THEN Goes(h, "copy") ELSE Ends(h, "failed")
    /\ Still /\ UNCHANGED <<target, backups>>

\* Faulty: copy2 inside the try, so that its failure is rolled back too.
CopyInsideTry(h) ==
    /\ helper[h].at = "copy"
    /\ \/ /\ backups' = [backups EXCEPT ![helper[h].from] = target]
          /\ Goes(h, "replace")
       \/ /\ backups' = [backups EXCEPT ![helper[h].from] = Half]
          /\ Goes(h, "rollback")
    /\ Still /\ UNCHANGED target

\* copy2 is not atomic and stands before the try: half a backup stays behind.
CopyBackup(h) ==
    /\ helper[h].at = "copy"
    /\ \/ /\ backups' = [backups EXCEPT ![helper[h].from] = target]
          /\ Goes(h, "replace")
       \/ /\ backups' = [backups EXCEPT ![helper[h].from] = Half]
          /\ Ends(h, "failed")
    /\ Still /\ UNCHANGED target

\* os.replace; Windows refuses while a process runs from the target.
Replace(h) ==
    /\ helper[h].at = "replace"
    /\ IF InUse \/ helper[h].staged = None
       THEN Goes(h, "rollback") /\ UNCHANGED target
       ELSE /\ target' = helper[h].staged
            /\ helper' = [helper EXCEPT ![h].at = "smoke", ![h].staged = None]
    /\ Still /\ UNCHANGED backups

\* --smoke; it may also fail for a program that works (after sixty seconds).
Smoke(h) ==
    /\ helper[h].at = "smoke"
    /\ \/ Works(target) /\ Goes(h, "cleanup")
       \/ Goes(h, "rollback")
    /\ Still /\ UNCHANGED <<target, backups>>

\* cleanup_update_backups keeps the newest, whose age is that of the program
\* inside (copy2 keeps the time stamp; half a copy is as new as its making).
Cleaned(keep) ==
    LET present == {v \in Versions : backups[v] # None}
    IN  {[v \in Versions |-> IF v \in kept THEN backups[v] ELSE None] :
            kept \in {k \in SUBSET present :
                /\ Cardinality(k) <= keep
                /\ Cardinality(k) < keep => k = present
                /\ \A v \in k, w \in present \ k : backups[v] >= backups[w]}}

Cleanup(h) ==
    /\ helper[h].at = "cleanup"
    /\ backups' \in Cleaned(KeepCount)
    /\ helper' = [helper EXCEPT ![h].at = "restart", ![h].said = "applied"]
    /\ Still /\ UNCHANGED target

\* The backup goes back, unless a process runs from the target by now.
Rollback(h) ==
    /\ helper[h].at = "rollback"
    /\ LET b == backups[helper[h].from] IN
          IF b = None \/ InUse
          THEN UNCHANGED <<target, backups>>
          ELSE /\ target' = b
               /\ backups' = [backups EXCEPT ![helper[h].from] = None]
    /\ Ends(h, "failed")
    /\ Still

\* The result is written, then the new program started; when that fails the
\* result is written again.
Restart(h) ==
    /\ helper[h].at = "restart"
    /\ \/ /\ \E p \in Procs : Begin(p) /\ ver' = [ver EXCEPT ![p] = target]
          /\ Works(target)
          /\ Goes(h, "idle")
       \/ Ends(h, "failed") /\ UNCHANGED <<lockVars, ver>>
    /\ UNCHANGED <<target, backups, latest, card>>

\* The helper dies; in the middle of the copy it leaves half of it.
HelperDies(h) ==
    /\ helper[h].at # "idle"
    /\ \/ UNCHANGED backups
       \/ /\ helper[h].at = "copy"
          /\ backups' = [backups EXCEPT ![helper[h].from] = Half]
    /\ Goes(h, "idle")
    /\ Still /\ UNCHANGED target

HelperStep(h) ==
    \/ Waited(h) \/ Check(h) \/ CopyBackup(h) \/ Replace(h) \/ Smoke(h)
    \/ Cleanup(h) \/ Rollback(h) \/ Restart(h)

Next ==
    \/ Publish
    \/ \E p \in Procs :
          \/ Start(p) \/ Work(p) \/ Leave(p)
          \/ CheckForUpdate(p) \/ Staged(p) \/ Dropped(p)
          \/ \E h \in Helpers : Launch(p, h)
    \/ \E h \in Helpers : HelperStep(h) \/ Spoil(h) \/ HelperDies(h)

Spec == Init /\ [][Next]_vars

-----------------------------------------------------------------------------
\* Whatever fails or dies, and whatever else is started: when the program file
\* does not hold a whole release that works, there is one among the backups.
Recoverable ==
    Works(target) \/ \E v \in Versions : Works(backups[v])
=============================================================================
