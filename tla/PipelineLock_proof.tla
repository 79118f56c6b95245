------------------------- MODULE PipelineLock_proof -------------------------
(***************************************************************************)
(* Mutual exclusion of the pipeline locks, for any number of processes and *)
(* threads; and of one of their callers, the worker of the watched folder, *)
(* that it is given each book at most once per announcement.               *)
(***************************************************************************)
EXTENDS BusyAnswers, FolderWatch, FiniteSetTheorems, SequenceTheorems, TLAPS

USE LockAssumption

\* Every variable keeps its type, whatever the threads do.
THEOREM TypeCorrect == Spec => []TypeOK
<1>1. Init => TypeOK
  BY DEF Init, TypeOK, PC, Checking, Inside
<1>2. TypeOK /\ [Next]_vars => TypeOK'
  <2> SUFFICES ASSUME TypeOK, [Next]_vars PROVE TypeOK'
    OBVIOUS
  <2> USE DEF TypeOK, PC, Checking, Inside, Goto
  <2>begins. ASSUME NEW t \in Thread, StartRun(t) \/ StartCheck(t) PROVE TypeOK'
    BY <2>begins DEF StartRun, StartCheck
  <2>attempts. ASSUME NEW t \in Thread, AttemptStep(t) PROVE TypeOK'
    <3>1. CASE TakePipeline(t) \/ PipelineRefused(t)
      BY <3>1 DEF TakePipeline, PipelineRefused
    <3>2. CASE TakeFlock(t) \/ FlockRefused(t) \/ KeepHandle(t)
      BY <3>2 DEF TakeFlock, FlockRefused, KeepHandle
    <3>3. CASE FinishBody(t) \/ Unlock(t) \/ DropHandle(t) \/ GiveBack(t)
      BY <3>3 DEF FinishBody, Unlock, DropHandle, GiveBack
    <3>4. QED BY <2>attempts, <3>1, <3>2, <3>3 DEF AttemptStep
  <2>asks. ASSUME NEW t \in Thread, CheckStep(t) PROVE TypeOK'
    <3>1. ASSUME NEW says \in {"busy", "free"}, Reply(t, says)
          PROVE /\ answer' \in [Thread -> {"none", "busy", "free"}]
                /\ checksLeft' \in [Thread -> 0..2]
                /\ pc' \in [Thread -> PC]
      BY <3>1 DEF Reply
    <3>2. CASE ReadLocked(t) BY <3>1, <3>2 DEF ReadLocked
    <3>3. CASE ReadHeld(t) BY <3>1, <3>3 DEF ReadHeld
    <3>4. CASE ReadHeldAgain(t) BY <3>1, <3>4 DEF ReadHeldAgain
    <3>5. CASE Probe(t) BY <3>1, <3>5 DEF Probe
    <3>6. CASE ProbeUnlock(t) BY <3>1, <3>6 DEF ProbeUnlock
    <3>7. QED BY <2>asks, <3>2, <3>3, <3>4, <3>5, <3>6 DEF CheckStep
  <2>dies. ASSUME NEW p \in Process, Crash(p) \/ Restart(p) PROVE TypeOK'
    BY <2>dies DEF Crash, Restart
  <2>stutters. CASE UNCHANGED vars
    BY <2>stutters DEF vars
  <2>. QED
    BY <2>begins, <2>attempts, <2>asks, <2>dies, <2>stutters DEF Next
<1>3. QED BY <1>1, <1>2, PTL DEF Spec

-----------------------------------------------------------------------------
\* The ownership of the three locks agrees with where their threads are.
THEOREM Ownership == Spec => []LockOwners
<1>1. Init => LockOwners
  BY DEF Init, LockOwners, Inside
<1>2. TypeOK /\ LockOwners /\ [Next]_vars => LockOwners'
  <2> SUFFICES ASSUME TypeOK, LockOwners, [Next]_vars PROVE LockOwners'
    OBVIOUS
  <2> USE DEF TypeOK, LockOwners, PC, Checking, Inside, Goto
  <2>begins. ASSUME NEW t \in Thread, StartRun(t) \/ StartCheck(t)
        PROVE LockOwners'
    BY <2>begins DEF StartRun, StartCheck
  <2>attempts. ASSUME NEW t \in Thread, AttemptStep(t) PROVE LockOwners'
    <3>1. CASE TakePipeline(t) BY <3>1 DEF TakePipeline
    <3>2. CASE PipelineRefused(t) BY <3>2 DEF PipelineRefused
    <3>3. CASE TakeFlock(t)
      \* The shortcut is impossible: the handle's thread would own the
      \* thread lock too.
      <4>1. held[Home[t]] = None
        BY <3>3 DEF TakeFlock
      <4>2. QED BY <3>3, <4>1 DEF TakeFlock
    <3>4. CASE FlockRefused(t) BY <3>4 DEF FlockRefused
    <3>5. CASE KeepHandle(t) BY <3>5 DEF KeepHandle
    <3>6. CASE FinishBody(t) BY <3>6 DEF FinishBody
    <3>7. CASE Unlock(t) BY <3>7 DEF Unlock
    <3>8. CASE DropHandle(t) BY <3>8 DEF DropHandle
    <3>9. CASE GiveBack(t) BY <3>9 DEF GiveBack
    <3>10. QED
      BY <2>attempts, <3>1, <3>2, <3>3, <3>4, <3>5, <3>6, <3>7, <3>8, <3>9
      DEF AttemptStep
  <2>asks. ASSUME NEW t \in Thread, CheckStep(t) PROVE LockOwners'
    <3>1. CASE ReadLocked(t) \/ ReadHeld(t) \/ ReadHeldAgain(t)
      \* These steps move t from one place that owns nothing to another.
      <4> DEFINE Away == {"idle", "take_pipeline", "read_locked", "read_held",
                          "read_held_again", "probe"}
      <4>1. pc[t] \in Away /\ \E to \in Away : pc' = [pc EXCEPT ![t] = to]
        <5>1. CASE ReadLocked(t) BY <5>1 DEF ReadLocked, Reply
        <5>2. CASE ReadHeld(t) BY <5>2 DEF ReadHeld, Reply
        <5>3. CASE ReadHeldAgain(t) BY <5>3 DEF ReadHeldAgain, Reply
        <5>4. QED BY <3>1, <5>1, <5>2, <5>3
      <4>2. UNCHANGED <<pipelineLock, held, flock>>
        BY <3>1 DEF ReadLocked, ReadHeld, ReadHeldAgain
      <4>3. QED BY <4>1, <4>2
    <3>2. CASE Probe(t) BY <3>2 DEF Probe, Reply
    <3>3. CASE ProbeUnlock(t) BY <3>3 DEF ProbeUnlock, Reply
    <3>4. QED BY <2>asks, <3>1, <3>2, <3>3 DEF CheckStep
  <2>dies. ASSUME NEW p \in Process, Crash(p) PROVE LockOwners'
    BY <2>dies DEF Crash
  <2>returns. ASSUME NEW p \in Process, Restart(p) PROVE LockOwners'
    BY <2>returns DEF Restart
  <2>stutters. CASE UNCHANGED vars
    BY <2>stutters DEF vars
  <2>. QED
    BY <2>begins, <2>attempts, <2>asks, <2>dies, <2>returns, <2>stutters
    DEF Next
<1>3. QED BY <1>1, <1>2, TypeCorrect, PTL DEF Spec

\* No two threads of any processes are in the pipeline body at once.
THEOREM MutualExclusion == Spec => []OneRunAtATime
<1>1. LockOwners => OneRunAtATime
  BY DEF LockOwners, OneRunAtATime
<1>2. QED BY <1>1, Ownership, PTL

\* A thread that has just won the thread lock finds no handle in the process
\* lock object, so every accepted run made a lock call of its own.
THEOREM NoReentry == Spec => []NeverReentrant
<1>1. TypeOK /\ LockOwners => NeverReentrant
  BY DEF TypeOK, LockOwners, NeverReentrant, Inside
<1>2. QED BY <1>1, TypeCorrect, Ownership, PTL

-----------------------------------------------------------------------------
(* The locks implement the safety part of SerialRuns.                      *)

LEMMA CurrentRunIs ==
  ASSUME OneRunAtATime
  PROVE  /\ \A t \in Thread : pc[t] = "body" => CurrentRun = t
         /\ (\A t \in Thread : pc[t] # "body") => CurrentRun = None
BY DEF OneRunAtATime, CurrentRun

LEMMA CurrentRunStays ==
  ASSUME OneRunAtATime, OneRunAtATime',
         \A t \in Thread : pc[t] = "body" <=> pc'[t] = "body"
  PROVE  CurrentRun' = CurrentRun
BY DEF OneRunAtATime, CurrentRun

\* Each step of the locks begins a run when none is going on, ends the current
\* one, or leaves the current run alone.
THEOREM ImplementsOneAtATime == Spec => Serial!OneAtATime
<1>1. Init => Serial!Init
  BY DEF Init, Serial!Init, CurrentRun
<1>2. /\ TypeOK /\ LockOwners /\ OneRunAtATime /\ NeverReentrant
      /\ OneRunAtATime'
      /\ [Next]_vars
      => [Serial!Next]_CurrentRun
  <2> SUFFICES ASSUME TypeOK, LockOwners, OneRunAtATime, NeverReentrant,
                      OneRunAtATime', [Next]_vars
               PROVE  [Serial!Next]_CurrentRun
    OBVIOUS
  <2> USE DEF TypeOK, Goto
  <2>1. ASSUME NEW t \in Thread, KeepHandle(t)
        PROVE Serial!Begin(t)
    <3>1. CurrentRun = None
      <4>1. \A u \in Thread : pc[u] # "body"
        BY <2>1 DEF KeepHandle, LockOwners
      <4>2. QED BY <4>1, CurrentRunIs
    <3>2. CurrentRun' = t
      <4>1. pc'[t] = "body"
        BY <2>1 DEF KeepHandle
      <4>2. QED BY <4>1 DEF CurrentRun, OneRunAtATime
    <3>3. QED BY <3>1, <3>2 DEF Serial!Begin
  <2>2. ASSUME NEW t \in Thread, FinishBody(t)
        PROVE Serial!End(t)
    <3>1. CurrentRun = t
      BY <2>2, CurrentRunIs DEF FinishBody
    <3>2. CurrentRun' = None
      <4>1. \A u \in Thread : pc'[u] # "body"
        BY <2>2 DEF FinishBody, OneRunAtATime
      <4>2. QED BY <4>1 DEF CurrentRun
    <3>3. QED BY <3>1, <3>2 DEF Serial!End
  <2>3. ASSUME NEW p \in Process, Crash(p)
        PROVE [Serial!Next]_CurrentRun
    <3>1. CASE \E t \in Thread : pc[t] = "body" /\ Home[t] = p
      <4>1. PICK t \in Thread : pc[t] = "body" /\ Home[t] = p
        BY <3>1
      <4>2. CurrentRun = t
        BY <4>1, CurrentRunIs
      <4>3. \A u \in Thread : pc'[u] # "body"
        BY <2>3, <4>1 DEF Crash, OneRunAtATime
      <4>4. CurrentRun' = None
        BY <4>3 DEF CurrentRun
      <4>5. QED BY <4>2, <4>4 DEF Serial!Next, Serial!End
    <3>2. CASE \A t \in Thread : pc[t] = "body" => Home[t] # p
      <4>1. \A t \in Thread : pc[t] = "body" <=> pc'[t] = "body"
        BY <2>3, <3>2 DEF Crash
      <4>2. QED BY <4>1, CurrentRunStays
    <3>3. QED BY <3>1, <3>2
  <2>4. ASSUME NEW p \in Process, Restart(p)
        PROVE UNCHANGED CurrentRun
    <3>1. \A t \in Thread : pc[t] = "body" <=> pc'[t] = "body"
      BY <2>4 DEF Restart
    <3>2. QED BY <3>1, CurrentRunStays
  <2>5. ASSUME NEW t \in Thread,
               \E from, to \in PC \ {"body"} :
                 pc[t] = from /\ pc' = [pc EXCEPT ![t] = to]
        PROVE UNCHANGED CurrentRun
    <3>1. \A u \in Thread : pc[u] = "body" <=> pc'[u] = "body"
      BY <2>5
    <3>2. QED BY <3>1, CurrentRunStays
  <2>6. ASSUME NEW t \in Thread, AttemptStep(t)
        PROVE [Serial!Next]_CurrentRun
    <3> USE DEF PC, Checking, Inside
    <3>1. CASE TakePipeline(t) \/ PipelineRefused(t) \/ FlockRefused(t)
      BY <2>5, <3>1 DEF TakePipeline, PipelineRefused, FlockRefused
    <3>2. CASE TakeFlock(t)
      <4>1. held[Home[t]] = None
        BY <3>2 DEF TakeFlock, NeverReentrant
      <4>2. QED BY <2>5, <3>2, <4>1 DEF TakeFlock
    <3>3. CASE KeepHandle(t)
      BY <2>1, <3>3 DEF Serial!Next
    <3>4. CASE FinishBody(t)
      BY <2>2, <3>4 DEF Serial!Next
    <3>5. CASE Unlock(t) \/ DropHandle(t) \/ GiveBack(t)
      BY <2>5, <3>5 DEF Unlock, DropHandle, GiveBack
    <3>6. QED BY <2>6, <3>1, <3>2, <3>3, <3>4, <3>5 DEF AttemptStep
  <2>7. ASSUME NEW t \in Thread, CheckStep(t)
        PROVE UNCHANGED CurrentRun
    <3> USE DEF PC, Checking, Inside
    <3>1. CASE ReadLocked(t) BY <2>5, <3>1 DEF ReadLocked, Reply
    <3>2. CASE ReadHeld(t) BY <2>5, <3>2 DEF ReadHeld, Reply
    <3>3. CASE ReadHeldAgain(t) BY <2>5, <3>3 DEF ReadHeldAgain, Reply
    <3>4. CASE Probe(t) BY <2>5, <3>4 DEF Probe, Reply
    <3>5. CASE ProbeUnlock(t) BY <2>5, <3>5 DEF ProbeUnlock, Reply
    <3>6. QED BY <2>7, <3>1, <3>2, <3>3, <3>4, <3>5 DEF CheckStep
  <2>8. ASSUME NEW t \in Thread, StartRun(t) \/ StartCheck(t)
        PROVE UNCHANGED CurrentRun
    BY <2>5, <2>8 DEF StartRun, StartCheck, PC, Checking, Inside
  <2>9. CASE UNCHANGED vars
    BY <2>9, CurrentRunStays DEF vars
  <2>10. QED
    BY <2>3, <2>4, <2>6, <2>7, <2>8, <2>9 DEF Next
<1>3. QED
  BY <1>1, <1>2, TypeCorrect, Ownership, MutualExclusion, NoReentry, PTL
  DEF Spec, Serial!OneAtATime

-----------------------------------------------------------------------------
(* The answers of is_pipeline_running (BusyAnswers).                       *)

\* Until an instant without a run on the file lock is seen, a run owns it, and
\* it is not one of the asking process: that process had its thread lock free
\* when the first question was answered, and nobody can have taken the file
\* lock since.
Watched ==
  /\ sawFree \in [Observed -> BOOLEAN]
  /\ \A t \in Observed :
       /\ answer[t] = "free" => sawFree[t]
       /\ pc[t] \notin Outside => RunOwnsFile \/ sawFree[t]
       /\ pc[t] \in {"read_held", "read_held_again"} /\ ~sawFree[t] =>
            \A u \in Thread :
              Home[u] = Home[t] =>
                pc[u] \notin {"keep_handle", "body", "unlock", "drop_handle"}

LEMMA StepWatched ==
  ASSUME ObservedAssumption, TypeOK, LockOwners, Watched, Next, Observe
  PROVE  Watched'
<1>. USE DEF TypeOK, PC, Checking, Inside, Outside, Goto, Watched
<1>1. sawFree' \in [Observed -> BOOLEAN]
  BY DEF Observe, RunOwnsFile
<1>. SUFFICES ASSUME NEW t \in Observed
              PROVE  /\ answer'[t] = "free" => sawFree'[t]
                     /\ pc'[t] \notin Outside => RunOwnsFile' \/ sawFree'[t]
                     /\ pc'[t] \in {"read_held", "read_held_again"} /\ ~sawFree'[t] =>
                          \A u \in Thread :
                            Home[u] = Home[t] =>
                              pc'[u] \notin {"keep_handle", "body", "unlock", "drop_handle"}
  BY <1>1
<1>2. /\ t \in Thread /\ t \in Dashboard \cup Poller
      /\ t \notin Runner \cup Watcher
  BY DEF ObservedAssumption
<1>3. sawFree'[t] =
        IF pc[t] \in Outside /\ pc'[t] \in Outside THEN sawFree[t]
        ELSE (pc[t] \notin Outside /\ sawFree[t]) \/ ~RunOwnsFile'
  BY DEF Observe
<1>4. pc'[t] \notin Outside => RunOwnsFile' \/ sawFree'[t]
  BY <1>3
\* What was seen during a call stays seen until the next one begins.
<1>5. pc[t] \notin Outside /\ sawFree[t] => sawFree'[t]
  BY <1>3
<1>6. CASE pc[t] \in Outside
  <2>1. CASE pc'[t] \in Outside
    <3>1. answer'[t] = answer[t] \/ answer'[t] = "none"
      BY <1>2, <1>6, <2>1, SMTT(30) DEF Next, StartRun, StartCheck, AttemptStep, CheckStep,
         TakePipeline, PipelineRefused, TakeFlock, FlockRefused, KeepHandle, FinishBody,
         Unlock, DropHandle, GiveBack, ReadLocked, ReadHeld, ReadHeldAgain, Probe,
         ProbeUnlock, Reply, Crash, Restart
    <3>. QED BY <1>3, <1>6, <2>1, <3>1
  <2>2. CASE pc'[t] \notin Outside
    <3>1. pc'[t] = "read_locked" /\ answer'[t] = "none"
      BY <1>2, <1>6, <2>2, SMTT(30) DEF Next, StartRun, StartCheck, AttemptStep, CheckStep,
         TakePipeline, PipelineRefused, TakeFlock, FlockRefused, KeepHandle, FinishBody,
         Unlock, DropHandle, GiveBack, ReadLocked, ReadHeld, ReadHeldAgain, Probe,
         ProbeUnlock, Reply, Crash, Restart
    <3>. QED BY <1>4, <3>1
  <2>. QED BY <2>1, <2>2
<1>7. CASE pc[t] \notin Outside /\ sawFree[t]
  BY <1>4, <1>5, <1>7
<1>8. CASE pc[t] \notin Outside /\ ~sawFree[t]
  <2>1. flock # None /\ pc[flock] \in {"keep_handle", "body", "unlock"}
    BY <1>8 DEF RunOwnsFile
  <2>2. answer'[t] # "free"
    <3>1. pc[t] # "probe_unlock"
      BY <1>2, <2>1 DEF LockOwners
    <3>2. pc[t] = "read_held_again" => held[Home[t]] = None
      BY <1>2, <1>8, LockAssumption DEF LockOwners
    <3>. QED
      BY <1>2, <1>8, <2>1, <3>1, <3>2, SMTT(30)
      DEF Next, StartRun, StartCheck, AttemptStep, CheckStep,
         TakePipeline, PipelineRefused, TakeFlock, FlockRefused, KeepHandle, FinishBody,
         Unlock, DropHandle, GiveBack, ReadLocked, ReadHeld, ReadHeldAgain, Probe,
         ProbeUnlock, Reply, Crash, Restart
  <2>3. ASSUME pc'[t] \in {"read_held", "read_held_again"}, NEW u \in Thread,
               Home[u] = Home[t]
        PROVE  pc'[u] \notin {"keep_handle", "body", "unlock", "drop_handle"}
    <3>1. pc[u] \notin {"keep_handle", "body", "unlock", "drop_handle"}
      <4>1. CASE pc[t] \in {"read_held", "read_held_again"}
        BY <1>8, <2>3, <4>1
      <4>2. CASE pc[t] \notin {"read_held", "read_held_again"}
        <5>1. ReadLocked(t) /\ pipelineLock[Home[t]] = None
          BY <1>2, <1>8, <2>3, <4>2, SMTT(30) DEF Next, StartRun, StartCheck, AttemptStep, CheckStep,
             TakePipeline, PipelineRefused, TakeFlock, FlockRefused, KeepHandle, FinishBody,
             Unlock, DropHandle, GiveBack, ReadLocked, ReadHeld, ReadHeldAgain, Probe,
             ProbeUnlock, Reply, Crash, Restart
        <5>. QED BY <2>3, <5>1, LockAssumption DEF LockOwners
      <4>. QED BY <4>1, <4>2
    <3>2. pc[u] = "take_flock" => held[Home[u]] = None
      BY DEF LockOwners
    <3>. QED
      BY <2>1, <3>1, <3>2, SMTT(30)
      DEF Next, StartRun, StartCheck, AttemptStep, CheckStep,
         TakePipeline, PipelineRefused, TakeFlock, FlockRefused, KeepHandle, FinishBody,
         Unlock, DropHandle, GiveBack, ReadLocked, ReadHeld, ReadHeldAgain, Probe,
         ProbeUnlock, Reply, Crash, Restart
  <2>. QED BY <1>4, <2>2, <2>3
<1>. QED BY <1>6, <1>7, <1>8

\* The busy check never answers "free" about a run that owned the file lock from
\* the question to the answer, in whatever order it and the others ran.
THEOREM FreeIsTrue == ObservedSpec => []FreeMeansFree
<1>1. ObservedSpec => [](TypeOK /\ LockOwners)
  <2>1. [Next /\ Observe]_allVars => [Next]_vars
    BY DEF allVars, vars
  <2>. QED BY <2>1, TypeCorrect, Ownership, PTL DEF ObservedSpec, ObservedInit, Spec
<1>2. ObservedInit => Watched
  BY ObservedAssumption DEF ObservedInit, Init, Watched, Outside
<1>3. TypeOK /\ LockOwners /\ Watched /\ [Next /\ Observe]_allVars => Watched'
  <2>1. UNCHANGED allVars /\ Watched => Watched'
    BY DEF allVars, vars, Watched, RunOwnsFile
  <2>. QED BY <2>1, StepWatched, ObservedAssumption
<1>4. Watched => FreeMeansFree
  BY DEF Watched, FreeMeansFree
<1>. QED BY <1>1, <1>2, <1>3, <1>4, PTL DEF ObservedSpec

-----------------------------------------------------------------------------
\* The watched folder.  No assumption on the locks is needed.
HIDE LockAssumption

\* Where one announcement of a book can be: among the pending ones, with a
\* timer thread, at a place of a queue, or with a worker.
AtPending     == <<"pending", 0, 0>>
InFlush(f)    == <<"flush", f, 0>>
InQueue(s, i) == <<"queue", s, i>>
AtWorker(s)   == <<"worker", s, 0>>

WithPending(pend, b) == IF pend[b] = "no" THEN {} ELSE {AtPending}
WithFlush(fl, b) == {InFlush(f) : f \in {g \in Flushes : b \in fl[g].todo \cup fl[g].ready}}
InLine(qu, s, b) == {InQueue(s, i) : i \in {j \in 1..Len(qu[s]) : qu[s][j] = b}}
WithQueue(qu, b) == UNION {InLine(qu, s, b) : s \in Sessions}
WithWorker(wo, b) == {AtWorker(s) : s \in {r \in Sessions : wo[r] = b}}
PlacesIn(pend, fl, qu, wo, b) ==
    WithPending(pend, b) \cup WithFlush(fl, b) \cup WithQueue(qu, b) \cup WithWorker(wo, b)

\* The places of a book.
Places(b) == PlacesIn(pending, flush, queue, worker, b)

\* A book has no more places than announcements that its turn has not come for.
Covered(b) ==
    /\ IsFiniteSet(Places(b)) /\ Cardinality(Places(b)) <= unsent[b]
    /\ unsent[b] + left <= MaxEvents

\* Timers belong to a session, and only one that looks has books.
Threads ==
    /\ watch # "off" \/ timer => session # 0
    /\ \A f \in Flushes :
          /\ flush[f].at # "idle" => flush[f].of # 0
          /\ flush[f].at # "looking" => flush[f].todo = {} /\ flush[f].ready = {}

FlushRow == [at : {"idle", "fired", "looking"}, of : 0..MaxStarts,
             todo : SUBSET Books, ready : SUBSET Books]

\* WatchTypeOK but for the range of unsent, which Covered gives.
Shapes ==
    /\ writing \subseteq Books
    /\ watch \in {"off", "on", "stopping"}
    /\ session \in 0..MaxStarts
    /\ pending \in [Books -> {"no", "young", "due"}]
    /\ timer \in BOOLEAN
    /\ flush \in [Flushes -> FlushRow]
    /\ queue \in [Sessions -> Seq(Books \cup {Stop})]
    /\ worker \in [Sessions -> {"none", "idle", "ended"} \cup Books]
    /\ left \in 0..MaxEvents
    /\ unsent \in [Books -> Int]
    /\ answered \subseteq Books

WatchInv == Shapes /\ Threads /\ \A b \in Books : Covered(b)

\* The places are different from each other.
LEMMA PlacesDiffer ==
    /\ \A f : InFlush(f) # AtPending
    /\ \A s, i : InQueue(s, i) # AtPending
    /\ \A s : AtWorker(s) # AtPending
    /\ \A f, s, i : InFlush(f) # InQueue(s, i)
    /\ \A f, s : InFlush(f) # AtWorker(s)
    /\ \A s, i, r : InQueue(s, i) # AtWorker(r)
    /\ \A f, g : InFlush(f) = InFlush(g) => f = g
    /\ \A s, i, r, j : InQueue(s, i) = InQueue(r, j) => s = r /\ i = j
    /\ \A s, r : AtWorker(s) = AtWorker(r) => s = r
BY DEF AtPending, InFlush, InQueue, AtWorker

\* What is in PlacesIn, place by place.
LEMMA Located ==
    ASSUME NEW pend, NEW fl, NEW qu, NEW wo, NEW b
    PROVE  LET P == PlacesIn(pend, fl, qu, wo, b)
           IN  /\ AtPending \in P <=> pend[b] # "no"
               /\ \A f \in Flushes : InFlush(f) \in P <=> b \in fl[f].todo \cup fl[f].ready
               /\ \A s \in Sessions : \A i :
                     InQueue(s, i) \in P <=> i \in 1..Len(qu[s]) /\ qu[s][i] = b
               /\ \A s \in Sessions : AtWorker(s) \in P <=> wo[s] = b
               /\ \A p \in P :
                     \/ p = AtPending
                     \/ \E f \in Flushes : p = InFlush(f)
                     \/ \E s \in Sessions : \E i : p = InQueue(s, i)
                     \/ \E s \in Sessions : p = AtWorker(s)
<1> DEFINE P == PlacesIn(pend, fl, qu, wo, b)
<1>1. \A p : p \in P <=> p \in WithPending(pend, b) \/ p \in WithFlush(fl, b)
                        \/ p \in WithQueue(qu, b) \/ p \in WithWorker(wo, b)
  BY DEF PlacesIn
<1>2. \A p : p \in WithPending(pend, b) <=> p = AtPending /\ pend[b] # "no"
  BY DEF WithPending
<1>3. \A p : p \in WithFlush(fl, b) <=>
             \E f \in Flushes : p = InFlush(f) /\ b \in fl[f].todo \cup fl[f].ready
  BY DEF WithFlush
<1>4. \A p : p \in WithQueue(qu, b) <=> \E s \in Sessions : \E i :
                 p = InQueue(s, i) /\ i \in 1..Len(qu[s]) /\ qu[s][i] = b
  <2>1. \A s, p : p \in InLine(qu, s, b)
                  <=> \E i : p = InQueue(s, i) /\ i \in 1..Len(qu[s]) /\ qu[s][i] = b
    BY DEF InLine
  <2>2. \A p : p \in WithQueue(qu, b) <=> \E s \in Sessions : p \in InLine(qu, s, b)
    BY DEF WithQueue
  <2>3. QED BY <2>1, <2>2
<1>5. \A p : p \in WithWorker(wo, b) <=> \E s \in Sessions : p = AtWorker(s) /\ wo[s] = b
  BY DEF WithWorker
<1> HIDE DEF P
<1>6. AtPending \in P <=> pend[b] # "no"
  BY <1>1, <1>2, <1>3, <1>4, <1>5, PlacesDiffer
<1>7. \A f \in Flushes : InFlush(f) \in P <=> b \in fl[f].todo \cup fl[f].ready
  BY <1>1, <1>2, <1>3, <1>4, <1>5, PlacesDiffer
<1>8. \A s \in Sessions : \A i :
        InQueue(s, i) \in P <=> i \in 1..Len(qu[s]) /\ qu[s][i] = b
  BY <1>1, <1>2, <1>3, <1>4, <1>5, PlacesDiffer
<1>9. \A s \in Sessions : AtWorker(s) \in P <=> wo[s] = b
  BY <1>1, <1>2, <1>3, <1>4, <1>5, PlacesDiffer
<1>10. \A p \in P :
          \/ p = AtPending
          \/ \E f \in Flushes : p = InFlush(f)
          \/ \E s \in Sessions : \E i : p = InQueue(s, i)
          \/ \E s \in Sessions : p = AtWorker(s)
  <2>1. \A p \in P : p \in WithPending(pend, b) \/ p \in WithFlush(fl, b)
                    \/ p \in WithQueue(qu, b) \/ p \in WithWorker(wo, b)
    BY <1>1
  <2>2. (\A p \in WithPending(pend, b) : p = AtPending)
        /\ \A p \in WithFlush(fl, b) : \E f \in Flushes : p = InFlush(f)
    BY <1>2, <1>3
  <2>3. \A p \in WithQueue(qu, b) : \E s \in Sessions : \E i : p = InQueue(s, i)
    BY <1>4
  <2>4. \A p \in WithWorker(wo, b) : \E s \in Sessions : p = AtWorker(s)
    BY <1>5
  <2>5. ASSUME NEW p \in P
        PROVE  \/ p = AtPending
               \/ \E f \in Flushes : p = InFlush(f)
               \/ \E s \in Sessions : \E i : p = InQueue(s, i)
               \/ \E s \in Sessions : p = AtWorker(s)
    <3>1. CASE p \in WithPending(pend, b) \/ p \in WithFlush(fl, b)
      BY <2>2, <3>1
    <3>2. CASE p \in WithQueue(qu, b)
      BY <2>3, <3>2
    <3>3. CASE p \in WithWorker(wo, b)
      BY <2>4, <3>3
    <3>4. QED BY <2>1, <3>1, <3>2, <3>3
  <2>6. QED BY <2>5
<1>11. QED BY <1>6, <1>7, <1>8, <1>9, <1>10 DEF P

\* Counting: a subset, one element moved, one more, one less, all renamed.
LEMMA Fewer ==
    ASSUME NEW S, IsFiniteSet(S), NEW T, T \subseteq S
    PROVE  IsFiniteSet(T) /\ Cardinality(T) <= Cardinality(S)
           /\ Cardinality(T) \in Nat /\ Cardinality(S) \in Nat
BY FS_Subset, FS_CardinalityType

LEMMA Moved ==
    ASSUME NEW S, IsFiniteSet(S), NEW x \in S, NEW y, NEW T, T \subseteq (S \ {x}) \cup {y}
    PROVE  IsFiniteSet(T) /\ Cardinality(T) <= Cardinality(S)
<1>1. IsFiniteSet(S \ {x}) /\ Cardinality(S \ {x}) = Cardinality(S) - 1
  BY FS_RemoveElement
<1>2. /\ IsFiniteSet((S \ {x}) \cup {y})
      /\ Cardinality((S \ {x}) \cup {y}) <= Cardinality(S \ {x}) + 1
  BY <1>1, FS_AddElement, FS_CardinalityType
<1>3. QED BY <1>1, <1>2, Fewer, FS_CardinalityType

LEMMA Added ==
    ASSUME NEW S, IsFiniteSet(S), NEW y, NEW T, T \subseteq S \cup {y}
    PROVE  IsFiniteSet(T) /\ Cardinality(T) <= Cardinality(S) + 1 /\ Cardinality(T) \in Nat
<1>1. /\ IsFiniteSet(S \cup {y})
      /\ Cardinality(S \cup {y}) <= Cardinality(S) + 1
  <2>1. Cardinality(S) \in Nat
    BY FS_CardinalityType
  <2>2. /\ IsFiniteSet(S \cup {y})
        /\ Cardinality(S \cup {y}) = IF y \in S THEN Cardinality(S) ELSE Cardinality(S) + 1
    BY FS_AddElement
  <2>3. QED BY <2>1, <2>2
<1>2. QED BY <1>1, Fewer, FS_CardinalityType

LEMMA Removed ==
    ASSUME NEW S, IsFiniteSet(S), NEW x \in S, NEW T, T \subseteq S \ {x}
    PROVE  IsFiniteSet(T) /\ Cardinality(T) <= Cardinality(S) - 1 /\ Cardinality(T) \in Nat
<1>1. IsFiniteSet(S \ {x}) /\ Cardinality(S \ {x}) = Cardinality(S) - 1
  BY FS_RemoveElement
<1>2. QED BY <1>1, Fewer, FS_CardinalityType

LEMMA Renamed ==
    ASSUME NEW S, IsFiniteSet(S), NEW g, g \in [S -> {g[p] : p \in S}]
    PROVE  /\ IsFiniteSet({g[p] : p \in S})
           /\ Cardinality({g[p] : p \in S}) <= Cardinality(S)
<1>1. g \in Surjection(S, {g[p] : p \in S})
  BY DEF Surjection
<1>2. QED BY <1>1, FS_Surjection

\* What a timer thread does to its record keeps the record's form.
LEMMA RowUpdated ==
    ASSUME NEW r \in FlushRow, NEW T \in SUBSET Books, NEW R \in SUBSET Books
    PROVE  /\ [r EXCEPT !.at = "looking", !.todo = T] \in FlushRow
           /\ [r EXCEPT !.todo = T, !.ready = R] \in FlushRow
           /\ [r EXCEPT !.ready = R] \in FlushRow
BY DEF FlushRow

\* Every step keeps the types.
LEMMA ShapesKept == ASSUME WatchInv, [WatchNext]_watchVars PROVE Shapes'
<1> USE WatchAssumption DEF WatchInv, Shapes, Threads, Sessions
<1>1. ASSUME NEW b \in Books, Announce(b) \/ Written(b) PROVE Shapes'
  <2>1. CASE Announce(b)
    <3>1. writing' \subseteq Books
      BY <2>1 DEF Announce
    <3>2. left' \in 0..MaxEvents /\ unsent' \in [Books -> Int] /\ answered' \subseteq Books
      BY <2>1 DEF Announce
    <3>3. pending' \in [Books -> {"no", "young", "due"}] /\ timer' \in BOOLEAN
      BY <2>1 DEF Announce, Schedule
    <3>4. QED BY <2>1, <3>1, <3>2, <3>3 DEF Announce
  <2>2. CASE Written(b)
    BY <2>2 DEF Written
  <2>3. QED BY <1>1, <2>1, <2>2
<1>2. ASSUME NEW f \in Flushes, Fire(f) PROVE Shapes'
  <2>1. [IdleFlush EXCEPT !.at = "fired", !.of = session] \in FlushRow
    BY DEF IdleFlush, FlushRow
  <2>2. pending' \in [Books -> {"no", "young", "due"}]
    BY <1>2 DEF Fire
  <2>3. QED BY <1>2, <2>1, <2>2 DEF Fire
<1>3. ASSUME NEW f \in Flushes, TakeDue(f) PROVE Shapes'
  <2>1. Candidates(f) \subseteq Books
    BY DEF Candidates
  <2>2. flush' = [flush EXCEPT ![f] = [flush[f] EXCEPT !.at = "looking", !.todo = Candidates(f)]]
    BY <1>3 DEF TakeDue, Looking
  <2>3. [flush[f] EXCEPT !.at = "looking", !.todo = Candidates(f)] \in FlushRow
    BY <2>1, RowUpdated
  <2>4. flush' \in [Flushes -> FlushRow]
    BY <2>2, <2>3
  <2>5. pending' \in [Books -> {"no", "young", "due"}]
    BY <1>3 DEF TakeDue
  <2>6. QED BY <1>3, <2>4, <2>5 DEF TakeDue, Looking
<1>4. ASSUME NEW f \in Flushes, NEW b \in Books, IsFileStable(f, b) PROVE Shapes'
  <2>1. PICK stable \in BOOLEAN :
          flush' = [flush EXCEPT ![f] =
                      [flush[f] EXCEPT !.todo = @ \ {b},
                                       !.ready = IF stable THEN @ \cup {b} ELSE @]]
    BY <1>4 DEF IsFileStable
  <2>2. [flush[f] EXCEPT !.todo = @ \ {b}, !.ready = IF stable THEN @ \cup {b} ELSE @]
          \in FlushRow
    <3>1. flush[f].todo \in SUBSET Books /\ flush[f].ready \in SUBSET Books
      BY DEF FlushRow
    <3>2. /\ flush[f].todo \ {b} \in SUBSET Books
          /\ (IF stable THEN flush[f].ready \cup {b} ELSE flush[f].ready) \in SUBSET Books
      BY <3>1
    <3>3. QED BY <3>2, RowUpdated
  <2>3. flush' \in [Flushes -> FlushRow]
    BY <2>1, <2>2
  <2>4. QED BY <1>4, <2>3 DEF IsFileStable
<1>5. ASSUME NEW f \in Flushes, OnNewFile(f) PROVE Shapes'
  <2>1. flush[f].of \in Sessions /\ flush[f].ready \in SUBSET Books
    BY <1>5 DEF OnNewFile, FlushRow
  <2>2. ASSUME NEW b \in flush[f].ready PROVE Append(queue[flush[f].of], b) \in Seq(Books \cup {Stop})
    BY <2>1, <2>2, AppendProperties
  <2>3. queue' \in [Sessions -> Seq(Books \cup {Stop})]
    <3>1. ASSUME NEW b \in flush[f].ready,
                 queue' = [queue EXCEPT ![flush[f].of] = Append(queue[flush[f].of], b)]
          PROVE queue' \in [Sessions -> Seq(Books \cup {Stop})]
      BY <2>1, <2>2, <3>1
    <3>2. QED BY <1>5, <3>1 DEF OnNewFile
  <2>4. flush' \in [Flushes -> FlushRow]
    <3>1. ASSUME NEW b, flush' = [flush EXCEPT ![f].ready = @ \ {b}]
          PROVE flush' \in [Flushes -> FlushRow]
      <4>1. flush' = [flush EXCEPT ![f] = [flush[f] EXCEPT !.ready = @ \ {b}]]
        BY <3>1
      <4>2. [flush[f] EXCEPT !.ready = @ \ {b}] \in FlushRow
        BY <2>1, RowUpdated
      <4>3. QED BY <4>1, <4>2
    <3>2. ASSUME flush' = [flush EXCEPT ![f] = IdleFlush]
          PROVE flush' \in [Flushes -> FlushRow]
      BY <3>2 DEF FlushRow, IdleFlush
    <3>3. QED BY <1>5, <3>1, <3>2 DEF OnNewFile
  <2>5. QED BY <1>5, <2>3, <2>4 DEF OnNewFile
<1>6. ASSUME NEW s \in Sessions, TakeNext(s) PROVE Shapes'
  <2>1. Head(queue[s]) \in Books \cup {Stop} /\ Tail(queue[s]) \in Seq(Books \cup {Stop})
    BY <1>6, HeadTailProperties DEF TakeNext
  <2>2. QED BY <1>6, <2>1 DEF TakeNext
<1>7. ASSUME NEW s \in Sessions, UploadSingleFile(s) PROVE Shapes'
  BY <1>7 DEF UploadSingleFile, Busy
<1>8. CASE StartWatch
  <2>1. session' \in Sessions /\ session' \in 0..MaxStarts
    BY <1>8 DEF StartWatch
  <2>2. worker' \in [Sessions -> {"none", "idle", "ended"} \cup Books]
    BY <1>8, <2>1 DEF StartWatch
  <2>3. pending' \in [Books -> {"no", "young", "due"}]
    BY <1>8 DEF StartWatch
  <2>4. QED BY <1>8, <2>1, <2>2, <2>3 DEF StartWatch
<1>9. CASE CancelTimer
  BY <1>9 DEF CancelTimer
<1>10. CASE StopWatch
  <2>1. session \in Sessions
    BY <1>10 DEF StopWatch
  <2>2. Append(queue[session], Stop) \in Seq(Books \cup {Stop})
    BY <2>1, AppendProperties
  <2>3. QED BY <1>10, <2>1, <2>2 DEF StopWatch
<1>11. CASE UNCHANGED watchVars
  BY <1>11 DEF watchVars
<1>12. QED BY <1>1, <1>2, <1>3, <1>4, <1>5, <1>6, <1>7, <1>8, <1>9, <1>10, <1>11
           DEF WatchNext, FlushStep, WorkerStep

\* Every step keeps what is known of sessions and timer threads.
LEMMA ThreadsKept == ASSUME WatchInv, [WatchNext]_watchVars PROVE Threads'
<1> USE WatchAssumption DEF WatchInv, Shapes, Threads, Sessions, FlushRow, IdleFlush
<1>1. ASSUME NEW b \in Books, Announce(b) \/ Written(b) PROVE Threads'
  BY <1>1 DEF Announce, Written, Schedule
<1>2. ASSUME NEW f \in Flushes, Fire(f) PROVE Threads'
  BY <1>2 DEF Fire
<1>3. ASSUME NEW f \in Flushes, TakeDue(f) PROVE Threads'
  BY <1>3 DEF TakeDue, Looking
<1>4. ASSUME NEW f \in Flushes, NEW b \in Books, IsFileStable(f, b) PROVE Threads'
  BY <1>4 DEF IsFileStable
<1>5. ASSUME NEW f \in Flushes, OnNewFile(f) PROVE Threads'
  <2>1. CASE flush' = [flush EXCEPT ![f] = IdleFlush]
    BY <1>5, <2>1 DEF OnNewFile
  <2>2. ASSUME NEW b, flush' = [flush EXCEPT ![f].ready = @ \ {b}] PROVE Threads'
    BY <1>5, <2>2 DEF OnNewFile
  <2>3. QED BY <1>5, <2>1, <2>2 DEF OnNewFile
<1>6. ASSUME NEW s \in Sessions, TakeNext(s) \/ UploadSingleFile(s) PROVE Threads'
  BY <1>6 DEF TakeNext, UploadSingleFile
<1>7. CASE StartWatch \/ CancelTimer \/ StopWatch
  BY <1>7 DEF StartWatch, CancelTimer, StopWatch
<1>8. CASE UNCHANGED watchVars
  BY <1>8 DEF watchVars
<1>9. QED BY <1>1, <1>2, <1>3, <1>4, <1>5, <1>6, <1>7, <1>8
          DEF WatchNext, FlushStep, WorkerStep

\* A step that adds no place of a book and leaves its count alone keeps Covered.
LEMMA Counted ==
    ASSUME NEW b, Covered(b), unsent[b] \in Int, left \in Nat
    PROVE  /\ Cardinality(Places(b)) \in Nat
           /\ (Places(b)' \subseteq Places(b) /\ unsent'[b] = unsent[b] /\ left' = left
                 => Covered(b)')
BY Fewer, FS_CardinalityType DEF Covered

\* No step gives a book more places than announcements without a turn:
\* an announcement adds one, an upload takes one away, and what lies between
\* (timer, check, queue) moves, shifts or drops places.
LEMMA CoveredKept ==
    ASSUME WatchInv, [WatchNext]_watchVars, NEW c \in Books
    PROVE  Covered(c)'
<1>0. Covered(c) /\ unsent \in [Books -> Int] /\ unsent[c] \in Int /\ left \in Nat
  BY WatchAssumption DEF WatchInv, Shapes
<1>c. /\ IsFiniteSet(Places(c)) /\ Cardinality(Places(c)) \in Nat
      /\ Cardinality(Places(c)) <= unsent[c] /\ unsent[c] + left <= MaxEvents
  BY <1>0, FS_CardinalityType DEF Covered
<1>t. /\ pending \in [Books -> {"no", "young", "due"}] /\ flush \in [Flushes -> FlushRow]
      /\ queue \in [Sessions -> Seq(Books \cup {Stop})]
      /\ worker \in [Sessions -> {"none", "idle", "ended"} \cup Books]
      /\ session \in 0..MaxStarts /\ Threads
  BY DEF WatchInv, Shapes
<1>u. Stop # c /\ "idle" \notin Books /\ "none" \notin Books /\ "ended" \notin Books
  BY WatchAssumption
<1>a. /\ AtPending \in Places(c) <=> pending[c] # "no"
      /\ \A f \in Flushes : InFlush(f) \in Places(c) <=> c \in flush[f].todo \cup flush[f].ready
      /\ \A s \in Sessions : \A i :
            InQueue(s, i) \in Places(c) <=> i \in 1..Len(queue[s]) /\ queue[s][i] = c
      /\ \A s \in Sessions : AtWorker(s) \in Places(c) <=> worker[s] = c
  BY Located DEF Places
<1> DEFINE Within(X) ==
       /\ pending'[c] # "no" => AtPending \in X
       /\ \A f \in Flushes : c \in flush'[f].todo \cup flush'[f].ready => InFlush(f) \in X
       /\ \A s \in Sessions : \A i \in 1..Len(queue'[s]) :
             queue'[s][i] = c => InQueue(s, i) \in X
       /\ \A s \in Sessions : worker'[s] = c => AtWorker(s) \in X
<1>b. ASSUME NEW X, Within(X) PROVE Places(c)' \subseteq X
  <2>1. /\ AtPending \in Places(c)' <=> pending'[c] # "no"
        /\ \A f \in Flushes : InFlush(f) \in Places(c)' <=> c \in flush'[f].todo \cup flush'[f].ready
        /\ \A s \in Sessions : \A i :
              InQueue(s, i) \in Places(c)' <=> i \in 1..Len(queue'[s]) /\ queue'[s][i] = c
        /\ \A s \in Sessions : AtWorker(s) \in Places(c)' <=> worker'[s] = c
        /\ \A p \in Places(c)' : \/ p = AtPending
                                 \/ \E f \in Flushes : p = InFlush(f)
                                 \/ \E s \in Sessions : \E i : p = InQueue(s, i)
                                 \/ \E s \in Sessions : p = AtWorker(s)
    BY Located DEF Places
  <2>2. QED BY <1>b, <2>1
<1> HIDE DEF Within
<1>1. ASSUME NEW b \in Books, Announce(b) PROVE Covered(c)'
  <2>1. CASE b = c
    <3>1. Places(c)' \subseteq Places(c) \cup {AtPending}
      <4>1. Within(Places(c) \cup {AtPending})
        BY <1>a, <1>t, <1>1, <2>1 DEF Announce, Schedule, Within
      <4>2. QED BY <4>1, <1>b
    <3>2. IsFiniteSet(Places(c)') /\ Cardinality(Places(c)') <= Cardinality(Places(c)) + 1
          /\ Cardinality(Places(c)') \in Nat
      BY <1>c, <3>1, Added
    <3>3. unsent'[c] = unsent[c] + 1 /\ left' = left - 1
      BY <1>0, <1>1, <2>1 DEF Announce
    <3>4. QED BY <1>0, <1>c, <3>2, <3>3, WatchAssumption DEF Covered
  <2>2. CASE b # c
    <3>1. Places(c)' \subseteq Places(c)
      <4>1. Within(Places(c))
        BY <1>a, <1>t, <1>1, <2>2 DEF Announce, Schedule, Within
      <4>2. QED BY <4>1, <1>b
    <3>2. unsent'[c] = unsent[c] /\ left' = left - 1
      BY <1>0, <1>1, <2>2 DEF Announce
    <3>3. IsFiniteSet(Places(c)') /\ Cardinality(Places(c)') <= Cardinality(Places(c))
          /\ Cardinality(Places(c)') \in Nat
      BY <1>c, <3>1, Fewer
    <3>4. QED BY <1>0, <1>c, <3>2, <3>3, WatchAssumption DEF Covered
  <2>3. QED BY <2>1, <2>2
<1>2. ASSUME NEW b \in Books, Written(b) PROVE Covered(c)'
  <2>1. Places(c)' \subseteq Places(c)
    <3>1. Within(Places(c))
      BY <1>a, <1>t, <1>2 DEF Written, Within
    <3>2. QED BY <3>1, <1>b
  <2>2. QED BY <1>0, <1>2, <2>1, Counted DEF Written
<1>3. ASSUME NEW f \in Flushes, Fire(f) PROVE Covered(c)'
  <2>1. \A g \in Flushes : flush'[g].todo \cup flush'[g].ready
                             \subseteq flush[g].todo \cup flush[g].ready
    BY <1>3 DEF Fire, IdleFlush
  <2>2. pending'[c] # "no" => pending[c] # "no"
    BY <1>3 DEF Fire
  <2>3. Places(c)' \subseteq Places(c)
    <3>1. Within(Places(c))
      BY <1>a, <1>t, <1>3, <2>1, <2>2 DEF Fire, Within
    <3>2. QED BY <3>1, <1>b
  <2>4. QED BY <1>0, <1>3, <2>3, Counted DEF Fire
<1>4. ASSUME NEW f \in Flushes, TakeDue(f) PROVE Covered(c)'
  <2>1. \A g \in Flushes \ {f} : flush'[g] = flush[g]
    BY <1>t, <1>4 DEF TakeDue, Looking
  <2>2. flush'[f].todo = Candidates(f) /\ flush'[f].ready = {}
    BY <1>t, <1>4 DEF TakeDue, Looking, Threads, FlushRow
  <2>3. CASE c \in Candidates(f)
    <3>1. pending[c] # "no" /\ pending'[c] = "no"
      BY <1>4, <2>3 DEF TakeDue, Candidates
    <3>2. Places(c)' \subseteq (Places(c) \ {AtPending}) \cup {InFlush(f)}
      <4>1. Within((Places(c) \ {AtPending}) \cup {InFlush(f)})
        BY <1>a, <1>t, <1>4, <2>1, <2>2, <3>1, PlacesDiffer DEF TakeDue, Looking, Within
      <4>2. QED BY <4>1, <1>b
    <3>3. AtPending \in Places(c)
      BY <1>a, <1>t, <3>1
    <3>4. IsFiniteSet(Places(c)') /\ Cardinality(Places(c)') <= Cardinality(Places(c))
      BY <1>0, <3>2, <3>3, Moved DEF Covered
    <3>5. QED BY <1>0, <1>4, <3>4, Counted, FS_CardinalityType DEF TakeDue, Looking, Covered
  <2>4. CASE c \notin Candidates(f)
    <3>1. pending'[c] = pending[c]
      BY <1>4, <2>4 DEF TakeDue
    <3>2. Places(c)' \subseteq Places(c)
      <4>1. Within(Places(c))
        BY <1>a, <1>t, <1>4, <2>1, <2>2, <2>4, <3>1 DEF TakeDue, Looking, Within
      <4>2. QED BY <4>1, <1>b
    <3>3. QED BY <1>0, <1>4, <3>2, Counted DEF TakeDue, Looking
  <2>5. QED BY <2>3, <2>4
<1>5. ASSUME NEW f \in Flushes, NEW b \in Books, IsFileStable(f, b) PROVE Covered(c)'
  <2>1. \A g \in Flushes : flush'[g].todo \cup flush'[g].ready
                             \subseteq flush[g].todo \cup flush[g].ready
    BY <1>t, <1>5 DEF IsFileStable, FlushRow
  <2>2. Places(c)' \subseteq Places(c)
    <3>1. Within(Places(c))
      BY <1>a, <1>t, <1>5, <2>1 DEF IsFileStable, Within
    <3>2. QED BY <3>1, <1>b
  <2>3. QED BY <1>0, <1>5, <2>2, Counted DEF IsFileStable
<1>6. ASSUME NEW f \in Flushes, OnNewFile(f) PROVE Covered(c)'
  <2>1. CASE flush[f].ready = {} /\ flush' = [flush EXCEPT ![f] = IdleFlush] /\ UNCHANGED queue
    <3>1. \A g \in Flushes : flush'[g].todo \cup flush'[g].ready
                               \subseteq flush[g].todo \cup flush[g].ready
      BY <2>1 DEF IdleFlush
    <3>2. Places(c)' \subseteq Places(c)
      <4>1. Within(Places(c))
        BY <1>a, <1>t, <1>6, <2>1, <3>1 DEF OnNewFile, Within
      <4>2. QED BY <4>1, <1>b
    <3>3. QED BY <1>0, <1>6, <3>2, Counted DEF OnNewFile
  <2>2. ASSUME NEW b \in flush[f].ready,
               queue' = [queue EXCEPT ![flush[f].of] = Append(@, b)],
               flush' = [flush EXCEPT ![f].ready = @ \ {b}]
        PROVE  Covered(c)'
    <3>1. flush[f].of \in Sessions /\ b \in Books
      BY <1>t, <1>6, <2>2 DEF OnNewFile, FlushRow, Threads, Sessions
    <3>2. /\ \A s \in Sessions \ {flush[f].of} : queue'[s] = queue[s]
          /\ queue'[flush[f].of] = Append(queue[flush[f].of], b)
      BY <1>t, <2>2, <3>1
    <3>3. /\ Len(queue[flush[f].of]) \in Nat
          /\ Len(queue'[flush[f].of]) = Len(queue[flush[f].of]) + 1
          /\ \A i \in 1..Len(queue[flush[f].of]) :
                queue'[flush[f].of][i] = queue[flush[f].of][i]
          /\ queue'[flush[f].of][Len(queue[flush[f].of]) + 1] = b
      BY <1>t, <3>1, <3>2, AppendProperties, LenProperties
    <3>4. /\ \A g \in Flushes \ {f} : flush'[g] = flush[g]
          /\ flush'[f].todo = {} /\ flush[f].todo = {} /\ flush'[f].ready = flush[f].ready \ {b}
      BY <1>t, <1>6, <2>2 DEF OnNewFile, FlushRow, Threads
    <3>5. CASE b = c
      <4>1. InFlush(f) \in Places(c)
        BY <1>a, <1>t, <3>5
      <4>2. Places(c)' \subseteq (Places(c) \ {InFlush(f)})
                                  \cup {InQueue(flush[f].of, Len(queue[flush[f].of]) + 1)}
        <5>1. Within((Places(c) \ {InFlush(f)})
                                  \cup {InQueue(flush[f].of, Len(queue[flush[f].of]) + 1)})
          <6> DEFINE X == (Places(c) \ {InFlush(f)})
                            \cup {InQueue(flush[f].of, Len(queue[flush[f].of]) + 1)}
          <6>1. pending'[c] # "no" => AtPending \in X
            BY <1>a, <1>6, PlacesDiffer DEF OnNewFile
          <6>2. \A g \in Flushes : c \in flush'[g].todo \cup flush'[g].ready => InFlush(g) \in X
            BY <1>a, <3>4, <3>5, PlacesDiffer
          <6>3. \A s \in Sessions : \A i \in 1..Len(queue'[s]) :
                  queue'[s][i] = c => InQueue(s, i) \in X
            <7>1. ASSUME NEW i \in 1..Len(queue'[flush[f].of]), queue'[flush[f].of][i] = c
                  PROVE  InQueue(flush[f].of, i) \in X
              <8>1. i \in 1..Len(queue[flush[f].of]) \/ i = Len(queue[flush[f].of]) + 1
                BY <3>3
              <8>2. CASE i \in 1..Len(queue[flush[f].of])
                BY <1>a, <3>1, <3>3, <7>1, <8>2, PlacesDiffer
              <8>3. CASE i = Len(queue[flush[f].of]) + 1
                BY <8>3
              <8>4. QED BY <8>1, <8>2, <8>3
            <7>2. QED BY <1>a, <3>2, <7>1, PlacesDiffer
          <6>4. \A s \in Sessions : worker'[s] = c => AtWorker(s) \in X
            BY <1>a, <1>6, PlacesDiffer DEF OnNewFile
          <6>5. QED BY <6>1, <6>2, <6>3, <6>4 DEF Within
        <5>2. QED BY <5>1, <1>b
      <4>3. IsFiniteSet(Places(c)') /\ Cardinality(Places(c)') <= Cardinality(Places(c))
        BY <1>0, <4>1, <4>2, Moved DEF Covered
      <4>4. QED BY <1>0, <1>6, <4>3, Counted, FS_CardinalityType DEF OnNewFile, Covered
    <3>6. CASE b # c
      <4>1. Places(c)' \subseteq Places(c)
        <5>1. Within(Places(c))
          <6>1. \A g \in Flushes : c \in flush'[g].todo \cup flush'[g].ready
                                     => InFlush(g) \in Places(c)
            BY <1>a, <3>4
          <6>2. \A s \in Sessions : \A i \in 1..Len(queue'[s]) :
                  queue'[s][i] = c => InQueue(s, i) \in Places(c)
            <7>1. ASSUME NEW i \in 1..Len(queue'[flush[f].of]), queue'[flush[f].of][i] = c
                  PROVE  InQueue(flush[f].of, i) \in Places(c)
              <8>1. i \in 1..Len(queue[flush[f].of]) \/ i = Len(queue[flush[f].of]) + 1
                BY <3>3
              <8>2. i \in 1..Len(queue[flush[f].of]) /\ queue[flush[f].of][i] = c
                BY <3>3, <3>6, <7>1, <8>1
              <8>3. QED BY <1>a, <3>1, <8>2
            <7>2. QED BY <1>a, <3>2, <7>1
          <6>3. QED BY <1>a, <1>6, <6>1, <6>2 DEF OnNewFile, Within
        <5>2. QED BY <5>1, <1>b
      <4>2. QED BY <1>0, <1>6, <4>1, Counted DEF OnNewFile
    <3>7. QED BY <3>5, <3>6
  <2>3. QED BY <1>6, <2>1, <2>2 DEF OnNewFile
<1>7. ASSUME NEW s \in Sessions, TakeNext(s) PROVE Covered(c)'
  <2> DEFINE After(p) ==
        IF p = InQueue(s, 1) THEN AtWorker(s)
        ELSE IF p[1] = "queue" /\ p[2] = s THEN InQueue(s, p[3] - 1) ELSE p
  <2>1. queue[s] \in Seq(Books \cup {Stop}) /\ queue[s] # <<>> /\ queue'[s] = Tail(queue[s])
        /\ \A r \in Sessions \ {s} : queue'[r] = queue[r]
    BY <1>t, <1>7 DEF TakeNext
  <2>2. /\ Len(queue[s]) \in Nat \ {0} /\ Len(queue'[s]) = Len(queue[s]) - 1
        /\ \A i \in 1..Len(queue'[s]) : queue'[s][i] = queue[s][i + 1]
        /\ Head(queue[s]) = queue[s][1]
    BY <2>1, HeadTailProperties, LenProperties, EmptySeq
  <2>3. /\ worker'[s] = c => queue[s][1] = c
        /\ \A r \in Sessions \ {s} : worker'[r] = worker[r]
    BY <1>t, <1>u, <1>7, <2>2 DEF TakeNext
  <2>4. /\ After(AtPending) = AtPending
        /\ \A f : After(InFlush(f)) = InFlush(f)
        /\ \A r : After(AtWorker(r)) = AtWorker(r)
        /\ \A r, i : r # s => After(InQueue(r, i)) = InQueue(r, i)
        /\ After(InQueue(s, 1)) = AtWorker(s)
        /\ \A i \in Nat \ {0} : After(InQueue(s, i + 1)) = InQueue(s, i)
    BY DEF AtPending, InFlush, AtWorker, InQueue
  <2> HIDE DEF After
  <2> DEFINE g == [p \in Places(c) |-> After(p)]
             X == {g[p] : p \in Places(c)}
  <2>5. \A p \in Places(c) : After(p) \in X
    OBVIOUS
  <2>6. IsFiniteSet(X) /\ Cardinality(X) <= Cardinality(Places(c))
    <3>1. g \in [Places(c) -> X] /\ IsFiniteSet(Places(c))
      BY <1>0 DEF Covered
    <3> HIDE DEF g
    <3>2. QED BY <3>1, Renamed
  <2> HIDE DEF X
  <2>7. Places(c)' \subseteq X
    <3>1. pending'[c] # "no" => AtPending \in X
      BY <1>a, <1>7, <2>4, <2>5 DEF TakeNext
    <3>2. \A f \in Flushes : c \in flush'[f].todo \cup flush'[f].ready => InFlush(f) \in X
      BY <1>a, <1>7, <2>4, <2>5 DEF TakeNext
    <3>3. ASSUME NEW r \in Sessions, NEW i \in 1..Len(queue'[r]), queue'[r][i] = c
          PROVE  InQueue(r, i) \in X
      <4>1. CASE r = s
        <5>1. i \in Nat \ {0} /\ i + 1 \in 1..Len(queue[s]) /\ queue[s][i + 1] = c
          BY <2>2, <3>3, <4>1
        <5>2. InQueue(s, i + 1) \in Places(c)
          BY <1>a, <5>1
        <5>3. QED BY <2>4, <2>5, <4>1, <5>1, <5>2
      <4>2. CASE r # s
        <5>1. InQueue(r, i) \in Places(c)
          BY <1>a, <2>1, <3>3, <4>2
        <5>2. QED BY <2>4, <2>5, <4>2, <5>1
      <4>3. QED BY <4>1, <4>2
    <3>4. ASSUME NEW r \in Sessions, worker'[r] = c PROVE AtWorker(r) \in X
      <4>1. CASE r = s
        <5>1. 1 \in 1..Len(queue[s]) /\ queue[s][1] = c
          BY <2>2, <2>3, <3>4, <4>1
        <5>2. InQueue(s, 1) \in Places(c)
          BY <1>a, <5>1
        <5>3. QED BY <2>4, <2>5, <4>1, <5>2
      <4>2. CASE r # s
        <5>1. AtWorker(r) \in Places(c)
          BY <1>a, <2>3, <3>4, <4>2
        <5>2. QED BY <2>4, <2>5, <5>1
      <4>3. QED BY <4>1, <4>2
    <3>5. Within(X)
      BY <3>1, <3>2, <3>3, <3>4 DEF Within
    <3>6. QED BY <3>5, <1>b
  <2>8. IsFiniteSet(Places(c)') /\ Cardinality(Places(c)') <= Cardinality(X)
        /\ Cardinality(Places(c)') \in Nat /\ Cardinality(X) \in Nat
    BY <2>6, <2>7, Fewer
  <2>9. unsent'[c] = unsent[c] /\ left' = left
    BY <1>7 DEF TakeNext
  <2>10. QED BY <1>0, <1>c, <2>6, <2>8, <2>9, WatchAssumption DEF Covered
<1>8. ASSUME NEW s \in Sessions, UploadSingleFile(s) PROVE Covered(c)'
  <2>1. CASE worker[s] = c
    <3>1. AtWorker(s) \in Places(c)
      BY <1>a, <1>t, <2>1
    <3>2. worker'[s] # c /\ \A r \in Sessions \ {s} : worker'[r] = worker[r]
      BY <1>t, <1>u, <1>8, <2>1 DEF UploadSingleFile
    <3>3. Places(c)' \subseteq Places(c) \ {AtWorker(s)}
      <4>1. Within(Places(c) \ {AtWorker(s)})
        <5>1. \A r \in Sessions : worker'[r] = c => AtWorker(r) \in Places(c) \ {AtWorker(s)}
          BY <1>a, <3>2, PlacesDiffer
        <5>2. \A r \in Sessions : \A i \in 1..Len(queue'[r]) :
                queue'[r][i] = c => InQueue(r, i) \in Places(c) \ {AtWorker(s)}
          BY <1>a, <1>8, PlacesDiffer DEF UploadSingleFile
        <5>3. \A f \in Flushes : c \in flush'[f].todo \cup flush'[f].ready
                                  => InFlush(f) \in Places(c) \ {AtWorker(s)}
          BY <1>a, <1>8, PlacesDiffer DEF UploadSingleFile
        <5>4. QED BY <1>a, <1>8, <5>1, <5>2, <5>3, PlacesDiffer DEF UploadSingleFile, Within
      <4>2. QED BY <4>1, <1>b
    <3>4. IsFiniteSet(Places(c)') /\ Cardinality(Places(c)') <= Cardinality(Places(c)) - 1
          /\ Cardinality(Places(c)') \in Nat
      BY <1>c, <3>1, <3>3, Removed
    <3>5. unsent'[c] = unsent[c] - 1 /\ left' = left
      BY <1>0, <1>8, <2>1 DEF UploadSingleFile
    <3>6. QED BY <1>0, <1>c, <3>4, <3>5, WatchAssumption DEF Covered
  <2>2. CASE worker[s] # c
    <3>1. \A r \in Sessions : worker'[r] = c => worker[r] = c
      BY <1>t, <1>u, <1>8 DEF UploadSingleFile
    <3>2. Places(c)' \subseteq Places(c)
      <4>1. Within(Places(c))
        BY <1>a, <1>t, <1>8, <3>1 DEF UploadSingleFile, Within
      <4>2. QED BY <4>1, <1>b
    <3>3. unsent'[c] = unsent[c] /\ left' = left
      BY <1>8, <2>2 DEF UploadSingleFile
    <3>4. QED BY <1>0, <3>2, <3>3, Counted
  <2>3. QED BY <2>1, <2>2
<1>9. CASE StartWatch
  <2>1. \A r \in Sessions : worker'[r] = c => worker[r] = c
    BY <1>t, <1>u, <1>9, WatchAssumption DEF StartWatch, Sessions
  <2>2. pending'[c] = "no"
    BY <1>9 DEF StartWatch
  <2>3. Places(c)' \subseteq Places(c)
    <3>1. Within(Places(c))
      BY <1>a, <1>t, <1>9, <2>1, <2>2 DEF StartWatch, Within
    <3>2. QED BY <3>1, <1>b
  <2>4. QED BY <1>0, <1>9, <2>3, Counted DEF StartWatch
<1>10. CASE CancelTimer
  <2>1. Places(c)' \subseteq Places(c)
    <3>1. Within(Places(c))
      BY <1>a, <1>t, <1>10 DEF CancelTimer, Within
    <3>2. QED BY <3>1, <1>b
  <2>2. QED BY <1>0, <1>10, <2>1, Counted DEF CancelTimer
<1>11. CASE StopWatch
  <2>1. session \in Sessions
    BY <1>t, <1>11, WatchAssumption DEF StopWatch, Threads, Sessions
  <2>2. /\ \A s \in Sessions \ {session} : queue'[s] = queue[s]
        /\ queue'[session] = Append(queue[session], Stop)
    BY <1>t, <1>11, <2>1 DEF StopWatch
  <2>3. /\ Len(queue[session]) \in Nat
        /\ Len(queue'[session]) = Len(queue[session]) + 1
        /\ \A i \in 1..Len(queue[session]) : queue'[session][i] = queue[session][i]
        /\ queue'[session][Len(queue[session]) + 1] = Stop
    BY <1>t, <2>1, <2>2, AppendProperties, LenProperties
  <2>4. Places(c)' \subseteq Places(c)
    <3>1. Within(Places(c))
      BY <1>a, <1>t, <1>u, <1>11, <2>1, <2>2, <2>3 DEF StopWatch, Within
    <3>2. QED BY <3>1, <1>b
  <2>5. QED BY <1>0, <1>11, <2>4, Counted DEF StopWatch
<1>12. CASE UNCHANGED watchVars
  <2>1. Places(c)' \subseteq Places(c)
    <3>1. Within(Places(c))
      BY <1>a, <1>t, <1>12 DEF watchVars, Within
    <3>2. QED BY <3>1, <1>b
  <2>2. QED BY <1>0, <1>12, <2>1, Counted DEF watchVars
<1>13. QED BY <1>1, <1>2, <1>3, <1>4, <1>5, <1>6, <1>7, <1>8, <1>9, <1>10, <1>11, <1>12
           DEF WatchNext, FlushStep, WorkerStep

\* The inductive invariant of the watched folder.
LEMMA WatchInvariant == WatchSpec => []WatchInv
<1>1. WatchInit => WatchInv
  <2> SUFFICES ASSUME WatchInit PROVE WatchInv
    OBVIOUS
  <2> USE WatchAssumption DEF WatchInit
  <2>1. Shapes
    <3>1. <<>> \in Seq(Books \cup {Stop})
      BY EmptySeq
    <3>2. IdleFlush \in FlushRow
      BY DEF IdleFlush, FlushRow
    <3>3. flush \in [Flushes -> FlushRow] /\ queue \in [Sessions -> Seq(Books \cup {Stop})]
      BY <3>1, <3>2
    <3>4. session \in 0..MaxStarts /\ left \in 0..MaxEvents /\ unsent \in [Books -> Int]
      OBVIOUS
    <3>5. QED BY <3>3, <3>4 DEF Shapes
  <2>2. Threads
    BY DEF Threads, IdleFlush
  <2>3. ASSUME NEW b \in Books PROVE Covered(b)
    <3>1. Places(b) = {}
      <4>1. pending[b] = "no" /\ \A s \in Sessions : worker[s] # b /\ Len(queue[s]) = 0
        BY EmptySeq DEF Sessions
      <4>2. \A f \in Flushes : b \notin flush[f].todo \cup flush[f].ready
        BY DEF IdleFlush
      <4>3. /\ AtPending \in Places(b) <=> pending[b] # "no"
            /\ \A f \in Flushes : InFlush(f) \in Places(b) <=> b \in flush[f].todo \cup flush[f].ready
            /\ \A s \in Sessions : \A i :
                  InQueue(s, i) \in Places(b) <=> i \in 1..Len(queue[s]) /\ queue[s][i] = b
            /\ \A s \in Sessions : AtWorker(s) \in Places(b) <=> worker[s] = b
            /\ \A p \in Places(b) : \/ p = AtPending
                                    \/ \E f \in Flushes : p = InFlush(f)
                                    \/ \E s \in Sessions : \E i : p = InQueue(s, i)
                                    \/ \E s \in Sessions : p = AtWorker(s)
        BY Located DEF Places
      <4>4. \A i : i \notin 1..0
        OBVIOUS
      <4>5. \A s \in Sessions : \A i : InQueue(s, i) \notin Places(b)
        BY <4>1, <4>3, <4>4
      <4>6. QED BY <4>1, <4>2, <4>3, <4>5
    <3>2. QED BY <3>1, FS_EmptySet DEF Covered
  <2>4. QED BY <2>1, <2>2, <2>3 DEF WatchInv
<1>2. WatchInv /\ [WatchNext]_watchVars => WatchInv'
  BY ShapesKept, ThreadsKept, CoveredKept DEF WatchInv, Shapes
<1>3. QED BY <1>1, <1>2, PTL DEF WatchSpec

\* A book has at most one turn, and so one upload, for each time it was announced,
\* however timers, checks, queues and sessions overlap, for any folder and number of
\* threads.
THEOREM BooksSentOnce == WatchSpec => []SentOncePerEvent
<1>1. WatchInv => SentOncePerEvent
  BY Counted DEF WatchInv, Shapes, Covered, SentOncePerEvent
<1>2. QED BY <1>1, WatchInvariant, PTL

\* Every variable keeps its type; the bounds of unsent are those of Covered.
THEOREM WatchTyped == WatchSpec => []WatchTypeOK
<1>1. WatchInv => WatchTypeOK
  <2> SUFFICES ASSUME WatchInv, NEW b \in Books PROVE unsent[b] \in -MaxEvents..MaxEvents
    BY DEF WatchInv, Shapes, FlushRow, WatchTypeOK
  <2>1. 0 <= unsent[b] /\ unsent[b] <= MaxEvents
    BY WatchAssumption, Counted DEF WatchInv, Shapes, Covered
  <2>2. QED BY <2>1, WatchAssumption DEF WatchInv, Shapes
<1>2. QED BY <1>1, WatchInvariant, PTL
=============================================================================
