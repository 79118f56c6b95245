---------------------------- MODULE BusyAnswers -----------------------------
(***************************************************************************)
(* PipelineLock with an observer of some of its threads, which compares    *)
(* what a call is told with what was going on around it. It never          *)
(* restricts a step.                                                       *)
(***************************************************************************)
EXTENDS PipelineLock

CONSTANT Observed  \* the threads whose calls are observed

\* Callers that ask; a thread that also starts runs would keep an old answer.
ASSUME ObservedAssumption ==
  Observed \subseteq (Dashboard \cup Poller) \ (Runner \cup Watcher)

VARIABLE sawFree  \* no run owned the file lock at some instant of the call

allVars == <<vars, sawFree>>

RunOwnsFile == flock # None /\ pc[flock] \in {"keep_handle", "body", "unlock"}

Outside == {"idle", "dead"}

\* A call starts with the step that leaves "idle" and is over when it is back.
Observe ==
  sawFree' = [t \in Observed |->
    IF pc[t] \in Outside /\ pc'[t] \in Outside THEN sawFree[t]
    ELSE (pc[t] \notin Outside /\ sawFree[t]) \/ ~RunOwnsFile']

ObservedInit ==
  /\ Init
  /\ sawFree = [t \in Observed |-> FALSE]

ObservedSpec == ObservedInit /\ [][Next /\ Observe]_allVars /\ Fairness

\* is_pipeline_running never hides a run that lasted as long as the question:
\* when it answers "free", no run owned the file lock at some instant of the
\* call, although it reads three pieces of state one after the other and
\* another process may start or stop in between.
FreeMeansFree == \A t \in Observed : answer[t] = "free" => sawFree[t]
=============================================================================
