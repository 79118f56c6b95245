---------------------------- MODULE PipelineLock ----------------------------
(***************************************************************************)
(* The two locks that serialise every use of the sync pipeline.            *)
(*                                                                         *)
(*   pipelineLock  SyncService._pipeline_lock, a threading.Lock shared by  *)
(*                 the threads of one process                              *)
(*   held          SyncService._process_lock, the ProcessFileLock object   *)
(*                 of a process: the thread whose file handle is kept in   *)
(*                 _fh while _held is True                                 *)
(*   flock         the operating system's lock on the lock file: the       *)
(*                 thread whose file handle owns it                        *)
(*                                                                         *)
(* A thread is one call at a time into the service: a Runner makes a       *)
(* non-blocking attempt (run_sync_pipeline, preview, selected sync), a     *)
(* Watcher the blocking attempt of the folder watch worker, a Poller asks  *)
(* is_pipeline_running, and a Dashboard serves POST /api/sync: two busy    *)
(* checks, then begin_sync_pipeline_async. The background worker of an     *)
(* accepted request goes on under the name of the request that took the    *)
(* locks for it.                                                           *)
(***************************************************************************)
EXTENDS Naturals, FiniteSets

CONSTANTS Process,    \* the GUI, a scheduled --sync, ...
          Thread,     \* the calls into the service
          Home,       \* the process a thread belongs to
          Runner, Watcher, Dashboard, Poller,  \* the four kinds of thread
          None        \* no thread

ASSUME LockAssumption ==
  /\ Home \in [Thread -> Process]
  /\ Thread = Runner \cup Watcher \cup Dashboard \cup Poller
  /\ None \notin Thread

VARIABLES pipelineLock, held, flock, pc, checksLeft, answer, outcome

vars == <<pipelineLock, held, flock, pc, checksLeft, answer, outcome>>

\* Inside is_pipeline_running.
Checking == {"read_locked", "read_held", "read_held_again", "probe",
             "probe_unlock"}

\* Between taking _pipeline_lock and giving it back.
Inside == {"take_flock", "keep_handle", "body", "unlock", "drop_handle",
           "give_back"}

PC == {"idle", "dead", "take_pipeline"} \cup Checking \cup Inside

TypeOK ==
  /\ pipelineLock \in [Process -> Thread \cup {None}]
  /\ held \in [Process -> Thread \cup {None}]
  /\ flock \in Thread \cup {None}
  /\ pc \in [Thread -> PC]
  /\ checksLeft \in [Thread -> 0..2]
  /\ answer \in [Thread -> {"none", "busy", "free"}]
  /\ outcome \in [Thread -> {"none", "accepted", "busy_thread",
                             "busy_process", "timeout"}]

Init ==
  /\ pipelineLock = [p \in Process |-> None]
  /\ held = [p \in Process |-> None]
  /\ flock = None
  /\ pc = [t \in Thread |-> "idle"]
  /\ checksLeft = [t \in Thread |-> 0]
  /\ answer = [t \in Thread |-> "none"]
  /\ outcome = [t \in Thread |-> "none"]

Goto(t, from, to) ==
  /\ pc[t] = from
  /\ pc' = [pc EXCEPT ![t] = to]

-----------------------------------------------------------------------------
(* The attempt: _try_acquire_pipeline_locks, and the watch worker's own    *)
(* two blocking acquires.                                                  *)

StartRun(t) ==
  /\ t \in Runner \cup Watcher
  /\ Goto(t, "idle", "take_pipeline")
  /\ outcome' = [outcome EXCEPT ![t] = "none"]
  /\ UNCHANGED <<pipelineLock, held, flock, checksLeft, answer>>

TakePipeline(t) ==
  /\ pipelineLock[Home[t]] = None
  /\ Goto(t, "take_pipeline", "take_flock")
  /\ pipelineLock' = [pipelineLock EXCEPT ![Home[t]] = t]
  /\ UNCHANGED <<held, flock, checksLeft, answer, outcome>>

\* The thread lock is taken: a non-blocking caller is refused at once, the
\* watch worker after 30 seconds.
PipelineRefused(t) ==
  /\ pipelineLock[Home[t]] # None
  /\ Goto(t, "take_pipeline", "idle")
  /\ outcome' = [outcome EXCEPT
                   ![t] = IF t \in Watcher THEN "timeout" ELSE "busy_thread"]
  /\ UNCHANGED <<pipelineLock, held, flock, checksLeft, answer>>

\* Faulty: a lock call that does not exclude other file handles.
SharedFlock(t) ==
  /\ Goto(t, "take_flock", "keep_handle")
  /\ flock' = t
  /\ UNCHANGED <<pipelineLock, held, checksLeft, answer, outcome>>

\* acquire() answers True at once when the object holds already; otherwise
\* _try_acquire_once locks a file handle of its own.
TakeFlock(t) ==
  /\ IF held[Home[t]] # None
     THEN Goto(t, "take_flock", "body") /\ UNCHANGED flock
     ELSE flock = None /\ Goto(t, "take_flock", "keep_handle") /\ flock' = t
  /\ UNCHANGED <<pipelineLock, held, checksLeft, answer, outcome>>

KeepHandle(t) ==
  /\ Goto(t, "keep_handle", "body")
  /\ held' = [held EXCEPT ![Home[t]] = t]
  /\ outcome' = [outcome EXCEPT ![t] = "accepted"]
  /\ UNCHANGED <<pipelineLock, flock, checksLeft, answer>>

\* Faulty: the refusal returns without giving _pipeline_lock back.
ForgetPipelineLock(t) ==
  /\ held[Home[t]] = None
  /\ flock # None
  /\ Goto(t, "take_flock", "idle")
  /\ outcome' = [outcome EXCEPT
                   ![t] = IF t \in Watcher THEN "timeout" ELSE "busy_process"]
  /\ UNCHANGED <<pipelineLock, held, flock, checksLeft, answer>>

\* Faulty: only the watch worker gives up, the others try again and again.
KeepTrying(t) ==
  /\ t \in Watcher
  /\ held[Home[t]] = None
  /\ flock # None
  /\ Goto(t, "take_flock", "give_back")
  /\ outcome' = [outcome EXCEPT ![t] = "timeout"]
  /\ UNCHANGED <<pipelineLock, held, flock, checksLeft, answer>>

\* Another handle owns the file lock: refused, or timed out while retrying.
FlockRefused(t) ==
  /\ held[Home[t]] = None
  /\ flock # None
  /\ Goto(t, "take_flock", "give_back")
  /\ outcome' = [outcome EXCEPT
                   ![t] = IF t \in Watcher THEN "timeout" ELSE "busy_process"]
  /\ UNCHANGED <<pipelineLock, held, flock, checksLeft, answer>>

-----------------------------------------------------------------------------
(* The run and _release_pipeline_locks: file lock, handle, thread lock.    *)

\* The body returned or raised.
FinishBody(t) ==
  /\ Goto(t, "body", "unlock")
  /\ UNCHANGED <<pipelineLock, held, flock, checksLeft, answer, outcome>>

\* LOCK_UN on the kept handle, if release() finds one.
Unlock(t) ==
  /\ Goto(t, "unlock", "drop_handle")
  /\ flock' = IF held[Home[t]] = flock THEN None ELSE flock
  /\ UNCHANGED <<pipelineLock, held, checksLeft, answer, outcome>>

DropHandle(t) ==
  /\ Goto(t, "drop_handle", "give_back")
  /\ held' = [held EXCEPT ![Home[t]] = None]
  /\ UNCHANGED <<pipelineLock, flock, checksLeft, answer, outcome>>

GiveBack(t) ==
  /\ Goto(t, "give_back", "idle")
  /\ pipelineLock' = [pipelineLock EXCEPT ![Home[t]] = None]
  /\ UNCHANGED <<held, flock, checksLeft, answer, outcome>>

-----------------------------------------------------------------------------
(* is_pipeline_running and its probe, is_held_by_other.                    *)

StartCheck(t) ==
  /\ t \in Poller \cup Dashboard
  /\ Goto(t, "idle", "read_locked")
  /\ checksLeft' = [checksLeft EXCEPT ![t] = IF t \in Dashboard THEN 2 ELSE 1]
  /\ answer' = [answer EXCEPT ![t] = "none"]
  /\ outcome' = [outcome EXCEPT ![t] = "none"]
  /\ UNCHANGED <<pipelineLock, held, flock>>

\* What the caller does with the answer: a request is refused with 409 when
\* busy, and starts the run once both of its checks came back free.
Reply(t, says) ==
  /\ answer' = [answer EXCEPT ![t] = says]
  /\ checksLeft' = [checksLeft EXCEPT
                      ![t] = IF says = "busy" \/ @ = 0 THEN 0 ELSE @ - 1]
  /\ pc' = [pc EXCEPT
              ![t] = IF says = "busy" \/ t \notin Dashboard THEN "idle"
                     ELSE IF checksLeft[t] > 1 THEN "read_locked"
                     ELSE "take_pipeline"]

ReadLocked(t) ==
  /\ pc[t] = "read_locked"
  /\ \/ /\ pipelineLock[Home[t]] # None
        /\ Reply(t, "busy")
     \/ /\ pipelineLock[Home[t]] = None
        /\ pc' = [pc EXCEPT ![t] = "read_held"]
        /\ UNCHANGED <<checksLeft, answer>>
  /\ UNCHANGED <<pipelineLock, held, flock, outcome>>

ReadHeld(t) ==
  /\ pc[t] = "read_held"
  /\ \/ /\ held[Home[t]] # None
        /\ Reply(t, "busy")
     \/ /\ held[Home[t]] = None
        /\ pc' = [pc EXCEPT ![t] = "read_held_again"]
        /\ UNCHANGED <<checksLeft, answer>>
  /\ UNCHANGED <<pipelineLock, held, flock, outcome>>

\* is_held_by_other answers False when this process turns out to hold it.
ReadHeldAgain(t) ==
  /\ pc[t] = "read_held_again"
  /\ \/ /\ held[Home[t]] # None
        /\ Reply(t, "free")
     \/ /\ held[Home[t]] = None
        /\ pc' = [pc EXCEPT ![t] = "probe"]
        /\ UNCHANGED <<checksLeft, answer>>
  /\ UNCHANGED <<pipelineLock, held, flock, outcome>>

\* Faulty: a probe that fails is taken for a free lock.
BlindProbe(t) ==
  /\ pc[t] = "probe"
  /\ \/ /\ flock # None
        /\ Reply(t, "free")
        /\ UNCHANGED flock
     \/ /\ flock = None
        /\ flock' = t
        /\ pc' = [pc EXCEPT ![t] = "probe_unlock"]
        /\ UNCHANGED <<checksLeft, answer>>
  /\ UNCHANGED <<pipelineLock, held, outcome>>

\* The probe takes the real file lock, if only for a moment.
Probe(t) ==
  /\ pc[t] = "probe"
  /\ \/ /\ flock # None
        /\ Reply(t, "busy")
        /\ UNCHANGED flock
     \/ /\ flock = None
        /\ flock' = t
        /\ pc' = [pc EXCEPT ![t] = "probe_unlock"]
        /\ UNCHANGED <<checksLeft, answer>>
  /\ UNCHANGED <<pipelineLock, held, outcome>>

\* Faulty: the probe keeps the lock it took.
ProbeKeepsLock(t) ==
  /\ pc[t] = "probe_unlock"
  /\ Reply(t, "free")
  /\ UNCHANGED <<flock, pipelineLock, held, outcome>>

ProbeUnlock(t) ==
  /\ pc[t] = "probe_unlock"
  /\ flock' = None
  /\ Reply(t, "free")
  /\ UNCHANGED <<pipelineLock, held, outcome>>

-----------------------------------------------------------------------------
(* A process may die at any point; the system closes its handles.          *)

Crash(p) ==
  /\ \E t \in Thread : Home[t] = p /\ pc[t] # "dead"
  /\ pc' = [t \in Thread |-> IF Home[t] = p THEN "dead" ELSE pc[t]]
  /\ pipelineLock' = [pipelineLock EXCEPT ![p] = None]
  /\ held' = [held EXCEPT ![p] = None]
  /\ flock' = IF flock # None /\ Home[flock] = p THEN None ELSE flock
  /\ checksLeft' = [t \in Thread |-> IF Home[t] = p THEN 0 ELSE checksLeft[t]]
  /\ answer' = [t \in Thread |-> IF Home[t] = p THEN "none" ELSE answer[t]]
  /\ outcome' = [t \in Thread |-> IF Home[t] = p THEN "none" ELSE outcome[t]]

Restart(p) ==
  /\ \A t \in Thread : Home[t] = p => pc[t] = "dead"
  /\ pc' = [t \in Thread |-> IF Home[t] = p THEN "idle" ELSE pc[t]]
  /\ UNCHANGED <<pipelineLock, held, flock, checksLeft, answer, outcome>>

-----------------------------------------------------------------------------
AttemptStep(t) ==
  \/ TakePipeline(t) \/ PipelineRefused(t)
  \/ TakeFlock(t) \/ FlockRefused(t)
  \/ KeepHandle(t)
  \/ FinishBody(t) \/ Unlock(t) \/ DropHandle(t) \/ GiveBack(t)

CheckStep(t) ==
  \/ ReadLocked(t) \/ ReadHeld(t) \/ ReadHeldAgain(t)
  \/ Probe(t) \/ ProbeUnlock(t)

Next ==
  \/ \E t \in Thread : StartRun(t) \/ StartCheck(t)
  \/ \E t \in Thread : AttemptStep(t) \/ CheckStep(t)
  \/ \E p \in Process : Crash(p) \/ Restart(p)

\* A call in progress goes on: threads are scheduled, requests to a device and
\* to a web site have a timeout, and so have the watch worker's acquires.
Fairness == \A t \in Thread : WF_vars(AttemptStep(t) \/ CheckStep(t))

Spec == Init /\ [][Next]_vars /\ Fairness

-----------------------------------------------------------------------------
(* Properties.                                                             *)

\* At most one thread of all processes is inside the pipeline body, whatever
\* the interleaving of attempts, probes, releases and crashes: sync runs,
\* previews, selected syncs and watch uploads never overlap.
OneRunAtATime ==
  \A t, u \in Thread : pc[t] = "body" /\ pc[u] = "body" => t = u

\* The shortcut of acquire() that answers True on an object already held is
\* never taken by a thread that just won _pipeline_lock: release drops the
\* handle before it gives the thread lock back.
NeverReentrant ==
  \A t \in Thread : pc[t] = "take_flock" => held[Home[t]] = None

\* The inductive invariant: who owns which of the locks, and where its thread
\* is in the code then.
LockOwners ==
  /\ \A t \in Thread :
       /\ pc[t] \in Inside => pipelineLock[Home[t]] = t
       /\ pc[t] \in {"body", "unlock", "drop_handle"} => held[Home[t]] = t
       /\ pc[t] \in {"keep_handle", "body", "unlock", "probe_unlock"} => flock = t
  /\ \A p \in Process :
       held[p] # None =>
         /\ Home[held[p]] = p
         /\ pc[held[p]] \in {"body", "unlock", "drop_handle"}
  /\ flock # None =>
       pc[flock] \in {"keep_handle", "body", "unlock", "probe_unlock"}

\* Every attempt and every check comes to an end: nobody waits for ever on
\* either lock, in whichever order threads and processes take them.
EveryCallReturns ==
  \A t \in Thread : pc[t] # "idle" ~> pc[t] \in {"idle", "dead"}

\* No lock is lost: an owned thread lock is free again later, whether its
\* owner finishes, is refused the file lock, or dies with its process.
PipelineLockReturned ==
  \A p \in Process : pipelineLock[p] # None ~> pipelineLock[p] = None

\* The abstract mutual exclusion that the locks implement.
CurrentRun ==
  IF \E t \in Thread : pc[t] = "body"
  THEN CHOOSE t \in Thread : pc[t] = "body"
  ELSE None

Serial == INSTANCE SerialRuns WITH running <- CurrentRun

\* Runs happen one after the other, and each of them ends.
ImplementsSerialRuns == Serial!Spec
=============================================================================
