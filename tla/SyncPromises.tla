---------------------------- MODULE SyncPromises ----------------------------
(***************************************************************************)
(* What the sync tells its user, held against what it does over several    *)
(* runs. Observers, which no step of SyncPipeline reads, remember what the *)
(* user asked for, what a device has acknowledged and what a run has said  *)
(* that the next one will make good.                                       *)
(***************************************************************************)
EXTENDS SyncPipeline

VARIABLES asked,  \* a cancel was requested since the run took its locks
          acked,  \* what each device has confirmed to a run that lived to record it
          owed    \* <<u, d>>: a run said that d gets u with the next sync

promises == <<asked, acked, owed>>

PromisesInit ==
  /\ asked = FALSE
  /\ acked = [d \in Device |-> {}]
  /\ owed = {}

\* "the devices that failed are retried with the next sync" (per-site mode)
Said == IF site # None /\ ok # {} /\ ~AllOk
        THEN fresh \X {d \in tried : d \notin ok} ELSE {}

Observe ==
  /\ asked' = (pc # "idle" /\ (asked \/ (cancel' /\ ~cancel)))
  /\ acked' = [d \in Device |->
                 IF pc = "mark" /\ pc' = "site" /\ Marks \subseteq history' /\ d \in ok
                 THEN acked[d] \cup fresh ELSE acked[d]]
  /\ owed' = IF pc = "mark" /\ pc' = "site"
             THEN owed \cup Said ELSE owed

PromisesNext == Next /\ Observe

PromisesSpec == Init /\ PromisesInit /\ [][PromisesNext]_<<vars, promises>>

FairPromisesSpec == PromisesSpec /\ Fairness

\* A run ends as cancelled only when somebody asked this run to stop, not the
\* one before it: cancel requests outlive the run they were meant for.
StaleCancelHarmless == result.status = "cancelled" => asked

\* Only a device that still misses an article of the batch is sent the batch,
\* whatever happened in the runs before.
OnlyMissingDevices ==
  [][pc = "upload" /\ pc' = "mark" =>
       \A d \in tried' : ~(fresh \subseteq acked[d])]_<<vars, promises>>

\* What the log promised a device is still due to it: the next sync selects the
\* article and sends it to the device, as long as the device is configured.
RetryPromiseKept ==
  \A p \in owed :
    p[2] \in devices /\ p[1] \notin received[p[2]] =>
      NeedsSync(p[1], devices) /\ ~SyncedFor(p[1], p[2])
=============================================================================
