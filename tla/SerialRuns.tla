----------------------------- MODULE SerialRuns -----------------------------
(***************************************************************************)
(* What the pipeline locks promise to the code they protect: runs come one *)
(* at a time, from whichever thread or process, and every run ends.        *)
(***************************************************************************)
CONSTANTS Thread, None

VARIABLE running  \* the thread inside the pipeline, or None

Init == running = None

Begin(t) == running = None /\ running' = t

End(t) == running = t /\ running' = None

Next == \E t \in Thread : Begin(t) \/ End(t)

OneAtATime == Init /\ [][Next]_running

Spec == OneAtATime /\ WF_running(\E t \in Thread : End(t))
=============================================================================
