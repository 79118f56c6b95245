---------------------------- MODULE MCConfigStore ----------------------------
(* The window with a background thread that pulls and pushes the shared   *)
(* data folder, and a scheduled run in a process of its own.               *)
EXTENDS ConfigStore

CONSTANTS gui, cli, worker, cron, u1, u2, u3

MCHome == [t \in Thread |-> IF t = cron THEN cli ELSE gui]
MCSites == <<u1, u2>>
=============================================================================
