--------------------------- MODULE MCSyncPipeline ---------------------------
(* Sync runs beside everything else that happens on the computer.          *)
EXTENDS SyncPipeline, SyncCast
=============================================================================
