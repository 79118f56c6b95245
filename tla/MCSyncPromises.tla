--------------------------- MODULE MCSyncPromises ---------------------------
(* Sync runs and what they told the user.                                  *)
EXTENDS SyncPromises, SyncCast
=============================================================================
