----------------------------- MODULE FolderRows -----------------------------
(***************************************************************************)
(* BackupFolder as an implementation of SharedRows. The observer remembers *)
(* every row that got into a database while no call took a step, which is  *)
(* how a run records it; no step of BackupFolder reads it.                 *)
(***************************************************************************)
EXTENDS BackupFolder

VARIABLE recorded  \* the rows any computer has recorded so far

Remember ==
  recorded' = IF UNCHANGED service THEN recorded \cup UNION {rows'[c] : c \in Computer}
                                   ELSE recorded

RowsSpec ==
  /\ Init /\ recorded = {}
  /\ [][Next /\ Remember]_<<vars, recorded>>

\* The databases are what the computers know and synced_posts.json is what they
\* share. It loses rows where it cannot be read, where taking it over fails, or
\* where the cloud client replaces it under a push.
Rows == INSTANCE SharedRows WITH known <- rows, shared <- fileRows,
          MayLose <- Disturbances \cap {"blind", "fail", "swap"} # {}

ImplementsSharedRows == Rows!Spec
=============================================================================
