--------------------------- MODULE BackupPromises ---------------------------
(***************************************************************************)
(* What the program tells its user about the shared folder, held against   *)
(* BackupFolder. The observer remembers who wrote sites.json; no step of   *)
(* BackupFolder reads it.                                                  *)
(***************************************************************************)
EXTENDS BackupFolder

VARIABLE author  \* the computer whose export sites.json is, where there is one copy of it

Observe ==
  author' = LET writers == {p \in Process : pc[p] = "push_sites"
                                                 /\ pc'[p] = "push_rows"}
               IN  IF writers = {} THEN author
                   ELSE Home[CHOOSE p \in writers : TRUE]

PromisesSpec ==
  /\ Init /\ author = None
  /\ [][Next /\ Observe]_<<vars, author>>

\* A site edited on a computer is not taken back by that computer's own export:
\* "LWW" (backup/service.py:330) is about the exports of others.
OwnExportNeverWins ==
  [][\A p \in Process : pc[p] = "pull_sites" /\ author = Home[p] =>
       \A s \in Site : sites[Home[p]][s] # 0 =>
         sites'[Home[p]][s] = sites[Home[p]][s] \/ pc'[p] = pc[p]]_vars
=============================================================================
