-------------------------- MODULE MCBackupPromises --------------------------
(* One computer alone with its shared folder.                              *)
EXTENDS BackupPromises

CONSTANTS desktop, window, x, r

MCHome == [p \in Process |-> desktop]
MCRow == {<<r, r>>}

Alone == [c \in Computer |-> desktop]
MCLayouts == {Alone}
MCEdits == [layout \in MCLayouts |-> 2]
=============================================================================
