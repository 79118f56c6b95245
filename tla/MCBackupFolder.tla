--------------------------- MODULE MCBackupFolder ---------------------------
(* A desktop computer with the program's window and a laptop, with the     *)
(* folder on a drive of the network or in the cloud. Sites are edited in   *)
(* the first case only.                                                    *)
EXTENDS BackupFolder

CONSTANTS desktop, laptop, window, travel, x, r

MCHome == [p \in Process |-> IF p = travel THEN laptop ELSE desktop]
MCRow == {<<r, r>>}

Drive == [c \in Computer |-> desktop]
Cloud == [c \in Computer |-> c]
MCLayouts == {Drive, Cloud}
MCEdits == [layout \in MCLayouts |-> IF layout = Drive THEN 1 ELSE 0]
=============================================================================
