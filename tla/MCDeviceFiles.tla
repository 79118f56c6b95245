---------------------------- MODULE MCDeviceFiles ----------------------------
(* Two readers with a file of the same name, one of them with a folder.    *)
EXTENDS DeviceFiles

CONSTANTS ra, rb, books, aged, fresh

MCConfigs == {<<ra, rb>>, <<rb, ra>>, <<>>}
MCFiles == [d \in Device |-> IF d = ra THEN {<<Root, aged>>} ELSE {<<Root, aged>>, <<Root, fresh>>}]
=============================================================================
