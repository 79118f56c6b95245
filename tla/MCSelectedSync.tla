--------------------------- MODULE MCSelectedSync ---------------------------
(***************************************************************************)
(* Two articles of two sites, and a device list of none, one or both of    *)
(* two devices; three events happen beside the window's thread.            *)
(***************************************************************************)
EXTENDS SelectedSync, TLC

CONSTANTS a1, a2, d1, d2

MCArticle == {a1, a2}
MCDevice == {d1, d2}
MCConfigs == SUBSET MCDevice
MCSiteOf == [a \in MCArticle |-> a]
MCSymmetry == Permutations(MCArticle) \cup Permutations(MCDevice)
=============================================================================
