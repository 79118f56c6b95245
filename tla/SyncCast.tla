------------------------------ MODULE SyncCast ------------------------------
(* The small world of the sync runs: two sites that share an article and   *)
(* two devices, the first of them the one behind x3_ip.                    *)
EXTENDS TLC

CONSTANTS s1, s2, u1, u2, a, b, ka, kb, star

TwoSites == (s1 :> {u1, u2}) @@ (s2 :> {u2})
OneSite == s1 :> {u1, u2}
OneName == s1 :> s1
OwnNames == (s1 :> s1) @@ (s2 :> s2)
Keys == (a :> ka) @@ (b :> kb)
Aliases == (a :> {ka}) @@ (b :> {kb})
=============================================================================
