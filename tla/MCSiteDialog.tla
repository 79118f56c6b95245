---------------------------- MODULE MCSiteDialog ----------------------------
(***************************************************************************)
(* A page whose posts are collected, skipped or taken by a fallback, one   *)
(* of a platform, and one that links to the latter as its feed.            *)
(***************************************************************************)
EXTENDS SiteDialog, TLC

CONSTANTS p, q, f

P(text, link, list, detail) ==
    [text |-> text, link |-> link, list |-> list, detail |-> detail]

Full == << P(FALSE, f, "match", "match"), P(TRUE, None, "whole", "none"),
           P(TRUE, q, "empty", "match"), P(TRUE, p, "match", "other"),
           P(TRUE, f, "match", "match") >>

Short == << Full[3], P(TRUE, f, "match", "none"), Full[4] >>

MCPageOf == (p :> Full) @@ (q :> Short) @@ (f :> <<>>)
MCFeedOf == (p :> None) @@ (q :> None) @@ (f :> q)
=============================================================================
