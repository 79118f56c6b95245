--------------------------- MODULE VersionedFile ---------------------------
(***************************************************************************)
(* What the revision in config.json promises: the file is always whole,    *)
(* and every save writes the revision after the one it replaces, so that   *)
(* one revision is never two contents and who compares revisions compares  *)
(* contents. Only a save that states no revision may do otherwise.         *)
(***************************************************************************)
EXTENDS Naturals

CONSTANTS First,       \* the content at the start
          MayBeBlind   \* whether there are saves without a revision

VARIABLE content

Init == content = First

Save == content'.whole /\ content'.rev = content.rev + 1

BlindSave == MayBeBlind /\ content'.whole

Next == Save \/ BlindSave

Spec == Init /\ [][Next]_content
=============================================================================
