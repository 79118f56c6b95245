---------------------------- MODULE DeliveryLog -----------------------------
(***************************************************************************)
(* What the history promises about the devices, for every kind of run: it  *)
(* is a log written behind the deliveries. An article arrives first and is *)
(* noted later or never, what somebody else has delivered comes with its   *)
(* note, nothing that has arrived goes, and a note goes only by deletion.  *)
(***************************************************************************)
CONSTANTS Article, Device,
          MayForget  \* whether notes can be deleted

VARIABLES arrived,  \* pairs of an article and a device that has it
          noted     \* those the program knows of

Pairs == Article \X Device

Init == arrived \subseteq Pairs /\ noted = {}

Arrive(ps) == arrived' = arrived \cup ps /\ UNCHANGED noted

Note(ps) ==
  /\ ps \subseteq arrived
  /\ noted' = noted \cup ps
  /\ UNCHANGED arrived

Learn(ps) == arrived' = arrived \cup ps /\ noted' = noted \cup ps

Forget(ps) ==
  /\ MayForget
  /\ noted' = noted \ ps
  /\ UNCHANGED arrived

Next == \E ps \in SUBSET Pairs : Arrive(ps) \/ Note(ps) \/ Learn(ps) \/ Forget(ps)

Spec == Init /\ [][Next]_<<arrived, noted>>
=============================================================================
