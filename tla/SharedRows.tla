----------------------------- MODULE SharedRows -----------------------------
(***************************************************************************)
(* What the shared folder promises about the history: sets of rows, one    *)
(* for each copy of the folder in use, that the computers working on the   *)
(* copy add to and take over from. Nothing gets into one that no computer  *)
(* has recorded, and nothing goes out of one unless it is exchanged for    *)
(* another, or a computer may write it without what it had in it.          *)
(***************************************************************************)
CONSTANTS Computer, Row, Copy, Layouts,
          MayLose   \* whether taking over from a shared set may fail

VARIABLES place,    \* the copy of a computer
          known,    \* the rows of each computer
          shared,   \* the rows of each copy
          recorded  \* the rows any computer has recorded so far

Init ==
  /\ place \in Layouts
  /\ known = [c \in Computer |-> {}]
  /\ shared = [k \in Copy |-> {}] /\ recorded = {}

Record(c, r) ==
  /\ known' = [known EXCEPT ![c] = @ \cup {r}]
  /\ recorded' = recorded \cup {r}
  /\ UNCHANGED <<place, shared>>

Forget(c, gone) ==
  /\ known' = [known EXCEPT ![c] = @ \ gone]
  /\ UNCHANGED <<place, shared, recorded>>

TakeOver(c) ==
  /\ known' = [known EXCEPT ![c] = @ \cup shared[place[c]]]
  /\ UNCHANGED <<place, shared, recorded>>

\* Some rows recorded at some time are added; who adds them may have deleted
\* them by now.
Publish(c, added) ==
  /\ shared' = [shared EXCEPT ![place[c]] = @ \cup added]
  /\ UNCHANGED <<place, known, recorded>>

Replace(c, by) ==
  /\ MayLose
  /\ shared' = [shared EXCEPT ![place[c]] = by]
  /\ UNCHANGED <<place, known, recorded>>

\* One copy takes the place of another.
Exchange(c, d) ==
  /\ place[c] # place[d]
  /\ shared' = [shared EXCEPT ![place[d]] = shared[place[c]]]
  /\ UNCHANGED <<place, known, recorded>>

Next ==
  \/ \E c \in Computer :
       \/ TakeOver(c)
       \/ \E r \in Row : Record(c, r)
       \/ \E gone \in SUBSET Row : Forget(c, gone)
       \/ \E some \in SUBSET recorded : Publish(c, some) \/ Replace(c, some)
  \/ \E c, d \in Computer : Exchange(c, d)

Spec == Init /\ [][Next]_<<place, known, shared, recorded>>

\* What follows of the rows alone: nothing is known or shared that nobody has
\* recorded.
NothingInvented ==
  /\ \A c \in Computer : known[c] \subseteq recorded
  /\ \A k \in Copy : shared[k] \subseteq recorded
=============================================================================
