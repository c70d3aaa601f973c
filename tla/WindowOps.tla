----------------------------- MODULE WindowOps -----------------------------
(***************************************************************************)
(* The replay window of src/src/pqc_a2a/secure_channel.py as a value: the  *)
(* record of its two mutable fields and the operators that read and update *)
(* it.  SecureSession keeps one per session object, ReplayWindow studies   *)
(* it alone.                                                               *)
(***************************************************************************)
EXTENDS Integers

CONSTANTS Window,       \* the window parameter (128 by default)
          MaxSequence   \* MAX_SEQUENCE, 2^64 - 1 in the code

ASSUME WindowAssumption == Window \in Nat \ {0}
ASSUME MaxSequenceAssumption == MaxSequence \in Nat

EmptyWindow == [highest |-> -1, seen |-> {}]

WindowType == [highest : Int, seen : SUBSET Int]

\* can_accept: the test decrypt makes before it authenticates a record.
CanAccept(w, s) ==
  /\ s \in 0..MaxSequence
  /\ s > w.highest - Window
  /\ s \notin w.seen

\* accept returns False on these sequence numbers and leaves the window alone.
Refuses(w, s) ==
  \/ s \notin 0..MaxSequence
  \/ s <= w.highest - Window
  \/ s \in w.seen

\* Mutated forms of Advance: the prune drops one number too many; highest
\* follows the last accepted number even when that is an older one.
AdvancePrunesEdge(w, s) ==
  LET top == IF s > w.highest THEN s ELSE w.highest
  IN  [highest |-> top, seen |-> {x \in w.seen \cup {s} : x > top - Window + 1}]

AdvanceMovesBack(w, s) ==
  [highest |-> s, seen |-> {x \in w.seen \cup {s} : x > s - Window}]

\* The window after accept returned True: the number joins the set, the
\* highest moves up, and what fell out of the window is forgotten.
Advance(w, s) ==
  LET top == IF s > w.highest THEN s ELSE w.highest
  IN  [highest |-> top, seen |-> {x \in w.seen \cup {s} : x > top - Window}]
=============================================================================
