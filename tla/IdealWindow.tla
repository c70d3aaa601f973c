---------------------------- MODULE IdealWindow ----------------------------
(***************************************************************************)
(* What a replay window promises, stated over the complete history of the  *)
(* sequence numbers it has accepted.  A number is accepted exactly when it *)
(* is in range, was never accepted before and is not Window or more behind *)
(* a number already accepted.  The window of the code keeps only its high- *)
(* est number and a pruned set; ReplayWindow shows that it answers as this *)
(* specification does.                                                     *)
(***************************************************************************)
EXTENDS Integers

CONSTANTS Window, MaxSequence, Input

VARIABLES accepted,   \* every sequence number accepted so far
          reply       \* the answer to the last call

Acceptable(s) ==
  /\ s \in 0..MaxSequence
  /\ s \notin accepted
  /\ \A a \in accepted : s > a - Window

Init == accepted = {} /\ reply = FALSE

Accept(s) ==
  /\ reply' = Acceptable(s)
  /\ accepted' = IF Acceptable(s) THEN accepted \cup {s} ELSE accepted

Probe(s) ==
  /\ reply' = Acceptable(s)
  /\ UNCHANGED accepted

Next == \E s \in Input : Accept(s) \/ Probe(s)

Spec == Init /\ [][Next]_<<accepted, reply>>
=============================================================================
