----------------------------- MODULE AtMostOnce -----------------------------
(***************************************************************************)
(* What every replay defence of the library promises: an item is taken at  *)
(* most once, whatever is repeated, delayed or retried around it.  taken   *)
(* counts, so that an implementation that takes an item twice has no       *)
(* behaviour here.                                                         *)
(***************************************************************************)
EXTENDS Naturals

CONSTANT Item

VARIABLE taken

Init == taken = [i \in Item |-> 0]

Take(i) ==
  /\ taken[i] = 0
  /\ taken' = [taken EXCEPT ![i] = 1]

Next == \E i \in Item : Take(i)

Spec == Init /\ [][Next]_taken
=============================================================================
