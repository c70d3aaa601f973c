----------------------------- MODULE AtomicFile -----------------------------
(***************************************************************************)
(* What callers may expect of a file that holds state: a register that is  *)
(* written and read at once.  A write that returned survives a loss of     *)
(* power; one that raised, or whose process died, took effect or did not.  *)
(* A removal takes effect at once and is not promised to survive.          *)
(***************************************************************************)
EXTENDS Naturals

CONSTANTS Call, Value, None

VARIABLES value,   \* what the file holds, None when there is none
          kept,    \* what it may hold after a loss of power
          doing,   \* the call under way: what it writes, and how far it is
          seen     \* what the last read returned

vars == <<value, kept, doing, seen>>

Nothing == [writes |-> {}, phase |-> "idle"]

Init ==
  /\ value \in Value \cup {None}
  /\ kept = {value}
  /\ doing = [c \in Call |-> Nothing]
  /\ seen = None

Begin(c, v) ==
  /\ doing[c] = Nothing
  /\ doing' = [doing EXCEPT ![c] = [writes |-> {v}, phase |-> "begun"]]
  /\ UNCHANGED <<value, kept, seen>>

TakeEffect(c) ==
  /\ doing[c].phase = "begun"
  /\ \E v \in doing[c].writes : value' = v /\ kept' = kept \cup {v}
  /\ doing' = [doing EXCEPT ![c].phase = "done"]
  /\ UNCHANGED seen

\* The call makes what it wrote last.
Settle(c) ==
  /\ doing[c].phase = "done"
  /\ kept' = {value}
  /\ doing' = [doing EXCEPT ![c].phase = "settled"]
  /\ UNCHANGED <<value, seen>>

Return(c) ==
  /\ doing[c].phase = "settled"
  /\ doing' = [doing EXCEPT ![c] = Nothing]
  /\ UNCHANGED <<value, kept, seen>>

\* Calls that raise, or whose processes die.
GiveUp(S) ==
  /\ doing' = [c \in Call |-> IF c \in S THEN Nothing ELSE doing[c]]
  /\ UNCHANGED <<value, kept, seen>>

Get ==
  /\ seen' = value
  /\ UNCHANGED <<value, kept, doing>>

Remove ==
  /\ value' = None
  /\ kept' = kept \cup {None}
  /\ UNCHANGED <<doing, seen>>

LosePower ==
  /\ value' \in kept
  /\ kept' = {value'}
  /\ doing' = [c \in Call |-> Nothing]
  /\ UNCHANGED seen

Next ==
  \/ \E c \in Call :
       \/ \E v \in Value : Begin(c, v)
       \/ TakeEffect(c) \/ Settle(c) \/ Return(c)
  \/ \E S \in SUBSET Call : GiveUp(S)
  \/ Get \/ Remove \/ LosePower

Spec == Init /\ [][Next]_vars
=============================================================================
