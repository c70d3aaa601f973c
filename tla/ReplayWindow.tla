---------------------------- MODULE ReplayWindow ----------------------------
(***************************************************************************)
(* One ReplayWindow object (src/src/pqc_a2a/secure_channel.py:70-88) under *)
(* any sequence of accept and can_accept calls with any arguments, those   *)
(* out of range included.  accepted is a history variable: the object      *)
(* itself forgets what leaves the window.                                  *)
(***************************************************************************)
EXTENDS WindowOps

CONSTANT Input          \* the sequence numbers callers pass

ASSUME InputAssumption == Input \subseteq Int

VARIABLES window,       \* [highest, seen]
          accepted,     \* history: numbers accept returned True for
          reply         \* the answer of the last call

windowVars == <<window, accepted, reply>>

WindowInit ==
  /\ window = EmptyWindow
  /\ accepted = {}
  /\ reply = FALSE

Accept(s) ==
  \/ /\ Refuses(window, s)
     /\ reply' = FALSE
     /\ UNCHANGED <<window, accepted>>
  \/ /\ ~ Refuses(window, s)
     /\ reply' = TRUE
     /\ window' = Advance(window, s)
     /\ accepted' = accepted \cup {s}

Probe(s) ==
  /\ reply' = CanAccept(window, s)
  /\ UNCHANGED <<window, accepted>>

WindowNext == \E s \in Input : Accept(s) \/ Probe(s)

WindowSpec == WindowInit /\ [][WindowNext]_windowVars

-----------------------------------------------------------------------------
WindowTypeOK ==
  /\ window \in WindowType
  /\ accepted \subseteq 0..MaxSequence
  /\ reply \in BOOLEAN

\* The pruned set is exactly the part of the whole history that is still
\* inside the window, and highest is its newest member: forgetting loses
\* nothing that a later decision needs.
WindowSummarisesHistory ==
  /\ window.seen = {a \in accepted : a > window.highest - Window}
  /\ \A a \in accepted : a <= window.highest
  /\ window.highest \in accepted \/ (accepted = {} /\ window.highest = -1)

\* The object answers every accept and can_accept as a window that remembers
\* every number it ever accepted would.
Ideal == INSTANCE IdealWindow
ImplementsIdeal == Ideal!Spec

=============================================================================
