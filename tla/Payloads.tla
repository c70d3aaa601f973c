------------------------------ MODULE Payloads ------------------------------
(***************************************************************************)
(* The byte strings callers hand to fragment and to TcpFallback.send.  A   *)
(* byte is told apart by the payload it is of and its place in it.         *)
(***************************************************************************)
EXTENDS Naturals, Sequences

CONSTANTS Message,
          Length         \* [Message -> bytes of its payload]

ASSUME PayloadAssumption == Length \in [Message -> Nat]

\* The bytes of m's payload after the first from, up to the to-th.
Bytes(m, from, to) == [k \in 1..(to - from) |-> <<m, from + k>>]

Payload(m) == Bytes(m, 0, Length[m])
=============================================================================
