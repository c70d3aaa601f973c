---------------------------- MODULE Fragmentation ----------------------------
(***************************************************************************)
(* Cutting a payload into self-describing frames and putting it together   *)
(* again (transport.py: fragment 182-207, reassemble 210-251).             *)
(*                                                                         *)
(* A frame's header names index and total in decimal, so its length grows  *)
(* with both, and the total depends on it: fragment looks for a total that *)
(* fits itself.  Radix is 10 in the code; with a smaller one the growth    *)
(* shows on small payloads.  Base is the rest of the header, the message   *)
(* id included.  All messages have the same id, the default "": only the   *)
(* digests tell their frames apart.  A digest is the payload it is of.     *)
(***************************************************************************)
EXTENDS Payloads, Integers, FiniteSets, SequencesExt

CONSTANTS Radix, Base,
          Mtus,            \* mtu values callers use
          MaxFragments,    \* max_fragments, of both functions
          MaxTotalBytes,   \* max_total_bytes
          None

ASSUME FragmentAssumption ==
  /\ Radix \in Nat \ {0, 1} /\ Base \in Nat
  /\ Mtus \subseteq Nat \ {0}
  /\ MaxFragments \in Nat \ {0} /\ MaxTotalBytes \in Nat \ {0}

\* A frame is a record; None, a thing that is no frame, is not one.
Frame == [digest : Message, i : Nat, n : Nat, body : Seq(Message \X Nat)]

ASSUME NoneAssumption == None \notin Frame

VARIABLE call      \* the fragment call of each message

Digits[k \in Nat] == IF k < Radix THEN 1 ELSE 1 + Digits[k \div Radix]

HeaderLen(i, n) == Base + Digits[i] + Digits[n]

\* Mutated form of Overhead: the first header stands for all of them.
OverheadOfFirst(n) == HeaderLen(0, n)

\* The longest header among those of a total of n.
Overhead(n) == Max({HeaderLen(i, n) : i \in 0..(n - 1)})

\* max(1, math.ceil(length / max(1, mtu - overhead)))
Pieces(length, mtu, overhead) ==
  LET chunk == Max({1, mtu - overhead})
  IN  Max({1, (length + chunk - 1) \div chunk})

\* A call of fragment at its start.
Started(m, mtu) ==
  [phase |-> "count", mtu |-> mtu, offset |-> 0, frames |-> <<>>,
   total |-> Pieces(Length[m], mtu, HeaderLen(0, 1))]

\* Mutated form of Count: the loop goes on while the total does not fall.
CountWhileNoLess(m) ==
  LET c == call[m]
      new == Pieces(Length[m], c.mtu, Overhead(c.total))
  IN  /\ c.phase = "count"
      /\ call' = [call EXCEPT ![m] =
           IF new >= c.total THEN [c EXCEPT !.total = new]
           ELSE IF c.total > MaxFragments THEN [c EXCEPT !.phase = "raised"]
           ELSE [c EXCEPT !.phase = "cut"]]

\* One turn of the loop that looks for the total.
Count(m) ==
  LET c == call[m]
      new == Pieces(Length[m], c.mtu, Overhead(c.total))
  IN  /\ c.phase = "count"
      /\ call' = [call EXCEPT ![m] =
           IF new # c.total THEN [c EXCEPT !.total = new]
           ELSE IF c.total > MaxFragments THEN [c EXCEPT !.phase = "raised"]
           ELSE [c EXCEPT !.phase = "cut"]]

\* One frame: as much of the payload as its header leaves room for.  A header
\* longer than the mtu raises, one just as long leaves the frame empty.
Cut(m) ==
  LET c == call[m]
      i == Len(c.frames)
      room == c.mtu - HeaderLen(i, c.total)
      to == Min({c.offset + room, Length[m]})
  IN  /\ c.phase = "cut"
      /\ i < c.total
      /\ IF room < 0
           THEN call' = [call EXCEPT ![m].phase = "raised", ![m].frames = <<>>]
           ELSE call' = [call EXCEPT ![m].offset = to,
                  ![m].frames = Append(@, [digest |-> m, i |-> i, n |-> c.total,
                                           body |-> Bytes(m, c.offset, to)])]

Finish(m) ==
  /\ call[m].phase = "cut"
  /\ Len(call[m].frames) = call[m].total
  /\ call' = [call EXCEPT ![m].phase = "done"]

Fragment(m) == Count(m) \/ Cut(m) \/ Finish(m)

Frames(m) == IF call[m].phase = "done" THEN call[m].frames ELSE <<>>

Size(f) == HeaderLen(f.i, f.n) + Len(f.body)

\* The headers of every frame of the call leave room for a byte.
Roomy(m) == Overhead(call[m].total) < call[m].mtu

-----------------------------------------------------------------------------
TotalSize(got) == FoldLeft(LAMBDA sum, f : sum + Size(f), 0, got)

\* The frames agree, and they are all there.
WholeSet(got) ==
  /\ Cardinality({f.n : f \in ToSet(got)}) = 1
  /\ Cardinality({f.digest : f \in ToSet(got)}) = 1
  /\ got[1].n = Len(got)
  /\ {f.i : f \in ToSet(got)} = 0..(Len(got) - 1)

\* Mutated form of Joined: the bodies are joined in the order they came in.
JoinedAsCome(got) == FlattenSeq([k \in 1..Len(got) |-> got[k].body])

\* The bodies in the order of their indices.
Joined(got) ==
  FlattenSeq([k \in 1..Len(got) |->
                (CHOOSE f \in ToSet(got) : f.i = k - 1).body])

DigestMatches(got) == Joined(got) = Payload(got[1].digest)

\* Whether reassemble returns a payload for the frames in got, or raises.  A
\* thing that is no frame raises whatever comes with it.
Reassembles(got) ==
  /\ got # <<>>
  /\ None \notin ToSet(got)
  /\ TotalSize(got) <= MaxTotalBytes
  /\ Len(got) <= MaxFragments
  /\ \A f \in ToSet(got) : f.n <= MaxFragments /\ f.i < f.n
  /\ WholeSet(got)
  /\ DigestMatches(got)
=============================================================================
