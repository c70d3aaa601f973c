----------------------------- MODULE Transport -----------------------------
(***************************************************************************)
(* The two ways transport.py gives a payload from one agent to another:    *)
(* cut into frames that travel as datagrams, or length-prefixed over the   *)
(* TLS connection used where QUIC is not available.                        *)
(*                                                                         *)
(* Datagrams are lost, repeated and reordered, and up to MaxAltered of     *)
(* those that arrive are not what was sent.  The receiver puts what has    *)
(* arrived into got and may call reassemble on it at any time.             *)
(***************************************************************************)
EXTENDS Fragmentation, TcpFallback

CONSTANTS MaxGot,        \* bound: datagrams in the receiver's buffer
          MaxAltered     \* bound: of them, how many are altered

ASSUME TransportAssumption == MaxGot \in Nat /\ MaxAltered \in Nat

VARIABLES path,     \* which of the two ways is taken
          got,      \* what reassemble would be given
          altered   \* how many of the datagrams in got are altered

vars == <<path, call, got, altered, tcpVars>>

Init ==
  /\ TcpInit
  /\ got = <<>> /\ altered = 0
  /\ \/ path = "stream" /\ call = [m \in {} |-> None]
     \/ /\ path = "datagrams"
        /\ \E mtu \in Mtus : call = [m \in Message |-> Started(m, mtu)]

Ended == \A m \in DOMAIN call : call[m].phase \in {"done", "raised"}

Cutting ==
  /\ path = "datagrams"
  /\ \E m \in Message : Fragment(m)
  /\ UNCHANGED <<path, got, altered, tcpVars>>

AllFrames == UNION {ToSet(Frames(m)) : m \in DOMAIN call}

\* A datagram arrives, as it was sent or with a field that is not its own.
Variants(f) ==
  {None} \cup {[f EXCEPT !.body = g.body] : g \in AllFrames}
         \cup {[f EXCEPT !.i = g.i] : g \in AllFrames}
         \cup {[f EXCEPT !.n = g.n] : g \in AllFrames}
         \cup {[f EXCEPT !.digest = g.digest] : g \in AllFrames}

Arrives(f) ==
  /\ path = "datagrams" /\ Ended /\ Len(got) < MaxGot
  /\ \/ got' = Append(got, f) /\ UNCHANGED altered
     \/ /\ altered < MaxAltered
        /\ altered' = altered + 1
        /\ \E g \in Variants(f) : got' = Append(got, g)
  /\ UNCHANGED <<path, call, tcpVars>>

\* A step of the connection.
Streaming(step) ==
  /\ path = "stream"
  /\ step
  /\ UNCHANGED <<path, call, got, altered>>

Next == Cutting \/ Streaming(TcpNext) \/ \E f \in AllFrames : Arrives(f)

Spec == Init /\ [][Next]_vars

\* A call of fragment that has begun goes on, and so does a receiver that
\* calls recv in a loop; the network does not hold bytes back for ever from a
\* reader who waits for them again and again.
FairSpec ==
  /\ Spec
  /\ WF_vars(Cutting)
  /\ WF_vars(Streaming(Recv))
  /\ WF_vars(Streaming(HeaderRead)) /\ WF_vars(Streaming(BodyRead))
  /\ SF_vars(Streaming(Read))

-----------------------------------------------------------------------------
\* A call of fragment that returns has cut every byte of the payload into its
\* frames, whatever the growth of the headers did to their number, and no
\* frame, returned or not, is longer than the mtu.  (Where a header is just as
\* long as the mtu the code returns frames without the payload: see Roomy.)
FramesCarryPayload ==
  \A m \in DOMAIN call :
    /\ \A f \in ToSet(call[m].frames) : Size(f) <= call[m].mtu
    /\ call[m].phase = "done" /\ Roomy(m) => call[m].offset = Length[m]

\* The frames of m hold all of its payload.
Whole(m) == call[m].phase = "done" /\ call[m].offset = Length[m]

\* got is the frames of m, each of them once, in any order.
ArrangementOf(m) ==
  /\ Len(got) = Len(Frames(m))
  /\ ToSet(got) = ToSet(Frames(m))

\* reassemble accepts the frames of a payload in any order; what it returns is
\* a payload that was sent whole, whatever was altered; and if at most one of
\* the datagrams was altered, it has accepted nothing but the frames of that
\* payload: none missing, repeated, altered or of another one.  (With two, an
\* empty frame and its neighbour may have changed places.)
ReassemblyIsExact ==
  path = "datagrams" =>
    /\ \A m \in Message :
         Whole(m) /\ ArrangementOf(m) /\ TotalSize(got) <= MaxTotalBytes
           => Reassembles(got)
    /\ Reassembles(got) =>
         /\ Whole(got[1].digest)
         /\ altered <= 1 => ArrangementOf(got[1].digest)

\* As long as no call stopped inside a frame, recv returns the payloads that
\* were sent, in order, whatever the chunks their bytes came in and however
\* often it timed out between two of them.
StreamInStep ==
  ~ slipped =>
    IsPrefix(received, [k \in 1..Len(sent) |-> Payload(sent[k])])

\* The search for the number of frames only goes up, and not past the number of
\* bytes: more frames have longer headers, which leave less room and never more.
\* So it takes no more turns than there are bytes.
SearchClimbs ==
  [][\A m \in DOMAIN call :
       call[m].phase = "count" /\ call'[m].phase = "count" /\ call'[m] # call[m] =>
         /\ call'[m].total > call[m].total
         /\ call'[m].total <= Max({1, Length[m]})]_vars

\* Every call of fragment ends: the search for the number of frames does too.
CallsEnd == <>Ended

\* A payload that was sent is received in the end, or a call stopped inside a
\* frame.
StreamDelivers ==
  \A k \in 1..MaxSends :
    (Len(sent) >= k) ~> (slipped \/ Len(received) >= k)
=============================================================================
