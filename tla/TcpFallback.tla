----------------------------- MODULE TcpFallback -----------------------------
(***************************************************************************)
(* One direction of a TcpFallback connection (transport.py:90-121): a      *)
(* sender that writes length-prefixed payloads and a receiver that calls   *)
(* recv again and again, whatever the last call raised.  Below them is a   *)
(* reliable ordered byte stream (TLS over TCP) in which bytes may be late. *)
(*                                                                         *)
(* slipped is history: a send stopped in the middle of a frame, or a recv  *)
(* raised after it had taken bytes from the stream.                        *)
(***************************************************************************)
EXTENDS Payloads, Integers, FiniteSets, SequencesExt

CONSTANTS Streamed,       \* the payloads callers give to send
          HeaderBytes,    \* 4 in the code
          MaxFrame,       \* max_frame_size of the receiver
          MaxSends        \* bound: send calls

ASSUME TcpAssumption ==
  /\ Streamed \subseteq Message
  /\ HeaderBytes \in Nat \ {0}
  /\ MaxFrame \in Nat \ {0}
  /\ MaxSends \in Nat

VARIABLES wire,      \* bytes written and not yet read
          reading,   \* the recv call: phase, bytes wanted, bytes read so far
          sent,      \* payloads whose send returned
          sends,     \* send calls made
          received,  \* what recv returned, in order
          slipped

tcpVars == <<wire, reading, sent, sends, received, slipped>>

\* A frame is the payload behind HeaderBytes that say how long it is.
Header(m) == [k \in 1..HeaderBytes |-> <<"length", Length[m], k>>]
Framed(m) == Header(m) \o Payload(m)

Idle == [phase |-> "idle", want |-> 0, buf |-> <<>>]

TcpInit ==
  /\ wire = <<>> /\ reading = Idle
  /\ sent = <<>> /\ sends = 0 /\ received = <<>> /\ slipped = FALSE

Send(m) ==
  /\ sends < MaxSends
  /\ wire' = wire \o Framed(m)
  /\ sent' = Append(sent, m)
  /\ sends' = sends + 1
  /\ UNCHANGED <<reading, received, slipped>>

\* sendall raises with the first k bytes written, and the caller goes on.
SendStops(m, k) ==
  /\ sends < MaxSends
  /\ wire' = wire \o SubSeq(Framed(m), 1, k)
  /\ sends' = sends + 1
  /\ slipped' = (slipped \/ k > 0)
  /\ UNCHANGED <<reading, sent, received>>

\* _read_exact starts.
Wanting(phase, n) == [phase |-> phase, want |-> n, buf |-> <<>>]

Complete == Len(reading.buf) = reading.want

Recv ==
  /\ reading.phase = "idle"
  /\ reading' = Wanting("header", HeaderBytes)
  /\ UNCHANGED <<wire, sent, sends, received, slipped>>

\* Mutated form of Read: a chunk may hold more than what is missing.
ReadMore ==
  /\ reading.phase # "idle" /\ ~ Complete
  /\ \E n \in 1..Len(wire) :
       /\ reading' = [reading EXCEPT !.buf =
                        SubSeq(@ \o SubSeq(wire, 1, n), 1, Min({reading.want, Len(@) + n}))]
       /\ wire' = SubSeq(wire, n + 1, Len(wire))
  /\ UNCHANGED <<sent, sends, received, slipped>>

\* sock.recv(remaining): some of the bytes, never more than are missing.
Read ==
  /\ reading.phase # "idle" /\ ~ Complete
  /\ \E n \in 1..Min({Len(wire), reading.want - Len(reading.buf)}) :
       /\ reading' = [reading EXCEPT !.buf = @ \o SubSeq(wire, 1, n)]
       /\ wire' = SubSeq(wire, n + 1, Len(wire))
  /\ UNCHANGED <<sent, sends, received, slipped>>

\* The lengths that the bytes of a header may say: bytes of no header, or of
\* parts of two, may say any.
Said(buf) ==
  LET whole == {m \in Streamed : Header(m) = buf}
  IN  IF whole # {} THEN {Length[m] : m \in whole} ELSE 0..(MaxFrame + 1)

\* Mutated form of HeaderRead: a frame of no bytes is taken for the end.
HeaderReadSkipsEmpty ==
  /\ reading.phase = "header" /\ Complete
  /\ \E n \in Said(reading.buf) :
       IF n > MaxFrame
         THEN reading' = Idle /\ slipped' = TRUE
         ELSE /\ reading' = IF n = 0 THEN Idle ELSE Wanting("body", n)
              /\ UNCHANGED slipped
  /\ UNCHANGED <<wire, sent, sends, received>>

\* The header is there: a frame that is too large raises, and stays in the
\* stream.
HeaderRead ==
  /\ reading.phase = "header" /\ Complete
  /\ \E n \in Said(reading.buf) :
       IF n > MaxFrame
         THEN reading' = Idle /\ slipped' = TRUE
         ELSE reading' = Wanting("body", n) /\ UNCHANGED slipped
  /\ UNCHANGED <<wire, sent, sends, received>>

BodyRead ==
  /\ reading.phase = "body" /\ Complete
  /\ received' = Append(received, reading.buf)
  /\ reading' = Idle
  /\ UNCHANGED <<wire, sent, sends, slipped>>

\* A timeout, or the end of the stream: recv raises and what it has read of
\* the frame is gone.
ReadRaises ==
  /\ reading.phase # "idle" /\ ~ Complete
  /\ reading' = Idle
  /\ slipped' = (slipped \/ reading.phase = "body" \/ reading.buf # <<>>)
  /\ UNCHANGED <<wire, sent, sends, received>>

TcpNext ==
  \/ \E m \in Streamed :
       \/ Send(m)
       \/ \E k \in 0..(Len(Framed(m)) - 1) : SendStops(m, k)
  \/ Recv \/ Read \/ HeaderRead \/ BodyRead \/ ReadRaises
=============================================================================
