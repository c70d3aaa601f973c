-------------------------- MODULE Transport_proofs --------------------------
(***************************************************************************)
(* What is proved of the transport, for any payloads, any mtu values, any  *)
(* radix, and any loss, repetition, order and chunking.                    *)
(*                                                                         *)
(* The stream: StreamInv, from which StreamInStep.                         *)
(* The datagrams: CallsInv, of the calls of fragment, from which           *)
(* FramesCarryPayload; with Climbing, of their searches, it gives          *)
(* SearchClimbs, and with GotInv, of what has arrived, ReassemblyIsExact.  *)
(* Between them are the lemmas on what the two recursive functions,        *)
(* Digits and the library's FlattenSeq, return.                            *)
(***************************************************************************)
EXTENDS Transport, SequenceTheorems, FiniteSetTheorems, TLAPS

-----------------------------------------------------------------------------
(***************************************************************************)
(* The stream                                                              *)
(***************************************************************************)
\* A byte of a payload or of a header.
StreamByte == (Message \X Nat) \cup ({"length"} \X Nat \X Nat)

\* tail[k] is what the sender wrote after its k-th frame.
Follows(tail) ==
  /\ tail \in [Len(received)..Len(sent) -> Seq(StreamByte)]
  /\ tail[Len(sent)] = <<>>
  /\ \A k \in (Len(received) + 1)..Len(sent) :
       tail[k - 1] = Framed(sent[k]) \o tail[k]

\* What recv has read of a frame, with what is still to be read.
Unread == reading.buf \o wire

\* A reader between two frames, or in a header, has before it the frames whose
\* payloads it has not returned.
AtFrame ==
  \E tail : Follows(tail) /\ Unread = tail[Len(received)]

\* A reader in a body has before it that body and the frames after it.
InFrame ==
  /\ Len(received) < Len(sent)
  /\ reading.want = Length[sent[Len(received) + 1]]
  /\ \E tail :
       /\ Follows(tail)
       /\ Unread = Payload(sent[Len(received) + 1]) \o tail[Len(received) + 1]

StreamTypes ==
  /\ wire \in Seq(StreamByte)
  /\ reading \in [phase : {"idle", "header", "body"}, want : Nat,
                  buf : Seq(StreamByte)]
  /\ sent \in Seq(Streamed)
  /\ received \in Seq(Seq(StreamByte))
  /\ slipped \in BOOLEAN

Returned ==
  /\ Len(received) <= Len(sent)
  /\ \A k \in 1..Len(received) : received[k] = Payload(sent[k])

Reader ==
  /\ reading.phase = "idle" => reading.buf = <<>>
  /\ reading.phase = "header" => reading.want = HeaderBytes
  /\ IF reading.phase = "body" THEN InFrame ELSE AtFrame

StreamInv == StreamTypes /\ (~ slipped => Returned /\ Reader)

\* The minimum of two numbers is one of them.
LEMMA MinOfTwo ==
  ASSUME NEW a \in Int, NEW b \in Int
  PROVE  Min({a, b}) = IF a <= b THEN a ELSE b
<1>1. \A x \in {a, b} : (\A y \in {a, b} : x <= y) <=> x = IF a <= b THEN a ELSE b
  OBVIOUS
<1>2. (IF a <= b THEN a ELSE b) \in {a, b}
  OBVIOUS
<1> QED
  BY <1>1, <1>2 DEF Min

\* Sequences of bytes put together.
LEMMA Concats ==
  ASSUME NEW a \in Seq(StreamByte), NEW b \in Seq(StreamByte)
  PROVE  /\ a \o b \in Seq(StreamByte) /\ Len(a \o b) = Len(a) + Len(b)
         /\ a \o <<>> = a /\ <<>> \o a = a
BY ConcatProperties, ConcatEmptySeq

\* It does not matter which are put together first.
LEMMA Regroup ==
  ASSUME NEW a \in Seq(StreamByte), NEW b \in Seq(StreamByte), NEW c \in Seq(StreamByte)
  PROVE  (a \o b) \o c = a \o (b \o c)
BY ConcatAssociative

\* The bytes of a part of a payload.
LEMMA BytesType ==
  ASSUME NEW m \in Message, NEW from \in Nat, NEW to \in Nat, from <= to
  PROVE  /\ Bytes(m, from, to) \in Seq(Message \X Nat)
         /\ Len(Bytes(m, from, to)) = to - from
         /\ \A k \in 1..(to - from) : Bytes(m, from, to)[k] = <<m, from + k>>
<1>1. to - from \in Nat /\ \A k \in 1..(to - from) : <<m, from + k>> \in Message \X Nat
  OBVIOUS
<1> QED
  BY <1>1 DEF Bytes

\* A frame is made of bytes, and its payload lies behind its header.
LEMMA FramedType ==
  ASSUME NEW m \in Streamed
  PROVE  /\ m \in Message /\ Length[m] \in Nat
         /\ Header(m) \in Seq(StreamByte) /\ Len(Header(m)) = HeaderBytes
         /\ Header(m)[1] = <<"length", Length[m], 1>>
         /\ Payload(m) \in Seq(StreamByte) /\ Len(Payload(m)) = Length[m]
         /\ Framed(m) \in Seq(StreamByte)
<1>1. m \in Message /\ Length[m] \in Nat
  BY TcpAssumption, PayloadAssumption
<1>2. Header(m) \in Seq(StreamByte) /\ Len(Header(m)) = HeaderBytes
      /\ Header(m)[1] = <<"length", Length[m], 1>>
  <2>1. HeaderBytes \in Nat /\ 1 \in 1..HeaderBytes
    BY TcpAssumption
  <2>2. \A k \in 1..HeaderBytes : <<"length", Length[m], k>> \in StreamByte
    BY <1>1, <2>1 DEF StreamByte
  <2> QED
    BY <2>1, <2>2 DEF Header
<1>3. Payload(m) \in Seq(StreamByte) /\ Len(Payload(m)) = Length[m]
  <2>1. Payload(m) \in Seq(Message \X Nat) /\ Len(Payload(m)) = Length[m]
    <3>1. 0 \in Nat /\ 0 <= Length[m] /\ Length[m] - 0 = Length[m]
      BY <1>1
    <3> QED
      BY <1>1, <3>1, BytesType DEF Payload
  <2>2. Message \X Nat \subseteq StreamByte
    BY DEF StreamByte
  <2> QED
    BY <2>1, <2>2, SeqMonotonic
<1>4. Framed(m) \in Seq(StreamByte)
  BY <1>2, <1>3, ConcatProperties DEF Framed
<1> QED
  BY <1>1, <1>2, <1>3, <1>4

\* Sequences that begin with parts of one length agree in both their parts.
LEMMA SameParts ==
  ASSUME NEW S, NEW a \in Seq(S), NEW b \in Seq(S), NEW c \in Seq(S), NEW d \in Seq(S),
         a \o b = c \o d, Len(a) = Len(c)
  PROVE  a = c /\ b = d
<1>1. \A i \in 1..Len(a) : a[i] = c[i]
  <2>1. Len(a) \in Nat /\ Len(b) \in Nat /\ Len(c) \in Nat /\ Len(d) \in Nat
    BY LenProperties
  <2>2. \A i \in 1..Len(a) : (a \o b)[i] = a[i]
    BY <2>1, ConcatProperties
  <2>3. \A i \in 1..Len(c) : (c \o d)[i] = c[i]
    BY <2>1, ConcatProperties
  <2> QED
    BY <2>2, <2>3
<1>2. a = c
  BY <1>1, SeqEqual
<1> QED
  BY <1>2, ConcatSimplifications

\* Nothing is written, read or returned at first.
LEMMA InitStreamInv == Init => StreamInv
<1> SUFFICES ASSUME Init PROVE StreamInv
  OBVIOUS
<1>1. wire = <<>> /\ sent = <<>> /\ received = <<>> /\ reading = Idle /\ slipped = FALSE
  BY DEF Init, TcpInit
<1>2. StreamTypes
  <2>1. \A S : <<>> \in Seq(S)
    BY EmptySeq
  <2>2. Idle \in [phase : {"idle", "header", "body"}, want : Nat, buf : Seq(StreamByte)]
    BY <2>1 DEF Idle
  <2> QED
    BY <1>1, <2>1, <2>2 DEF StreamTypes
<1>3. Returned
  BY <1>1 DEF Returned
<1>4. AtFrame
  <2> DEFINE tail == [k \in 0..0 |-> <<>>]
  <2>1. Len(received) = 0 /\ Len(sent) = 0
    BY <1>1
  <2>2. tail \in [0..0 -> Seq(StreamByte)] /\ tail[0] = <<>>
    OBVIOUS
  <2>3. Follows(tail)
    <3> HIDE DEF tail
    <3> QED
      BY <2>1, <2>2 DEF Follows
  <2>4. Unread = <<>>
    BY <1>1 DEF Unread, Idle
  <2> HIDE DEF tail
  <2> QED
    BY <2>1, <2>2, <2>3, <2>4 DEF AtFrame
<1> QED
  BY <1>1, <1>2, <1>3, <1>4 DEF StreamInv, Reader, Idle

\* What follows each frame once one more is written.
LEMMA FollowsMore ==
  ASSUME StreamTypes, NEW tail, Follows(tail), Len(received) <= Len(sent),
         NEW m \in Streamed, sent' = Append(sent, m), received' = received
  PROVE  \E more :
           /\ Follows(more)'
           /\ \A k \in Len(received)..Len(sent) : more[k] = tail[k] \o Framed(m)
<1> DEFINE s == Len(sent)
           r == Len(received)
<1>1. s \in Nat /\ r \in Nat /\ r <= s
  BY LenProperties DEF StreamTypes
<1>2. Framed(m) \in Seq(StreamByte)
  BY FramedType
<1>3. /\ sent' \in Seq(Streamed) /\ Len(sent') = s + 1 /\ Len(received') = r
      /\ sent'[s + 1] = m /\ \A k \in 1..s : sent'[k] = sent[k]
  BY <1>1, AppendProperties DEF StreamTypes
<1>4. /\ tail \in [r..s -> Seq(StreamByte)] /\ tail[s] = <<>>
      /\ \A k \in (r + 1)..s : tail[k - 1] = Framed(sent[k]) \o tail[k]
  BY DEF Follows
<1>5. PICK more \in [r..(s + 1) -> Seq(StreamByte)] :
        /\ more[s + 1] = <<>>
        /\ \A k \in r..s : more[k] = tail[k] \o Framed(m)
  <2> DEFINE f == [k \in r..(s + 1) |-> IF k = s + 1 THEN <<>> ELSE tail[k] \o Framed(m)]
  <2>1. \A k \in r..s : tail[k] \o Framed(m) \in Seq(StreamByte)
    BY <1>2, <1>4, Concats
  <2>2. <<>> \in Seq(StreamByte)
    BY EmptySeq
  <2>3. f \in [r..(s + 1) -> Seq(StreamByte)]
    BY <1>1, <2>1, <2>2
  <2>4. f[s + 1] = <<>> /\ \A k \in r..s : f[k] = tail[k] \o Framed(m)
    BY <1>1
  <2> QED
    BY <2>3, <2>4
<1>6. ASSUME NEW k \in (r + 1)..(s + 1)
      PROVE  more[k - 1] = Framed(sent'[k]) \o more[k]
  <2>1. CASE k = s + 1
    <3>1. more[s] = <<>> \o Framed(m)
      <4>1. s \in r..s
        BY <1>1
      <4>2. more[s] = tail[s] \o Framed(m)
        BY <1>5, <4>1, Zenon
      <4> QED
        BY <1>4, <4>2
    <3>2. <<>> \o Framed(m) = Framed(m) /\ Framed(m) \o <<>> = Framed(m)
      BY <1>2, Concats
    <3>3. k - 1 = s
      BY <1>1, <2>1
    <3> HIDE DEF s
    <3> QED
      BY <1>3, <1>5, <2>1, <3>1, <3>2, <3>3, Zenon
  <2>2. CASE k # s + 1
    <3>1. k \in (r + 1)..s /\ k - 1 \in r..s /\ k \in r..s /\ k \in 1..s
      BY <1>1, <2>2
    <3>2. sent'[k] = sent[k] /\ sent[k] \in Streamed
      BY <1>3, <3>1, ElementOfSeq DEF StreamTypes
    <3>3. more[k - 1] = (Framed(sent[k]) \o tail[k]) \o Framed(m)
      BY <1>4, <1>5, <3>1
    <3>4. tail[k] \in Seq(StreamByte) /\ Framed(sent[k]) \in Seq(StreamByte)
      BY <1>4, <3>1, <3>2, FramedType
    <3>5. more[k - 1] = Framed(sent[k]) \o (tail[k] \o Framed(m))
      BY <1>2, <3>3, <3>4, Regroup, Zenon
    <3> QED
      BY <1>5, <3>1, <3>2, <3>5
  <2> QED
    BY <2>1, <2>2
<1>7. Follows(more)'
  BY <1>3, <1>5, <1>6 DEF Follows
<1> QED
  BY <1>5, <1>7

\* A frame written whole comes after those before it.
LEMMA SendKeepsStream ==
  ASSUME StreamInv, NEW m \in Streamed, Send(m)
  PROVE  StreamInv'
<1>1. /\ wire' = wire \o Framed(m) /\ sent' = Append(sent, m)
      /\ reading' = reading /\ received' = received /\ slipped' = slipped
  BY DEF Send
<1>2. StreamTypes /\ Framed(m) \in Seq(StreamByte)
  BY FramedType DEF StreamInv
<1>3. StreamTypes'
  BY <1>1, <1>2, ConcatProperties, AppendProperties DEF StreamTypes
<1> SUFFICES ASSUME ~ slipped PROVE (Returned /\ Reader)'
  BY <1>1, <1>3 DEF StreamInv
<1>4. Returned /\ Reader
  BY DEF StreamInv
<1>5. /\ Len(sent') = Len(sent) + 1 /\ \A k \in 1..Len(sent) : sent'[k] = sent[k]
      /\ Len(sent) \in Nat /\ Len(received) \in Nat
  BY <1>1, <1>2, AppendProperties, LenProperties DEF StreamTypes
<1>6. Returned'
  BY <1>1, <1>4, <1>5 DEF Returned
<1>7. Unread' = Unread \o Framed(m)
  <2>1. wire \in Seq(StreamByte) /\ reading.buf \in Seq(StreamByte)
    BY <1>2 DEF StreamTypes
  <2> QED
    BY <1>1, <1>2, <2>1, Regroup, Zenon DEF Unread
<1>8. CASE reading.phase = "body"
  <2>1. InFrame
    BY <1>4, <1>8 DEF Reader
  <2> DEFINE r == Len(received)
  <2>2. PICK tail : Follows(tail) /\ Unread = Payload(sent[r + 1]) \o tail[r + 1]
    BY <2>1 DEF InFrame
  <2>3. PICK more : /\ Follows(more)'
                    /\ \A k \in r..Len(sent) : more[k] = tail[k] \o Framed(m)
    BY <1>1, <1>2, <1>4, <2>2, FollowsMore DEF Returned
  <2>4. r + 1 \in 1..Len(sent) /\ r + 1 \in r..Len(sent) /\ r' = r
    BY <1>1, <1>5, <2>1 DEF InFrame
  <2>5. sent[r + 1] \in Streamed /\ tail[r + 1] \in Seq(StreamByte)
    BY <1>2, <2>2, <2>4, ElementOfSeq DEF StreamTypes, Follows
  <2>6. Unread' = Payload(sent[r + 1]) \o more[r + 1]
    <3>1. Payload(sent[r + 1]) \in Seq(StreamByte)
      BY <2>5, FramedType
    <3>2. Unread' = (Payload(sent[r + 1]) \o tail[r + 1]) \o Framed(m)
      BY <1>7, <2>2
    <3>3. Unread' = Payload(sent[r + 1]) \o (tail[r + 1] \o Framed(m))
      BY <1>2, <2>5, <3>1, <3>2, Regroup, Zenon
    <3> QED
      BY <2>3, <2>4, <3>3
  <2>7. InFrame'
    <3>1. /\ Len(received') = r /\ r < Len(sent') /\ sent'[r + 1] = sent[r + 1]
          /\ reading'.want = Length[sent[r + 1]]
      BY <1>1, <1>5, <2>1, <2>4 DEF InFrame
    <3> HIDE DEF r
    <3> QED
      BY <2>3, <2>6, <3>1 DEF InFrame
  <2> QED
    BY <1>1, <1>6, <1>8, <2>7 DEF Reader
<1>9. CASE reading.phase # "body"
  <2>1. AtFrame
    BY <1>4, <1>9 DEF Reader
  <2>2. PICK tail : Follows(tail) /\ Unread = tail[Len(received)]
    BY <2>1 DEF AtFrame
  <2>3. PICK more : /\ Follows(more)'
                    /\ \A k \in Len(received)..Len(sent) : more[k] = tail[k] \o Framed(m)
    BY <1>1, <1>2, <1>4, <2>2, FollowsMore DEF Returned
  <2>4. Unread' = more[Len(received)]
    BY <1>4, <1>5, <1>7, <2>2, <2>3 DEF Returned
  <2>5. AtFrame'
    BY <1>1, <2>3, <2>4 DEF AtFrame
  <2> QED
    BY <1>1, <1>4, <1>6, <1>9, <2>5 DEF Reader
<1> QED
  BY <1>8, <1>9

\* The calls that leave the stream of payloads in step: one that writes nothing,
\* and one that starts or ends without having read anything of a frame.
LEMMA QuietKeepsStream ==
  ASSUME StreamInv, UNCHANGED <<wire, sent, received>>,
         reading' \in [phase : {"idle", "header"}, want : Nat, buf : {<<>>}],
         reading'.phase = "header" => reading'.want = HeaderBytes,
         slipped' \in BOOLEAN,
         ~ slipped' => ~ slipped /\ reading.phase # "body" /\ reading.buf = <<>>
  PROVE  StreamInv'
<1>1. StreamTypes /\ <<>> \in Seq(StreamByte)
  BY EmptySeq DEF StreamInv
<1>2. /\ reading'.phase \in {"idle", "header"} /\ reading'.buf = <<>>
      /\ reading' \in [phase : {"idle", "header", "body"}, want : Nat, buf : Seq(StreamByte)]
  BY <1>1
<1>3. StreamTypes'
  BY <1>1, <1>2 DEF StreamTypes
<1> SUFFICES ASSUME ~ slipped' PROVE (Returned /\ Reader)'
  BY <1>3 DEF StreamInv
<1>4. Returned /\ AtFrame
  BY DEF StreamInv, Reader
<1>5. Unread' = Unread
  BY <1>2 DEF Unread
<1>6. AtFrame'
  BY <1>4, <1>5 DEF AtFrame, Follows
<1>7. Returned'
  BY <1>4 DEF Returned
<1> QED
  BY <1>2, <1>6, <1>7 DEF Reader

\* Once the stream has slipped only the types are left to keep.
LEMMA SlippedKeepsStream ==
  ASSUME StreamInv, UNCHANGED <<reading, sent, received>>,
         wire' \in Seq(StreamByte), slipped' = TRUE
  PROVE  StreamInv'
BY DEF StreamInv, StreamTypes

\* What recv takes from the wire stays in front of what is left there.
LEMMA ReadKeepsStream ==
  ASSUME StreamInv, Read
  PROVE  StreamInv'
<1>1. /\ reading.phase # "idle"
      /\ UNCHANGED <<sent, received, slipped>>
  BY DEF Read
<1>2. StreamTypes
  BY DEF StreamInv
<1>3. /\ wire \in Seq(StreamByte) /\ reading.buf \in Seq(StreamByte)
      /\ Len(wire) \in Nat /\ Len(reading.buf) \in Nat /\ reading.want \in Nat
      /\ \A k \in 1..Len(wire) : wire[k] \in StreamByte
  BY <1>2, LenProperties, ElementOfSeq DEF StreamTypes
<1>4. PICK n \in 1..Min({Len(wire), reading.want - Len(reading.buf)}) :
        /\ reading' = [reading EXCEPT !.buf = @ \o SubSeq(wire, 1, n)]
        /\ wire' = SubSeq(wire, n + 1, Len(wire))
  BY DEF Read
<1>5. n \in 1..Len(wire)
  <2> DEFINE missing == reading.want - Len(reading.buf)
  <2>1. missing \in Int /\ Len(wire) \in Int
    BY <1>3
  <2>2. Min({Len(wire), missing}) = IF Len(wire) <= missing THEN Len(wire) ELSE missing
    BY <2>1, MinOfTwo
  <2>3. n \in 1..Min({Len(wire), missing})
    BY <1>4
  <2> HIDE DEF missing
  <2> QED
    BY <2>1, <2>2, <2>3
<1>6. /\ SubSeq(wire, 1, n) \in Seq(StreamByte) /\ wire' \in Seq(StreamByte)
      /\ SubSeq(wire, 1, n) \o wire' = wire
  <2>1. SubSeq(wire, 1, n) \in Seq(StreamByte)
    BY <1>3, <1>5, SubSeqProperties
  <2>2. SubSeq(wire, n + 1, Len(wire)) \in Seq(StreamByte)
    BY <1>3, <1>5, SubSeqProperties
  <2>3. SubSeq(wire, 1, n) \o SubSeq(wire, n + 1, Len(wire)) = SubSeq(wire, 1, Len(wire))
    BY <1>3, <1>5, ConcatAdjacentSubSeq
  <2>4. SubSeq(wire, 1, Len(wire)) = wire
    BY <1>3, SubSeqFull
  <2> QED
    BY <1>4, <2>1, <2>2, <2>3, <2>4
<1>7. /\ reading'.buf = reading.buf \o SubSeq(wire, 1, n)
      /\ reading'.buf \in Seq(StreamByte)
      /\ reading'.phase = reading.phase /\ reading'.want = reading.want
      /\ reading' \in [phase : {"idle", "header", "body"}, want : Nat, buf : Seq(StreamByte)]
  BY <1>2, <1>3, <1>4, <1>6, Concats DEF StreamTypes
<1>8. StreamTypes'
  BY <1>1, <1>2, <1>6, <1>7 DEF StreamTypes
<1> SUFFICES ASSUME ~ slipped PROVE (Returned /\ Reader)'
  BY <1>1, <1>8 DEF StreamInv
<1>9. Returned /\ Reader
  BY DEF StreamInv
<1>10. Unread' = Unread
  <2>1. (reading.buf \o SubSeq(wire, 1, n)) \o wire' = reading.buf \o (SubSeq(wire, 1, n) \o wire')
    BY <1>3, <1>6, Regroup, Zenon
  <2> QED
    BY <1>6, <1>7, <2>1 DEF Unread
<1>11. Returned'
  BY <1>1, <1>9 DEF Returned
<1>12. Reader'
  BY <1>1, <1>7, <1>9, <1>10 DEF Reader, InFrame, AtFrame, Follows
<1> QED
  BY <1>11, <1>12

\* A header that is read says how long the payload behind it is.
LEMMA HeaderKeepsStream ==
  ASSUME StreamInv, HeaderRead
  PROVE  StreamInv'
<1>1. /\ reading.phase = "header" /\ Len(reading.buf) = reading.want
      /\ UNCHANGED <<wire, sent, received>>
  BY DEF HeaderRead, Complete
<1>2. StreamTypes
  BY DEF StreamInv
<1>3. PICK n \in Said(reading.buf) :
        IF n > MaxFrame
          THEN reading' = Idle /\ slipped' = TRUE
          ELSE reading' = Wanting("body", n) /\ UNCHANGED slipped
  BY DEF HeaderRead
<1>4. n \in Nat
  <2> DEFINE whole == {m \in Streamed : Header(m) = reading.buf}
  <2>1. \A m \in whole : Length[m] \in Nat
    BY FramedType
  <2>2. 0..(MaxFrame + 1) \subseteq Nat
    BY TcpAssumption
  <2> QED
    BY <1>3, <2>1, <2>2 DEF Said
<1>5. CASE n > MaxFrame
  <2>1. reading' = Idle /\ slipped' = TRUE
    BY <1>3, <1>5
  <2> QED
    BY <1>1, <2>1, QuietKeepsStream DEF Idle
<1>6. CASE ~ (n > MaxFrame)
  <2>1. reading' = Wanting("body", n) /\ slipped' = slipped
    BY <1>3, <1>6
  <2>2. /\ reading'.phase = "body" /\ reading'.want = n /\ reading'.buf = <<>>
        /\ reading' \in [phase : {"idle", "header", "body"}, want : Nat, buf : Seq(StreamByte)]
    BY <1>4, <2>1, EmptySeq DEF Wanting
  <2>3. StreamTypes'
    BY <1>1, <1>2, <2>1, <2>2 DEF StreamTypes
  <2> SUFFICES ASSUME ~ slipped PROVE (Returned /\ Reader)'
    BY <2>1, <2>3 DEF StreamInv
  <2>4. Returned /\ AtFrame /\ reading.want = HeaderBytes
    BY <1>1 DEF StreamInv, Reader
  <2> DEFINE r == Len(received)
  <2>5. PICK tail : Follows(tail) /\ Unread = tail[r]
    BY <2>4 DEF AtFrame
  <2>6. /\ Len(sent) \in Nat /\ r \in Nat /\ r <= Len(sent)
        /\ wire \in Seq(StreamByte) /\ reading.buf \in Seq(StreamByte)
        /\ Len(reading.buf) = HeaderBytes /\ HeaderBytes \in Nat \ {0}
    BY <1>1, <1>2, <2>4, LenProperties, TcpAssumption DEF StreamTypes, Returned
  <2>7. r < Len(sent)
    <3>1. Len(Unread) = Len(reading.buf) + Len(wire) /\ Len(wire) \in Nat
      BY <2>6, Concats, LenProperties DEF Unread
    <3>2. CASE r = Len(sent)
      <4>1. Unread = <<>>
        BY <2>5, <3>2 DEF Follows
      <4> QED
        BY <2>6, <3>1, <4>1, EmptySeq
    <3> QED
      BY <2>6, <3>2
  <2> DEFINE m == sent[r + 1]
  <2>8. /\ m \in Streamed /\ tail[r] = Framed(m) \o tail[r + 1]
        /\ tail[r + 1] \in Seq(StreamByte)
    <3>1. r + 1 \in (r + 1)..Len(sent) /\ r + 1 \in r..Len(sent) /\ r + 1 \in 1..Len(sent)
          /\ (r + 1) - 1 = r
      BY <2>6, <2>7
    <3>2. m \in Streamed
      BY <1>2, <3>1, ElementOfSeq DEF StreamTypes
    <3> QED
      BY <2>5, <3>1, <3>2 DEF Follows
  <2>9. /\ Header(m) \in Seq(StreamByte) /\ Payload(m) \in Seq(StreamByte)
        /\ Len(Header(m)) = HeaderBytes
    BY <2>8, FramedType
  <2> HIDE DEF m
  <2>10. reading.buf \o wire = Header(m) \o (Payload(m) \o tail[r + 1])
    <3>1. reading.buf \o wire = (Header(m) \o Payload(m)) \o tail[r + 1]
      BY <2>5, <2>8 DEF Unread, Framed
    <3> QED
      BY <2>8, <2>9, <3>1, Regroup, Zenon
  <2>11. reading.buf = Header(m) /\ wire = Payload(m) \o tail[r + 1]
    <3>1. Payload(m) \o tail[r + 1] \in Seq(StreamByte)
      BY <2>8, <2>9, Concats
    <3>2. Len(reading.buf) = Len(Header(m))
      BY <2>6, <2>9
    <3> PICK a, b, c, d : /\ a = reading.buf /\ b = wire
                          /\ c = Header(m) /\ d = Payload(m) \o tail[r + 1]
      OBVIOUS
    <3>3. /\ a \in Seq(StreamByte) /\ b \in Seq(StreamByte) /\ c \in Seq(StreamByte)
          /\ d \in Seq(StreamByte) /\ a \o b = c \o d /\ Len(a) = Len(c)
      BY <2>6, <2>9, <2>10, <3>1, <3>2
    <3>4. a = c /\ b = d
      BY <3>3, SameParts, Zenon
    <3> QED
      BY <3>4
  <2>12. n = Length[m]
    <3> DEFINE whole == {k \in Streamed : Header(k) = reading.buf}
    <3>1. m \in whole
      BY <2>8, <2>11
    <3>2. \A k \in whole : Length[k] = Length[m]
      <4> TAKE k \in whole
      <4>1. Header(k)[1] = <<"length", Length[k], 1>> /\ Header(m)[1] = <<"length", Length[m], 1>>
        BY <2>8, FramedType
      <4>2. Header(k) = Header(m)
        BY <2>11
      <4> QED
        BY <4>1, <4>2
    <3> QED
      BY <1>3, <3>1, <3>2 DEF Said
  <2>13. Unread' = Payload(m) \o tail[r + 1]
    <3>1. Unread' = <<>> \o wire
      BY <1>1, <2>2 DEF Unread
    <3>2. <<>> \o wire = wire
      BY <2>6, Concats
    <3> QED
      BY <2>11, <3>1, <3>2
  <2>14. Follows(tail)'
    BY <1>1, <2>5 DEF Follows
  <2>15. InFrame'
    <3>1. Len(received') = r /\ Len(sent') = Len(sent) /\ sent'[r + 1] = m
      BY <1>1 DEF m
    <3> HIDE DEF r
    <3> QED
      BY <2>2, <2>7, <2>12, <2>13, <2>14, <3>1 DEF InFrame
  <2> QED
    BY <1>1, <2>2, <2>4, <2>15 DEF Reader, Returned
<1> QED
  BY <1>5, <1>6

\* A body that is read is the next payload, and leaves the frames after it.
LEMMA BodyKeepsStream ==
  ASSUME StreamInv, BodyRead
  PROVE  StreamInv'
<1>1. /\ reading.phase = "body" /\ Len(reading.buf) = reading.want
      /\ received' = Append(received, reading.buf) /\ reading' = Idle
      /\ UNCHANGED <<wire, sent, slipped>>
  BY DEF BodyRead, Complete
<1>2. StreamTypes
  BY DEF StreamInv
<1>3. /\ wire \in Seq(StreamByte) /\ reading.buf \in Seq(StreamByte)
      /\ <<>> \in Seq(StreamByte) /\ Len(received) \in Nat /\ Len(sent) \in Nat
  BY <1>2, LenProperties, EmptySeq DEF StreamTypes
<1> DEFINE r == Len(received)
<1>4. /\ received' \in Seq(Seq(StreamByte)) /\ Len(received') = r + 1
      /\ received'[r + 1] = reading.buf /\ \A k \in 1..r : received'[k] = received[k]
  BY <1>1, <1>2, AppendProperties DEF StreamTypes
<1>5. /\ reading'.phase = "idle" /\ reading'.buf = <<>>
      /\ reading' \in [phase : {"idle", "header", "body"}, want : Nat, buf : Seq(StreamByte)]
  BY <1>1, <1>3 DEF Idle
<1>6. StreamTypes'
  BY <1>1, <1>2, <1>4, <1>5 DEF StreamTypes
<1> SUFFICES ASSUME ~ slipped PROVE (Returned /\ Reader)'
  BY <1>1, <1>6 DEF StreamInv
<1>7. Returned /\ InFrame
  BY <1>1 DEF StreamInv, Reader
<1> DEFINE m == sent[r + 1]
<1>8. PICK tail : Follows(tail) /\ Unread = Payload(m) \o tail[r + 1]
  BY <1>7 DEF InFrame
<1>9. r + 1 \in r..Len(sent) /\ r + 1 \in 1..Len(sent) /\ reading.want = Length[m]
  BY <1>3, <1>7 DEF InFrame
<1>10. m \in Streamed /\ tail[r + 1] \in Seq(StreamByte)
  BY <1>2, <1>8, <1>9, ElementOfSeq DEF StreamTypes, Follows
<1>11. Payload(m) \in Seq(StreamByte) /\ Len(Payload(m)) = Length[m]
  BY <1>10, FramedType
<1> HIDE DEF m
<1>12. reading.buf = Payload(m) /\ wire = tail[r + 1]
  <2>1. reading.buf \o wire = Payload(m) \o tail[r + 1]
    BY <1>8 DEF Unread
  <2>2. Len(reading.buf) = Len(Payload(m))
    BY <1>1, <1>9, <1>11
  <2> QED
    BY <1>3, <1>10, <1>11, <2>1, <2>2, SameParts, Zenon
<1>13. Returned'
  <2>1. \A k \in 1..(r + 1) : k \in 1..r \/ k = r + 1
    BY <1>3
  <2>2. \A k \in 1..r : received[k] = Payload(sent[k])
    BY <1>7 DEF Returned
  <2>3. received'[r + 1] = Payload(sent[r + 1])
    BY <1>4, <1>12 DEF m
  <2>4. r + 1 <= Len(sent)
    BY <1>9
  <2> HIDE DEF r
  <2> QED
    BY <1>1, <1>4, <2>1, <2>2, <2>3, <2>4 DEF Returned
<1>14. PICK rest : /\ rest \in [(r + 1)..Len(sent) -> Seq(StreamByte)]
                   /\ \A k \in (r + 1)..Len(sent) : rest[k] = tail[k]
  <2> DEFINE f == [k \in (r + 1)..Len(sent) |-> tail[k]]
  <2>1. \A k \in (r + 1)..Len(sent) : tail[k] \in Seq(StreamByte)
    BY <1>3, <1>8 DEF Follows
  <2>2. f \in [(r + 1)..Len(sent) -> Seq(StreamByte)]
    BY <2>1
  <2>3. \A k \in (r + 1)..Len(sent) : f[k] = tail[k]
    OBVIOUS
  <2> QED
    BY <2>2, <2>3
<1>15. Follows(rest)'
  <2>1. rest[Len(sent)] = <<>>
    <3>1. Len(sent) \in (r + 1)..Len(sent) /\ tail[Len(sent)] = <<>>
      BY <1>3, <1>8, <1>9 DEF Follows
    <3> QED
      BY <1>14, <3>1
  <2>2. \A k \in (r + 2)..Len(sent) : rest[k - 1] = Framed(sent[k]) \o rest[k]
    <3> TAKE k \in (r + 2)..Len(sent)
    <3>1. k \in (r + 1)..Len(sent) /\ k - 1 \in (r + 1)..Len(sent)
      BY <1>3
    <3>2. rest[k] = tail[k] /\ rest[k - 1] = tail[k - 1]
      BY <1>14, <3>1, Zenon
    <3>3. tail[k - 1] = Framed(sent[k]) \o tail[k]
      BY <1>8, <3>1 DEF Follows
    <3> QED
      BY <3>2, <3>3
  <2>3. (r + 1) + 1 = r + 2
    BY <1>3
  <2> HIDE DEF r
  <2> QED
    BY <1>1, <1>4, <1>14, <2>1, <2>2, <2>3 DEF Follows
<1>16. AtFrame'
  <2>1. Unread' = <<>> \o wire /\ <<>> \o wire = wire
    BY <1>1, <1>3, <1>5, Concats DEF Unread
  <2>2. rest[r + 1] = tail[r + 1]
    <3>1. r + 1 \in (r + 1)..Len(sent)
      BY <1>3, <1>9
    <3> QED
      BY <1>14, <3>1, Zenon
  <2>3. Unread' = rest[Len(received')]
    BY <1>4, <1>12, <2>1, <2>2
  <2> QED
    BY <1>15, <2>3 DEF AtFrame
<1> QED
  BY <1>5, <1>13, <1>16 DEF Reader

\* A send that stops inside the frame has let the stream slip; one that has
\* written nothing has not.
LEMMA StopKeepsStream ==
  ASSUME StreamInv, NEW m \in Streamed, NEW k \in 0..(Len(Framed(m)) - 1), SendStops(m, k)
  PROVE  StreamInv'
<1>1. /\ wire' = wire \o SubSeq(Framed(m), 1, k) /\ slipped' = (slipped \/ k > 0)
      /\ UNCHANGED <<reading, sent, received>>
  BY DEF SendStops
<1>2. wire \in Seq(StreamByte) /\ slipped \in BOOLEAN
  BY DEF StreamInv, StreamTypes
<1>3. Framed(m) \in Seq(StreamByte) /\ Len(Framed(m)) \in Nat /\ k \in Nat
  BY FramedType, LenProperties
<1>4. SubSeq(Framed(m), 1, k) \in Seq(StreamByte) /\ (k = 0 => SubSeq(Framed(m), 1, k) = <<>>)
  <2>1. \A i \in 1..k : Framed(m)[i] \in StreamByte
    BY <1>3, ElementOfSeq
  <2> QED
    BY <1>3, <2>1, SubSeqProperties, SubSeqEmpty
<1>5. wire' \in Seq(StreamByte)
  BY <1>1, <1>2, <1>4, Concats
<1>6. CASE slipped'
  BY <1>1, <1>2, <1>5, <1>6, SlippedKeepsStream
<1>7. CASE ~ slipped'
  <2>1. k = 0 /\ ~ slipped /\ slipped' = slipped
    <3>1. ~ slipped /\ ~ (k > 0)
      BY <1>1, <1>7, Zenon
    <3>2. k = 0
      BY <1>3, <3>1
    <3>3. slipped' = slipped
      BY <1>1, <1>2, <3>1, Zenon
    <3> QED
      BY <3>1, <3>2, <3>3
  <2>2. wire' = wire
    BY <1>1, <1>2, <1>4, <2>1, Concats
  <2> QED
    BY <1>1, <2>1, <2>2 DEF StreamInv, StreamTypes, Returned, Reader, InFrame,
       AtFrame, Follows, Unread
<1> QED
  BY <1>6, <1>7

\* recv starts with nothing read.
LEMMA RecvKeepsStream ==
  ASSUME StreamInv, Recv
  PROVE  StreamInv'
<1>1. /\ reading.phase = "idle" /\ reading' = Wanting("header", HeaderBytes)
      /\ UNCHANGED <<wire, sent, received, slipped>>
  BY DEF Recv
<1>2. /\ reading' \in [phase : {"idle", "header"}, want : Nat, buf : {<<>>}]
      /\ reading'.want = HeaderBytes
  BY <1>1, TcpAssumption DEF Wanting
<1>3. slipped' \in BOOLEAN /\ (~ slipped => reading.buf = <<>>)
  BY <1>1 DEF StreamInv, StreamTypes, Reader
<1> QED
  BY <1>1, <1>2, <1>3, QuietKeepsStream

\* recv raises: what it had read is lost, and with it the step.
LEMMA RaiseKeepsStream ==
  ASSUME StreamInv, ReadRaises
  PROVE  StreamInv'
<1>1. /\ reading' = Idle /\ slipped' = (slipped \/ reading.phase = "body" \/ reading.buf # <<>>)
      /\ UNCHANGED <<wire, sent, received>>
  BY DEF ReadRaises
<1>2. slipped \in BOOLEAN
  BY DEF StreamInv, StreamTypes
<1>3. reading' \in [phase : {"idle", "header"}, want : Nat, buf : {<<>>}] /\ reading'.phase = "idle"
  BY <1>1 DEF Idle
<1> QED
  BY <1>1, <1>2, <1>3, QuietKeepsStream

\* Every step keeps the stream.
LEMMA NextStreamInv == StreamInv /\ [Next]_vars => StreamInv'
<1> SUFFICES ASSUME StreamInv, [Next]_vars PROVE StreamInv'
  OBVIOUS
<1>1. CASE UNCHANGED tcpVars
  BY <1>1 DEF tcpVars, StreamInv, StreamTypes, Returned, Reader, InFrame, AtFrame, Follows, Unread
<1>2. CASE TcpNext
  BY <1>2, SendKeepsStream, StopKeepsStream, RecvKeepsStream, ReadKeepsStream,
     HeaderKeepsStream, BodyKeepsStream, RaiseKeepsStream DEF TcpNext
<1> QED
  BY <1>1, <1>2 DEF Next, vars, Cutting, Streaming, Arrives

\* As long as no call stopped inside a frame, recv returns the payloads in the
\* order in which they were sent, whatever the chunks (transport.py:106-121).
THEOREM StreamStaysInStep == Spec => []StreamInStep
<1>1. StreamInv => StreamInStep
  <2> SUFFICES ASSUME StreamInv, ~ slipped
               PROVE  IsPrefix(received, [k \in 1..Len(sent) |-> Payload(sent[k])])
    BY DEF StreamInStep
  <2> DEFINE all == [k \in 1..Len(sent) |-> Payload(sent[k])]
             r == Len(received)
  <2>1. StreamTypes /\ Returned
    BY DEF StreamInv
  <2>2. Len(sent) \in Nat /\ r \in Nat /\ r <= Len(sent)
    BY <2>1, LenProperties DEF StreamTypes, Returned
  <2>3. all \in Seq(Seq(StreamByte)) /\ Len(all) = Len(sent)
    <3>1. \A k \in 1..Len(sent) : Payload(sent[k]) \in Seq(StreamByte)
      BY <2>1, ElementOfSeq, FramedType DEF StreamTypes
    <3> QED
      BY <2>2, <3>1
  <2>4. \A k \in 1..r : all[k] = received[k]
    BY <2>1, <2>2 DEF Returned
  <2>5. SubSeq(received, 1, r) = received
    BY <2>1, SubSeqFull DEF StreamTypes
  <2>6. SubSeq(all, 1, r) = received
    <3> HIDE DEF all
    <3>1. \A k \in 1..r : all[k] \in Seq(StreamByte)
      BY <2>2, <2>3, ElementOfSeq
    <3>2. /\ SubSeq(all, 1, r) \in Seq(Seq(StreamByte)) /\ Len(SubSeq(all, 1, r)) = r
          /\ \A k \in 1..r : SubSeq(all, 1, r)[k] = all[k]
      BY <2>2, <3>1, SubSeqProperties
    <3>3. received \in Seq(Seq(StreamByte))
      BY <2>1 DEF StreamTypes
    <3> QED
      BY <2>4, <3>2, <3>3, SeqEqual
  <2> HIDE DEF all, r
  <2> QED
    BY <2>2, <2>3, <2>5, <2>6 DEF IsPrefix, all, r
<1> QED
  BY <1>1, InitStreamInv, NextStreamInv, PTL DEF Spec

-----------------------------------------------------------------------------
(***************************************************************************)
(* Numbers of digits, headers and pieces                                   *)
(***************************************************************************)

\* A set of natural numbers that is not empty has a least member.
LEMMA LeastOf ==
  ASSUME NEW T \in SUBSET Nat, T # {}
  PROVE  \E n \in T : \A k \in T : ~ (k < n)
<1>1. IsWellFoundedOn(OpToRel(<, Nat), Nat)
  BY NatLessThanWellFounded
<1>2. PICK n \in T : \A k \in T : ~ (<<k, n>> \in OpToRel(<, Nat))
  BY <1>1, WFMin
<1>3. \A k \in T : k < n => <<k, n>> \in OpToRel(<, Nat)
  BY DEF OpToRel
<1> QED
  BY <1>2, <1>3

\* Induction, and course-of-values induction, over a set.
LEMMA SetInduction ==
  ASSUME NEW T, 0 \in T, \A n \in Nat : n \in T => n + 1 \in T
  PROVE  Nat \subseteq T
<1> SUFFICES ASSUME Nat \ T # {} PROVE FALSE
  OBVIOUS
<1>1. PICK n \in Nat \ T : \A k \in Nat \ T : ~ (k < n)
  BY LeastOf
<1>2. n - 1 \in Nat /\ n - 1 < n
  BY <1>1
<1> QED
  BY <1>1, <1>2

\* What follows for a number from all smaller ones holds of every number.
LEMMA StrongInduction ==
  ASSUME NEW T, \A n \in Nat : 0..(n - 1) \subseteq T => n \in T
  PROVE  Nat \subseteq T
<1> SUFFICES ASSUME Nat \ T # {} PROVE FALSE
  OBVIOUS
<1>1. PICK n \in Nat \ T : \A k \in Nat \ T : ~ (k < n)
  BY LeastOf
<1> QED
  BY <1>1

\* Dividing by the radix makes a number of several digits smaller.
LEMMA DivBelow ==
  ASSUME NEW k \in Nat, k >= Radix
  PROVE  k \div Radix \in Nat /\ k \div Radix < k /\ k \div Radix >= 1
BY FragmentAssumption

\* f gives the digits of the numbers up to n.
DigitsUpTo(f, n) ==
  /\ f \in [0..n -> Nat \ {0}]
  /\ \A k \in 0..n : f[k] = IF k < Radix THEN 1 ELSE 1 + f[k \div Radix]

\* There is such a function for every bound, ...
LEMMA DigitsUpToExist ==
  \A n \in Nat : \E f : DigitsUpTo(f, n)
<1> DEFINE T == {n \in Nat : \E f : DigitsUpTo(f, n)}
<1>1. 0 \in T
  <2> DEFINE f == [k \in 0..0 |-> 1]
  <2>1. f \in [0..0 -> Nat \ {0}] /\ \A k \in 0..0 : k < Radix /\ f[k] = 1
    BY FragmentAssumption
  <2> HIDE DEF f
  <2>2. DigitsUpTo(f, 0)
    BY <2>1 DEF DigitsUpTo
  <2> QED
    BY <2>2
<1>2. ASSUME NEW n \in Nat, n \in T
      PROVE  n + 1 \in T
  <2>1. PICK f : DigitsUpTo(f, n)
    BY <1>2
  <2> DEFINE new == IF n + 1 < Radix THEN 1 ELSE 1 + f[(n + 1) \div Radix]
             g == [k \in 0..(n + 1) |-> IF k = n + 1 THEN new ELSE f[k]]
  <2>2. \A k \in 0..n : f[k] \in Nat \ {0}
    BY <2>1 DEF DigitsUpTo
  <2>3. \A k \in 0..(n + 1) : k >= Radix => k \div Radix \in 0..n
    <3> TAKE k \in 0..(n + 1)
    <3> HAVE k >= Radix
    <3>1. k \in Nat /\ k <= n + 1
      OBVIOUS
    <3>2. k \div Radix \in Nat /\ k \div Radix < k
      BY <3>1, DivBelow
    <3> QED
      BY <3>1, <3>2
  <2>4. new \in Nat \ {0}
    BY <2>2, <2>3, FragmentAssumption
  <2> HIDE DEF new
  <2>5. g \in [0..(n + 1) -> Nat \ {0}]
    BY <2>2, <2>4
  <2>6. g[n + 1] = new /\ \A k \in 0..n : g[k] = f[k]
    OBVIOUS
  <2> HIDE DEF g
  <2>7. ASSUME NEW k \in 0..(n + 1)
        PROVE  g[k] = IF k < Radix THEN 1 ELSE 1 + g[k \div Radix]
    <3>1. k >= Radix => g[k \div Radix] = f[k \div Radix]
      BY <2>3, <2>6
    <3>2. CASE k = n + 1
      BY <2>6, <3>1, <3>2, FragmentAssumption DEF new
    <3>3. CASE k # n + 1
      <4>1. k \in 0..n
        BY <3>3
      <4>2. f[k] = IF k < Radix THEN 1 ELSE 1 + f[k \div Radix]
        BY <2>1, <4>1 DEF DigitsUpTo
      <4> QED
        BY <2>6, <3>1, <4>1, <4>2, FragmentAssumption
    <3> QED
      BY <3>2, <3>3
  <2>8. DigitsUpTo(g, n + 1)
    BY <2>5, <2>7 DEF DigitsUpTo
  <2> QED
    BY <2>8
<1>3. Nat \subseteq T
  <2> HIDE DEF T
  <2> QED
    BY <1>1, <1>2, SetInduction
<1> QED
  BY <1>3

\* ... two of them agree where both are defined, ...
LEMMA DigitsUpToAgree ==
  ASSUME NEW n \in Nat, NEW l \in Nat, NEW f, NEW g, DigitsUpTo(f, n), DigitsUpTo(g, l)
  PROVE  \A k \in Nat : k <= n /\ k <= l => f[k] = g[k]
<1> DEFINE T == {k \in Nat : k <= n /\ k <= l => f[k] = g[k]}
<1>1. ASSUME NEW k \in Nat, 0..(k - 1) \subseteq T
      PROVE  k \in T
  <2> SUFFICES ASSUME k <= n, k <= l PROVE f[k] = g[k]
    OBVIOUS
  <2>1. /\ f[k] = IF k < Radix THEN 1 ELSE 1 + f[k \div Radix]
        /\ g[k] = IF k < Radix THEN 1 ELSE 1 + g[k \div Radix]
    BY DEF DigitsUpTo
  <2>2. ASSUME k >= Radix PROVE f[k \div Radix] = g[k \div Radix]
    <3>1. k \div Radix \in Nat /\ k \div Radix < k
      BY <2>2, DivBelow
    <3>2. k \div Radix \in 0..(k - 1)
      BY <3>1
    <3> QED
      BY <1>1, <3>1, <3>2
  <2> QED
    BY <2>1, <2>2, FragmentAssumption
<1>2. Nat \subseteq T
  <2> HIDE DEF T
  <2> QED
    BY <1>1, StrongInduction
<1> QED
  BY <1>2

\* ... and so Digits is the function that its definition describes.
LEMMA DigitsRec ==
  \A k \in Nat : Digits[k] = IF k < Radix THEN 1 ELSE 1 + Digits[k \div Radix]
<1> DEFINE upTo(n) == CHOOSE f : DigitsUpTo(f, n)
           g == [k \in Nat |-> upTo(k)[k]]
<1>1. \A n \in Nat : DigitsUpTo(upTo(n), n)
  BY DigitsUpToExist
<1> HIDE DEF upTo
<1>2. \A k \in Nat : g[k] = upTo(k)[k] /\ g[k] \in Nat \ {0}
  BY <1>1 DEF DigitsUpTo
<1>3. ASSUME NEW k \in Nat
      PROVE  g[k] = IF k < Radix THEN 1 ELSE 1 + g[k \div Radix]
  <2>1. upTo(k)[k] = IF k < Radix THEN 1 ELSE 1 + upTo(k)[k \div Radix]
    BY <1>1 DEF DigitsUpTo
  <2>2. ASSUME k >= Radix PROVE upTo(k)[k \div Radix] = g[k \div Radix]
    <3>1. k \div Radix \in Nat /\ k \div Radix < k
      BY <2>2, DivBelow
    <3> QED
      BY <1>1, <1>2, <3>1, DigitsUpToAgree
  <2> QED
    BY <1>2, <2>1, <2>2, FragmentAssumption
<1>4. g = [k \in Nat |-> IF k < Radix THEN 1 ELSE 1 + g[k \div Radix]]
  BY <1>3
<1> HIDE DEF g
<1>5. Digits = [k \in Nat |-> IF k < Radix THEN 1 ELSE 1 + Digits[k \div Radix]]
  BY <1>4 DEF Digits
<1>6. \A k \in Nat : Digits[k] = IF k < Radix THEN 1 ELSE 1 + Digits[k \div Radix]
  BY <1>5
<1> QED
  BY <1>6

\* A number has at least one digit, and from 1 on no more digits than its value.
LEMMA DigitsBounds ==
  \A k \in Nat : Digits[k] \in Nat \ {0} /\ (k = 0 => Digits[k] = 1) /\ (k >= 1 => Digits[k] <= k)
<1> DEFINE T == {k \in Nat : Digits[k] \in Nat \ {0} /\ (k >= 1 => Digits[k] <= k)}
<1>1. ASSUME NEW k \in Nat, 0..(k - 1) \subseteq T
      PROVE  k \in T
  <2>1. CASE k < Radix
    BY <2>1, DigitsRec
  <2>2. CASE k >= Radix
    <3> DEFINE l == k \div Radix
    <3>1. l \in Nat /\ l < k /\ l >= 1
      BY <2>2, DivBelow
    <3>2. l \in 0..(k - 1)
      BY <3>1
    <3>3. Digits[k] = 1 + Digits[l]
      BY <2>2, DigitsRec, FragmentAssumption
    <3>4. Digits[l] \in Nat \ {0} /\ Digits[l] <= l
      BY <1>1, <3>1, <3>2
    <3> HIDE DEF l
    <3> QED
      BY <3>1, <3>3, <3>4
  <2> QED
    BY <2>1, <2>2, FragmentAssumption
<1>2. Nat \subseteq T
  <2> HIDE DEF T
  <2> QED
    BY <1>1, StrongInduction
<1>3. 0 < Radix
  BY FragmentAssumption
<1> QED
  BY <1>2, <1>3, DigitsRec

\* A header has at least one byte for each of its two numbers.
LEMMA HeaderLenType ==
  ASSUME NEW i \in Nat, NEW n \in Nat
  PROVE  HeaderLen(i, n) \in Nat \ {0} /\ HeaderLen(i, n) = Base + Digits[i] + Digits[n]
<1>1. Digits[i] \in Nat \ {0} /\ Digits[n] \in Nat \ {0}
  BY DigitsBounds
<1> QED
  BY <1>1, FragmentAssumption DEF HeaderLen

\* The longest header is that of some frame, and no header is longer.
LEMMA OverheadIsMax ==
  ASSUME NEW n \in Nat \ {0}
  PROVE  /\ Overhead(n) \in Nat \ {0}
         /\ \A i \in 0..(n - 1) : HeaderLen(i, n) <= Overhead(n)
         /\ \E i \in 0..(n - 1) : Overhead(n) = HeaderLen(i, n)
<1> DEFINE S == {HeaderLen(i, n) : i \in 0..(n - 1)}
           U == {u \in Nat : \A x \in S : x <= u}
<1>1. \A i \in 0..(n - 1) : HeaderLen(i, n) \in Nat \ {0}
  BY HeaderLenType
<1>2. U # {}
  <2> DEFINE u == Base + n + Digits[n] + 1
  <2>1. Digits[n] \in Nat /\ Base \in Nat
    BY DigitsBounds, FragmentAssumption
  <2>2. \A i \in 0..(n - 1) : HeaderLen(i, n) <= u
    <3> TAKE i \in 0..(n - 1)
    <3>1. Digits[i] \in Nat /\ Digits[i] <= n
      BY DigitsBounds
    <3>2. HeaderLen(i, n) = Base + Digits[i] + Digits[n]
      BY DEF HeaderLen
    <3> QED
      BY <2>1, <3>1, <3>2
  <2>3. u \in Nat
    BY <2>1
  <2> HIDE DEF u
  <2> QED
    BY <2>2, <2>3
<1>3. PICK top \in U : \A k \in U : ~ (k < top)
  <2> HIDE DEF S
  <2>1. U \in SUBSET Nat
    OBVIOUS
  <2> HIDE DEF U
  <2> QED
    BY <1>2, <2>1, LeastOf
<1>4. top \in S
  <2> SUFFICES ASSUME top \notin S PROVE FALSE
    OBVIOUS
  <2>1. \A x \in S : x \in Nat \ {0} /\ x <= top /\ x # top
    BY <1>1, <1>3
  <2>2. top >= 1
    <3>1. HeaderLen(0, n) \in S
      OBVIOUS
    <3> QED
      BY <1>3, <2>1, <3>1
  <2>3. top - 1 \in Nat /\ \A x \in S : x <= top - 1
    BY <1>3, <2>1, <2>2
  <2> QED
    BY <1>3, <2>3
<1>5. Max(S) = top
  <2>1. \A x \in S : x <= top /\ x \in Nat
    BY <1>1, <1>3
  <2>2. \A x \in S : (\A y \in S : x >= y) => x = top
    BY <1>3, <1>4, <2>1
  <2>3. \A y \in S : top >= y
    BY <1>3, <2>1
  <2> HIDE DEF S
  <2> QED
    BY <1>4, <2>2, <2>3 DEF Max
<1>6. Overhead(n) = top
  BY <1>5 DEF Overhead
<1> QED
  BY <1>1, <1>3, <1>4, <1>6

\* The maximum of two numbers is one of them.
LEMMA MaxOfTwo ==
  ASSUME NEW a \in Int, NEW b \in Int
  PROVE  Max({a, b}) = IF a >= b THEN a ELSE b
<1>1. \A x \in {a, b} : (\A y \in {a, b} : x >= y) <=> x = IF a >= b THEN a ELSE b
  OBVIOUS
<1>2. (IF a >= b THEN a ELSE b) \in {a, b}
  OBVIOUS
<1> QED
  BY <1>1, <1>2 DEF Max

\* The number of chunks of c that k takes, rounded up.
LEMMA Ceil ==
  ASSUME NEW k \in Nat, NEW c \in Nat \ {0}
  PROVE  /\ (k + c - 1) \div c \in Nat
         /\ c * ((k + c - 1) \div c) >= k
         /\ c * ((k + c - 1) \div c) <= k + c - 1
OBVIOUS

\* The number of pieces is enough for the payload, and one less is not.
LEMMA PiecesSuffice ==
  ASSUME NEW l \in Nat, NEW mtu \in Nat, NEW o \in Nat, NEW p, p = Pieces(l, mtu, o)
  PROVE  /\ p \in Nat \ {0}
         /\ (l = 0 => p = 1)
         /\ o < mtu => p * (mtu - o) >= l
         /\ p >= 2 => \E c \in Nat \ {0} : c >= mtu - o /\ c * (p - 1) + 1 <= l
<1> DEFINE c == IF 1 >= mtu - o THEN 1 ELSE mtu - o
           q == (l + c - 1) \div c
<1>1. Max({1, mtu - o}) = c
  BY MaxOfTwo
<1>2. c \in Nat \ {0} /\ c >= mtu - o /\ (o < mtu => c = mtu - o)
  OBVIOUS
<1>3. Pieces(l, mtu, o) = Max({1, q})
  BY <1>1 DEF Pieces
<1> HIDE DEF c
<1>4. q \in Nat /\ c * q >= l /\ c * q <= l + c - 1
  BY <1>2, Ceil
<1>5. l = 0 => q = 0
  <2> SUFFICES ASSUME l = 0, q >= 1 PROVE FALSE
    BY <1>4
  <2>1. c * q >= c
    BY <1>2, <1>4
  <2> HIDE DEF q
  <2> QED
    BY <1>2, <1>4, <2>1
<1> HIDE DEF q
<1>6. p = IF 1 >= q THEN 1 ELSE q
  BY <1>3, <1>4, MaxOfTwo
<1>7. p \in Nat \ {0} /\ p >= q
  BY <1>4, <1>6
<1>8. c * p >= l
  <2>1. c * p >= c * q
    BY <1>2, <1>4, <1>7
  <2>2. c * p \in Nat /\ c * q \in Nat
    BY <1>2, <1>4, <1>7
  <2> QED
    BY <1>4, <2>1, <2>2
<1>9. ASSUME p >= 2 PROVE c * (p - 1) + 1 <= l
  <2>1. p = q
    BY <1>4, <1>6, <1>9
  <2>2. c * (p - 1) = c * p - c /\ c * p \in Int
    BY <1>2, <1>7
  <2> QED
    BY <1>2, <1>4, <2>1, <2>2
<1>10. o < mtu => p * (mtu - o) >= l
  <2> SUFFICES ASSUME o < mtu PROVE p * (mtu - o) >= l
    OBVIOUS
  <2>1. c = mtu - o
    BY <1>2
  <2>2. p * (mtu - o) = c * p
    BY <1>2, <1>7, <2>1
  <2> QED
    BY <1>8, <2>2
<1> QED
  BY <1>2, <1>5, <1>6, <1>7, <1>9, <1>10

-----------------------------------------------------------------------------
(***************************************************************************)
(* Joining sequences                                                       *)
(***************************************************************************)

\* g joins the sequences of seqs one after the other.
Joins(g, seqs) ==
  \A k \in 1..Len(seqs) : g[k] = IF k = 1 THEN seqs[k] ELSE g[k - 1] \o seqs[k]

\* Two functions that do so are the same.
LEMMA JoinsAgree ==
  ASSUME NEW seqs, Len(seqs) \in Nat, NEW f, NEW g, Joins(f, seqs), Joins(g, seqs)
  PROVE  \A k \in 1..Len(seqs) : f[k] = g[k]
<1> DEFINE T == {k \in Nat : k \in 1..Len(seqs) => f[k] = g[k]}
<1>1. 0 \in T
  OBVIOUS
<1>2. ASSUME NEW k \in Nat, k \in T
      PROVE  k + 1 \in T
  <2> SUFFICES ASSUME k + 1 \in 1..Len(seqs) PROVE f[k + 1] = g[k + 1]
    OBVIOUS
  <2>1. /\ f[k + 1] = IF k + 1 = 1 THEN seqs[k + 1] ELSE f[(k + 1) - 1] \o seqs[k + 1]
        /\ g[k + 1] = IF k + 1 = 1 THEN seqs[k + 1] ELSE g[(k + 1) - 1] \o seqs[k + 1]
    BY DEF Joins
  <2>2. (k + 1) - 1 = k
    OBVIOUS
  <2>3. CASE k = 0
    BY <2>1, <2>3
  <2>4. CASE k # 0
    <3>1. k \in 1..Len(seqs) /\ k + 1 # 1
      BY <2>4
    <3>2. f[k] = g[k]
      BY <1>2, <3>1
    <3> QED
      BY <2>1, <2>2, <3>1, <3>2
  <2> QED
    BY <2>3, <2>4
<1>3. Nat \subseteq T
  <2> HIDE DEF T
  <2> QED
    BY <1>1, <1>2, SetInduction
<1> QED
  BY <1>3

\* g does so for the first k of them, of elements of S.
JoinsUpTo(g, seqs, S, k) ==
  /\ g \in [1..k -> Seq(S)]
  /\ \A j \in 1..k : g[j] = IF j = 1 THEN seqs[j] ELSE g[j - 1] \o seqs[j]

\* Such a g exists.
LEMMA JoinsExist ==
  ASSUME NEW S, NEW seqs \in Seq(Seq(S))
  PROVE  \E g \in [1..Len(seqs) -> Seq(S)] : Joins(g, seqs)
<1> DEFINE n == Len(seqs)
           T == {k \in Nat : k <= n => \E g : JoinsUpTo(g, seqs, S, k)}
<1>1. n \in Nat /\ \A k \in 1..n : seqs[k] \in Seq(S)
  BY LenProperties, ElementOfSeq
<1>2. 0 \in T
  <2> DEFINE g == [j \in 1..0 |-> <<>>]
  <2>1. JoinsUpTo(g, seqs, S, 0)
    BY DEF JoinsUpTo
  <2> HIDE DEF g
  <2> QED
    BY <2>1
<1>3. ASSUME NEW k \in Nat, k \in T
      PROVE  k + 1 \in T
  <2> SUFFICES ASSUME k + 1 <= n PROVE \E g : JoinsUpTo(g, seqs, S, k + 1)
    OBVIOUS
  <2>1. PICK f : JoinsUpTo(f, seqs, S, k)
    BY <1>1, <1>3
  <2> DEFINE new == IF k = 0 THEN seqs[1] ELSE f[k] \o seqs[k + 1]
             g == [j \in 1..(k + 1) |-> IF j = k + 1 THEN new ELSE f[j]]
  <2>2. new \in Seq(S)
    <3>1. seqs[k + 1] \in Seq(S) /\ (k # 0 => f[k] \in Seq(S))
      BY <1>1, <2>1 DEF JoinsUpTo
    <3> QED
      BY <3>1, ConcatProperties
  <2> HIDE DEF new
  <2>3. g \in [1..(k + 1) -> Seq(S)]
    BY <2>1, <2>2 DEF JoinsUpTo
  <2>4. g[k + 1] = new /\ \A j \in 1..k : g[j] = f[j]
    OBVIOUS
  <2> HIDE DEF g
  <2>5. ASSUME NEW j \in 1..(k + 1)
        PROVE  g[j] = IF j = 1 THEN seqs[j] ELSE g[j - 1] \o seqs[j]
    <3>1. CASE j = k + 1
      <4>1. j - 1 = k /\ (j = 1 <=> k = 0)
        BY <3>1
      <4>2. k # 0 => g[k] = f[k]
        BY <2>4
      <4>3. CASE k = 0
        BY <2>4, <3>1, <4>1, <4>3 DEF new
      <4>4. CASE k # 0
        BY <2>4, <3>1, <4>1, <4>2, <4>4 DEF new
      <4> QED
        BY <4>3, <4>4
    <3>2. CASE j # k + 1
      <4>1. j \in 1..k /\ (j # 1 => j - 1 \in 1..k)
        BY <3>2
      <4>2. f[j] = IF j = 1 THEN seqs[j] ELSE f[j - 1] \o seqs[j]
        BY <2>1, <4>1 DEF JoinsUpTo
      <4> QED
        BY <2>4, <4>1, <4>2
    <3> QED
      BY <3>1, <3>2
  <2>6. JoinsUpTo(g, seqs, S, k + 1)
    BY <2>3, <2>5 DEF JoinsUpTo
  <2> QED
    BY <2>6
<1>4. Nat \subseteq T
  <2> HIDE DEF T
  <2> QED
    BY <1>2, <1>3, SetInduction
<1>5. PICK g : JoinsUpTo(g, seqs, S, n)
  BY <1>1, <1>4
<1> QED
  BY <1>5 DEF Joins, JoinsUpTo

\* FlattenSeq returns the last value of the function that joins.
LEMMA FlattenIsLast ==
  ASSUME NEW S, NEW seqs \in Seq(Seq(S)), NEW g, Joins(g, seqs), Len(seqs) # 0
  PROVE  FlattenSeq(seqs) = g[Len(seqs)]
<1> DEFINE flatten == CHOOSE f : f = [i \in 1..Len(seqs) |->
                                         IF i = 1 THEN seqs[i] ELSE f[i - 1] \o seqs[i]]
<1>1. Len(seqs) \in Nat /\ Len(seqs) \in 1..Len(seqs)
  BY LenProperties
<1>2. PICK h \in [1..Len(seqs) -> Seq(S)] : Joins(h, seqs)
  BY JoinsExist
<1>3. h = [i \in 1..Len(seqs) |-> IF i = 1 THEN seqs[i] ELSE h[i - 1] \o seqs[i]]
  BY <1>2 DEF Joins
<1>4. flatten = [i \in 1..Len(seqs) |->
                   IF i = 1 THEN seqs[i] ELSE flatten[i - 1] \o seqs[i]]
  BY <1>3
<1>5. FlattenSeq(seqs) = flatten[Len(seqs)]
  BY DEF FlattenSeq
<1> HIDE DEF flatten
<1>6. Joins(flatten, seqs)
  BY <1>4 DEF Joins
<1> QED
  BY <1>1, <1>5, <1>6, JoinsAgree

\* Nothing joined is nothing.
LEMMA FlattenEmpty == FlattenSeq(<<>>) = <<>>
BY DEF FlattenSeq

\* What is joined is of the same elements.
LEMMA FlattenType ==
  ASSUME NEW S, NEW seqs \in Seq(Seq(S))
  PROVE  FlattenSeq(seqs) \in Seq(S)
<1>1. CASE Len(seqs) = 0
  <2>1. seqs = <<>>
    BY <1>1, EmptySeq
  <2> QED
    BY <2>1, FlattenEmpty, EmptySeq
<1>2. CASE Len(seqs) # 0
  <2>1. PICK g \in [1..Len(seqs) -> Seq(S)] : Joins(g, seqs)
    BY JoinsExist
  <2>2. FlattenSeq(seqs) = g[Len(seqs)]
    BY <1>2, <2>1, FlattenIsLast
  <2>3. Len(seqs) \in 1..Len(seqs)
    BY <1>2, LenProperties
  <2> QED
    BY <2>2, <2>3
<1> QED
  BY <1>1, <1>2

\* One sequence more comes after those before it.
LEMMA FlattenAppend ==
  ASSUME NEW S, NEW seqs \in Seq(Seq(S)), NEW x \in Seq(S)
  PROVE  FlattenSeq(Append(seqs, x)) = FlattenSeq(seqs) \o x
<1> DEFINE n == Len(seqs)
           more == Append(seqs, x)
<1>1. /\ n \in Nat /\ more \in Seq(Seq(S)) /\ Len(more) = n + 1 /\ more[n + 1] = x
      /\ \A k \in 1..n : more[k] = seqs[k]
  BY AppendProperties, LenProperties
<1> HIDE DEF more
<1>2. PICK g \in [1..(n + 1) -> Seq(S)] : Joins(g, more)
  BY <1>1, JoinsExist
<1>3. FlattenSeq(more) = g[n + 1]
  BY <1>1, <1>2, FlattenIsLast
<1>4. g[n + 1] = IF n + 1 = 1 THEN x ELSE g[n] \o x
  <2>1. n + 1 \in 1..Len(more) /\ (n + 1) - 1 = n
    BY <1>1
  <2> QED
    BY <1>1, <1>2, <2>1 DEF Joins
<1>5. CASE n = 0
  <2>1. FlattenSeq(seqs) = <<>>
    <3>1. seqs = <<>>
      BY <1>5, EmptySeq
    <3> QED
      BY <3>1, FlattenEmpty
  <2>2. <<>> \o x = x
    BY ConcatEmptySeq
  <2> QED
    BY <1>3, <1>4, <1>5, <2>1, <2>2 DEF more
<1>6. CASE n # 0
  <2>1. Joins(g, seqs)
    <3>1. ASSUME NEW k \in 1..n
          PROVE  g[k] = IF k = 1 THEN seqs[k] ELSE g[k - 1] \o seqs[k]
      <4>1. k \in 1..(n + 1) /\ more[k] = seqs[k]
        BY <1>1
      <4> QED
        BY <1>1, <1>2, <4>1 DEF Joins
    <3> QED
      BY <3>1 DEF Joins
  <2>2. FlattenSeq(seqs) = g[n]
    BY <1>6, <2>1, FlattenIsLast
  <2> QED
    BY <1>1, <1>3, <1>4, <1>6, <2>2 DEF more
<1> QED
  BY <1>5, <1>6

\* x is an element of one of the sequences.
Within(x, seqs) == \E j \in 1..Len(seqs) : \E i \in 1..Len(seqs[j]) : x = seqs[j][i]

\* Every element of what is joined is one of a sequence that is.
LEMMA FlattenElements ==
  ASSUME NEW S, NEW seqs \in Seq(Seq(S)), NEW p \in 1..Len(FlattenSeq(seqs))
  PROVE  Within(FlattenSeq(seqs)[p], seqs)
<1> DEFINE n == Len(seqs)
<1>1. n \in Nat /\ \A k \in 1..n : seqs[k] \in Seq(S)
  BY LenProperties, ElementOfSeq
<1>2. n # 0
  <2>1. n = 0 => seqs = <<>>
    BY EmptySeq
  <2>2. Len(<<>>) = 0
    BY EmptySeq
  <2> QED
    BY <2>1, <2>2, FlattenEmpty
<1>3. PICK g \in [1..n -> Seq(S)] : Joins(g, seqs)
  BY JoinsExist
<1> DEFINE T == {k \in Nat : k \in 1..n => \A q \in 1..Len(g[k]) : Within(g[k][q], seqs)}
<1>4. 0 \in T
  OBVIOUS
<1>5. ASSUME NEW k \in Nat, k \in T
      PROVE  k + 1 \in T
  <2> SUFFICES ASSUME k + 1 \in 1..n, NEW q \in 1..Len(g[k + 1]) PROVE Within(g[k + 1][q], seqs)
    OBVIOUS
  <2>1. g[k + 1] = IF k + 1 = 1 THEN seqs[k + 1] ELSE g[k] \o seqs[k + 1]
    <3>1. (k + 1) - 1 = k
      OBVIOUS
    <3> QED
      BY <1>3, <3>1 DEF Joins
  <2>2. CASE k = 0
    <3>1. g[k + 1] = seqs[k + 1] /\ k + 1 \in 1..n
      BY <2>1, <2>2
    <3> QED
      BY <3>1, Zenon DEF Within
  <2>3. CASE k # 0
    <3>1. k \in 1..n
      BY <2>3
    <3>2. g[k] \in Seq(S) /\ seqs[k + 1] \in Seq(S)
      BY <1>1, <1>3, <3>1
    <3>3. g[k + 1] = g[k] \o seqs[k + 1]
      <4>1. k + 1 # 1
        BY <2>3
      <4> QED
        BY <2>1, <4>1
    <3>4. /\ Len(g[k]) \in Nat /\ Len(seqs[k + 1]) \in Nat
          /\ Len(g[k + 1]) = Len(g[k]) + Len(seqs[k + 1])
          /\ g[k + 1][q] = IF q <= Len(g[k]) THEN g[k][q] ELSE seqs[k + 1][q - Len(g[k])]
      BY <3>2, <3>3, ConcatProperties, LenProperties
    <3>5. CASE q <= Len(g[k])
      <4>1. q \in 1..Len(g[k]) /\ g[k + 1][q] = g[k][q]
        BY <3>4, <3>5
      <4> QED
        BY <1>5, <3>1, <4>1
    <3>6. CASE ~ (q <= Len(g[k]))
      <4>1. q - Len(g[k]) \in 1..Len(seqs[k + 1])
        <5> DEFINE a == Len(g[k])
                   b == Len(seqs[k + 1])
        <5>1. a \in Nat /\ b \in Nat /\ q \in 1..(a + b) /\ ~ (q <= a)
          BY <3>4, <3>6
        <5> HIDE DEF a, b
        <5>2. q - a \in 1..b
          BY <5>1
        <5> QED
          BY <5>2 DEF a, b
      <4>2. g[k + 1][q] = seqs[k + 1][q - Len(g[k])]
        BY <3>4, <3>6
      <4> QED
        BY <4>1, <4>2, Zenon DEF Within
    <3> QED
      BY <3>5, <3>6
  <2> QED
    BY <2>2, <2>3
<1>6. Nat \subseteq T
  <2> HIDE DEF T
  <2> QED
    BY <1>4, <1>5, SetInduction
<1>7. FlattenSeq(seqs) = g[n] /\ n \in 1..n
  BY <1>1, <1>2, <1>3, FlattenIsLast
<1>8. n \in T
  BY <1>1, <1>6, Zenon
<1>9. \A q \in 1..Len(g[n]) : Within(g[n][q], seqs)
  BY <1>7, <1>8
<1> QED
  BY <1>7, <1>9

\* Of two lists of sequences that agree but at one place and are the same when
\* joined, both have the same at that place.
LEMMA FlattenCancels ==
  ASSUME NEW S, NEW s \in Seq(Seq(S)), NEW t \in Seq(Seq(S)), Len(s) = Len(t),
         NEW q \in 1..Len(s), \A k \in 1..Len(s) : k # q => s[k] = t[k],
         FlattenSeq(s) = FlattenSeq(t)
  PROVE  s[q] = t[q]
<1> DEFINE n == Len(s)
<1>1. n \in Nat /\ n # 0 /\ \A k \in 1..n : s[k] \in Seq(S) /\ t[k] \in Seq(S)
  BY LenProperties, ElementOfSeq
<1>2. PICK f \in [1..n -> Seq(S)] : Joins(f, s)
  BY JoinsExist
<1>3. PICK g \in [1..n -> Seq(S)] : Joins(g, t)
  BY JoinsExist
<1>4. f[n] = g[n]
  BY <1>1, <1>2, <1>3, FlattenIsLast
<1>5. \A k \in 1..n : /\ f[k] = IF k = 1 THEN s[k] ELSE f[k - 1] \o s[k]
                      /\ g[k] = IF k = 1 THEN t[k] ELSE g[k - 1] \o t[k]
  BY <1>2, <1>3 DEF Joins
<1>6. f[q] = g[q]
  <2> DEFINE T == {d \in Nat : n - d >= q => f[n - d] = g[n - d]}
  <2>1. 0 \in T
    BY <1>1, <1>4
  <2>2. ASSUME NEW d \in Nat, d \in T
        PROVE  d + 1 \in T
    <3> SUFFICES ASSUME n - (d + 1) >= q PROVE f[n - (d + 1)] = g[n - (d + 1)]
      OBVIOUS
    <3> DEFINE k == n - d
    <3>1. k \in 1..n /\ k # 1 /\ k # q /\ k >= q /\ n - (d + 1) = k - 1 /\ k - 1 \in 1..n
      <4>1. n \in Nat /\ q \in Nat /\ 1 <= q /\ q <= n
        BY <1>1
      <4> HIDE DEF n
      <4> QED
        BY <4>1
    <3>2. f[k] = g[k]
      BY <2>2, <3>1
    <3> HIDE DEF k
    <3>3. f[k] = f[k - 1] \o s[k] /\ g[k] = g[k - 1] \o s[k]
      BY <1>5, <3>1
    <3>4. f[k - 1] \in Seq(S) /\ g[k - 1] \in Seq(S) /\ s[k] \in Seq(S)
      BY <1>1, <1>2, <1>3, <3>1
    <3>5. f[k - 1] = g[k - 1]
      BY <3>2, <3>3, <3>4, ConcatSimplifications
    <3> QED
      BY <3>1, <3>5
  <2>3. Nat \subseteq T
    <3> HIDE DEF T
    <3> QED
      BY <2>1, <2>2, SetInduction
  <2>4. n - q \in Nat /\ n - (n - q) = q
    BY <1>1
  <2>5. n - q \in T
    BY <2>3, <2>4
  <2> QED
    BY <2>4, <2>5
<1>7. CASE q = 1
  BY <1>5, <1>6, <1>7
<1>8. CASE q # 1
  <2>1. f[q - 1] = g[q - 1]
    <3> DEFINE T == {k \in Nat : k \in 1..(q - 1) => f[k] = g[k]}
    <3>1. 0 \in T
      OBVIOUS
    <3>2. ASSUME NEW k \in Nat, k \in T
          PROVE  k + 1 \in T
      <4> SUFFICES ASSUME k + 1 \in 1..(q - 1) PROVE f[k + 1] = g[k + 1]
        OBVIOUS
      <4>1. k + 1 \in 1..n /\ k + 1 # q /\ (k + 1) - 1 = k /\ (k # 0 => k \in 1..(q - 1))
        BY <1>1
      <4>2. s[k + 1] = t[k + 1] /\ (k # 0 => f[k] = g[k])
        BY <3>2, <4>1
      <4>3. CASE k = 0
        <5>1. k + 1 = 1 /\ 1 \in 1..n
          BY <1>1, <4>3
        <5>2. f[1] = s[1] /\ g[1] = t[1]
          BY <1>5, <5>1
        <5> QED
          BY <4>2, <5>1, <5>2
      <4>4. CASE k # 0
        <5>1. k + 1 # 1 /\ f[k] = g[k]
          BY <4>1, <4>2, <4>4
        <5>2. f[k + 1] = f[k] \o s[k + 1] /\ g[k + 1] = g[k] \o t[k + 1]
          BY <1>5, <4>1, <5>1
        <5> QED
          BY <4>2, <5>1, <5>2
      <4> QED
        BY <4>3, <4>4
    <3>3. Nat \subseteq T
      <4> HIDE DEF T
      <4> QED
        BY <3>1, <3>2, SetInduction
    <3>4. q - 1 \in Nat /\ q - 1 \in 1..(q - 1)
      BY <1>8
    <3> QED
      BY <3>3, <3>4
  <2>2. f[q] = f[q - 1] \o s[q] /\ g[q] = f[q - 1] \o t[q]
    BY <1>5, <1>8, <2>1
  <2>3. f[q - 1] \in Seq(S) /\ s[q] \in Seq(S) /\ t[q] \in Seq(S)
    <3>1. q - 1 \in 1..n
      BY <1>1, <1>8
    <3> QED
      BY <1>1, <1>2, <3>1
  <2> QED
    BY <1>6, <2>2, <2>3, ConcatSimplifications
<1> QED
  BY <1>7, <1>8

-----------------------------------------------------------------------------
(***************************************************************************)
(* Cutting a payload                                                       *)
(***************************************************************************)

Byte == Message \X Nat

\* The bodies of frames.
Bodies(fs) == [k \in 1..Len(fs) |-> fs[k].body]

\* f is the k-th frame of a call for m, cut from the bytes up to its offset.
CutFrom(f, k, m, c) ==
  /\ f.digest = m /\ f.i = k - 1 /\ f.n = c.total
  /\ Size(f) <= c.mtu
  /\ \A p \in 1..Len(f.body) : f.body[p] \in {m} \X (1..c.offset)

\* The number of frames is the one the search for it settled on, and they hold
\* the payload up to the offset.
GoodCut(m, c) ==
  /\ c.total <= MaxFragments
  /\ c.total = Pieces(Length[m], c.mtu, Overhead(c.total))
  /\ Len(c.frames) <= c.total
  /\ FlattenSeq(Bodies(c.frames)) = Bytes(m, 0, c.offset)
  /\ Overhead(c.total) < c.mtu =>
       \/ c.offset = Length[m]
       \/ c.offset >= Len(c.frames) * (c.mtu - Overhead(c.total))

GoodCall(m, c) ==
  /\ c \in [phase : {"count", "cut", "done", "raised"}, mtu : Nat \ {0}, offset : Nat,
            frames : Seq(Frame), total : Nat \ {0}]
  /\ c.offset <= Length[m]
  /\ \A k \in 1..Len(c.frames) : CutFrom(c.frames[k], k, m, c)
  /\ c.phase \in {"count", "raised"} => c.frames = <<>>
  /\ c.phase = "count" => c.offset = 0
  /\ c.phase \in {"cut", "done"} => GoodCut(m, c)
  /\ c.phase = "done" => Len(c.frames) = c.total

CallsInv ==
  /\ path \in {"stream", "datagrams"}
  /\ DOMAIN call = IF path = "datagrams" THEN Message ELSE {}
  /\ \A m \in DOMAIN call : GoodCall(m, call[m])

\* What arrives is a frame that was cut, or an altered one.
Arriving == AllFrames \cup UNION {Variants(f) : f \in AllFrames}

\* The datagrams but k are as they were sent.
AllButOneGenuine ==
  \E j \in 1..Len(got) : \A k \in 1..Len(got) : k # j => got[k] \in AllFrames

GotInv ==
  /\ got \in Seq(Arriving)
  /\ got # <<>> => path = "datagrams" /\ Ended
  /\ altered \in Nat /\ altered <= Len(got)
  /\ altered = 0 => \A k \in 1..Len(got) : got[k] \in AllFrames
  /\ altered = 1 => AllButOneGenuine

\* The sizes of frames count their headers and their bodies.
LEMMA FrameSize ==
  ASSUME NEW f \in Frame
  PROVE  /\ Size(f) = HeaderLen(f.i, f.n) + Len(f.body) /\ Size(f) \in Nat
         /\ HeaderLen(f.i, f.n) \in Nat /\ Len(f.body) \in Nat
<1>1. f.i \in Nat /\ f.n \in Nat /\ f.body \in Seq(Byte)
  BY DEF Frame, Byte
<1>2. HeaderLen(f.i, f.n) \in Nat /\ Len(f.body) \in Nat
  BY <1>1, HeaderLenType, LenProperties
<1> QED
  BY <1>2 DEF Size

\* The bodies of frames are sequences of bytes.
LEMMA BodiesType ==
  ASSUME NEW fs \in Seq(Frame)
  PROVE  /\ Bodies(fs) \in Seq(Seq(Byte)) /\ Len(Bodies(fs)) = Len(fs)
         /\ \A k \in 1..Len(fs) : Bodies(fs)[k] = fs[k].body
<1>1. Len(fs) \in Nat /\ \A k \in 1..Len(fs) : fs[k].body \in Seq(Byte)
  <2>1. \A k \in 1..Len(fs) : fs[k] \in Frame
    BY ElementOfSeq
  <2> QED
    BY <2>1, LenProperties DEF Frame, Byte
<1> QED
  BY <1>1 DEF Bodies

\* One frame more is one body more.
LEMMA BodiesAppend ==
  ASSUME NEW fs \in Seq(Frame), NEW f \in Frame
  PROVE  Bodies(Append(fs, f)) = Append(Bodies(fs), f.body)
<1> DEFINE n == Len(fs)
           more == Append(fs, f)
<1>1. /\ n \in Nat /\ more \in Seq(Frame) /\ Len(more) = n + 1 /\ more[n + 1] = f
      /\ \A k \in 1..n : more[k] = fs[k]
  BY AppendProperties, LenProperties
<1> HIDE DEF more
<1>2. /\ Bodies(fs) \in Seq(Seq(Byte)) /\ Len(Bodies(fs)) = n
      /\ \A k \in 1..n : Bodies(fs)[k] = fs[k].body
  BY BodiesType
<1>3. f.body \in Seq(Byte)
  BY DEF Frame, Byte
<1> DEFINE b == Append(Bodies(fs), f.body)
<1>4. /\ b \in Seq(Seq(Byte)) /\ Len(b) = n + 1 /\ b[n + 1] = f.body
      /\ \A k \in 1..n : b[k] = Bodies(fs)[k]
  BY <1>2, <1>3, AppendProperties
<1> HIDE DEF b
<1>5. /\ Bodies(more) \in Seq(Seq(Byte)) /\ Len(Bodies(more)) = n + 1
      /\ \A k \in 1..(n + 1) : Bodies(more)[k] = more[k].body
  BY <1>1, BodiesType
<1>6. \A k \in 1..(n + 1) : Bodies(more)[k] = b[k]
  <2> TAKE k \in 1..(n + 1)
  <2>1. CASE k = n + 1
    BY <1>1, <1>4, <1>5, <2>1
  <2>2. CASE k # n + 1
    <3>1. k \in 1..n
      BY <1>1, <2>2
    <3> QED
      BY <1>1, <1>2, <1>4, <1>5, <3>1
  <2> QED
    BY <2>1, <2>2
<1>7. Bodies(more) = b
  BY <1>4, <1>5, <1>6, SeqEqual
<1> QED
  BY <1>7 DEF more, b

\* Adjacent parts of a payload.
LEMMA BytesJoin ==
  ASSUME NEW m \in Message, NEW a \in Nat, NEW b \in Nat, a <= b
  PROVE  Bytes(m, 0, a) \o Bytes(m, a, b) = Bytes(m, 0, b)
<1> DEFINE x == Bytes(m, 0, a)
           y == Bytes(m, a, b)
           z == Bytes(m, 0, b)
<1>1. /\ x \in Seq(Byte) /\ y \in Seq(Byte) /\ z \in Seq(Byte)
      /\ Len(x) = a /\ Len(y) = b - a /\ Len(z) = b
      /\ \A k \in 1..a : x[k] = <<m, k>>
      /\ \A k \in 1..(b - a) : y[k] = <<m, a + k>>
      /\ \A k \in 1..b : z[k] = <<m, k>>
  <2>0. 0 \in Nat /\ 0 <= a /\ 0 <= b
    OBVIOUS
  <2>1. /\ x \in Seq(Byte) /\ Len(x) = a - 0 /\ \A k \in 1..(a - 0) : x[k] = <<m, 0 + k>>
    BY <2>0, BytesType, Zenon DEF Byte
  <2>2. y \in Seq(Byte) /\ Len(y) = b - a /\ \A k \in 1..(b - a) : y[k] = <<m, a + k>>
    BY BytesType DEF Byte
  <2>3. /\ z \in Seq(Byte) /\ Len(z) = b - 0 /\ \A k \in 1..(b - 0) : z[k] = <<m, 0 + k>>
    BY <2>0, BytesType, Zenon DEF Byte
  <2> HIDE DEF x, y, z
  <2> QED
    BY <2>1, <2>2, <2>3
<1> HIDE DEF x, y, z
<1>2. /\ x \o y \in Seq(Byte) /\ Len(x \o y) = a + (b - a)
      /\ \A k \in 1..(a + (b - a)) : (x \o y)[k] = IF k <= a THEN x[k] ELSE y[k - a]
  BY <1>1, ConcatProperties
<1>3. \A k \in 1..b : (x \o y)[k] = z[k]
  <2> TAKE k \in 1..b
  <2>1. k \in 1..(a + (b - a))
    OBVIOUS
  <2>2. CASE k <= a
    <3>1. k \in 1..a
      BY <2>2
    <3> QED
      BY <1>1, <1>2, <2>1, <2>2, <3>1
  <2>3. CASE ~ (k <= a)
    <3>1. k - a \in 1..(b - a) /\ a + (k - a) = k
      BY <2>3
    <3> QED
      BY <1>1, <1>2, <2>1, <2>3, <3>1
  <2> QED
    BY <2>2, <2>3
<1>4. x \o y = z
  BY <1>1, <1>2, <1>3, SeqEqual, SMTT(40)
<1> QED
  BY <1>4 DEF x, y, z

\* Each turn of the search keeps a call as it should be.
LEMMA CountKeepsCall ==
  ASSUME NEW m \in Message, NEW c, GoodCall(m, c), c.phase = "count",
         NEW new, new = Pieces(Length[m], c.mtu, Overhead(c.total))
  PROVE  /\ GoodCall(m, [c EXCEPT !.total = new])
         /\ GoodCall(m, [c EXCEPT !.phase = "raised"])
         /\ new = c.total /\ ~ (c.total > MaxFragments) =>
              GoodCall(m, [c EXCEPT !.phase = "cut"])
<1>1. /\ c \in [phase : {"count", "cut", "done", "raised"}, mtu : Nat \ {0}, offset : Nat,
                frames : Seq(Frame), total : Nat \ {0}]
      /\ c.offset = 0 /\ c.frames = <<>> /\ Length[m] \in Nat /\ c.offset <= Length[m]
  BY PayloadAssumption DEF GoodCall
<1>2. new \in Nat \ {0}
  BY <1>1, PiecesSuffice, OverheadIsMax
<1>3. Len(<<>>) = 0
  OBVIOUS
<1>4. GoodCall(m, [c EXCEPT !.total = new])
  BY <1>1, <1>2, <1>3 DEF GoodCall
<1>5. GoodCall(m, [c EXCEPT !.phase = "raised"])
  BY <1>1, <1>3 DEF GoodCall
<1>6. ASSUME new = c.total, ~ (c.total > MaxFragments)
      PROVE  GoodCall(m, [c EXCEPT !.phase = "cut"])
  <2> DEFINE d == [c EXCEPT !.phase = "cut"]
  <2>1. /\ d.phase = "cut" /\ d.mtu = c.mtu /\ d.offset = 0 /\ d.frames = <<>>
        /\ d.total = c.total /\ c.total \in Nat \ {0} /\ c.mtu \in Nat \ {0}
        /\ d \in [phase : {"count", "cut", "done", "raised"}, mtu : Nat \ {0}, offset : Nat,
                  frames : Seq(Frame), total : Nat \ {0}]
    BY <1>1
  <2> HIDE DEF d
  <2>2. d.total <= MaxFragments /\ d.total = Pieces(Length[m], d.mtu, Overhead(d.total))
    <3>1. c.total <= MaxFragments
      BY <1>6, <2>1, FragmentAssumption
    <3>2. c.total = Pieces(Length[m], c.mtu, Overhead(c.total))
      BY <1>6
    <3> QED
      BY <2>1, <3>1, <3>2, Zenon
  <2>3. FlattenSeq(Bodies(d.frames)) = Bytes(m, 0, d.offset)
    <3>1. Bodies(<<>>) = <<>>
      BY <1>3 DEF Bodies
    <3>2. Bytes(m, 0, 0) = <<>>
      BY DEF Bytes
    <3> QED
      BY <2>1, <3>1, <3>2, FlattenEmpty
  <2>4. Len(d.frames) <= d.total
    BY <1>3, <2>1
  <2>5. Overhead(d.total) < d.mtu =>
          d.offset >= Len(d.frames) * (d.mtu - Overhead(d.total))
    <3>1. Overhead(c.total) \in Nat
      BY <2>1, OverheadIsMax
    <3>2. 0 * (c.mtu - Overhead(c.total)) = 0
      BY <2>1, <3>1
    <3> QED
      BY <1>3, <2>1, <3>2
  <2>6. GoodCut(m, d)
    BY <2>2, <2>3, <2>4, <2>5 DEF GoodCut
  <2>7. GoodCall(m, d)
    BY <1>1, <1>3, <2>1, <2>6 DEF GoodCall
  <2> QED
    BY <2>7 DEF d
<1> QED
  BY <1>4, <1>5, <1>6

\* One time more.
LEMMA OneMoreTime ==
  ASSUME NEW a \in Nat, NEW b \in Nat
  PROVE  (a + 1) * b = a * b + b /\ a * b \in Nat
OBVIOUS

\* Cutting a frame keeps a call as it should be: what it holds is the payload up
\* to the new offset, and it is no longer than the mtu.
LEMMA CutKeepsCall ==
  ASSUME NEW m \in Message, NEW c, GoodCall(m, c), c.phase = "cut",
         Len(c.frames) < c.total,
         NEW room, room = c.mtu - HeaderLen(Len(c.frames), c.total), room >= 0,
         NEW to, to = Min({c.offset + room, Length[m]}),
         NEW f, f = [digest |-> m, i |-> Len(c.frames), n |-> c.total,
                     body |-> Bytes(m, c.offset, to)],
         NEW d, d = [c EXCEPT !.offset = to, !.frames = Append(@, f)]
  PROVE  GoodCall(m, d)
<1> DEFINE i == Len(c.frames)
           l == Length[m]
           chunk == c.mtu - Overhead(c.total)
<1>1. /\ c \in [phase : {"count", "cut", "done", "raised"}, mtu : Nat \ {0}, offset : Nat,
                frames : Seq(Frame), total : Nat \ {0}]
      /\ l \in Nat /\ c.offset <= l
      /\ \A k \in 1..Len(c.frames) : CutFrom(c.frames[k], k, m, c)
      /\ GoodCut(m, c)
  BY PayloadAssumption DEF GoodCall
<1>2. /\ c.frames \in Seq(Frame) /\ i \in Nat /\ c.total \in Nat \ {0}
      /\ c.mtu \in Nat \ {0} /\ c.offset \in Nat
  BY <1>1, LenProperties
<1>3. HeaderLen(i, c.total) \in Nat /\ room \in Nat
  <2> HIDE DEF i
  <2>1. HeaderLen(i, c.total) \in Nat
    BY <1>2, HeaderLenType
  <2>2. room = c.mtu - HeaderLen(i, c.total)
    BY DEF i
  <2> QED
    BY <1>2, <2>1, <2>2
<1>4. /\ to \in Nat /\ c.offset <= to /\ to <= l /\ to <= c.offset + room
      /\ (to = l \/ to = c.offset + room)
  <2>1. to = IF c.offset + room <= l THEN c.offset + room ELSE l
    <3>1. c.offset + room \in Int /\ l \in Int
      BY <1>1, <1>2, <1>3
    <3> HIDE DEF l
    <3> QED
      BY <3>1, MinOfTwo DEF l
  <2> HIDE DEF l
  <2> QED
    BY <1>1, <1>2, <1>3, <2>1
<1>5. /\ Bytes(m, c.offset, to) \in Seq(Byte) /\ Len(Bytes(m, c.offset, to)) = to - c.offset
      /\ \A k \in 1..(to - c.offset) : Bytes(m, c.offset, to)[k] = <<m, c.offset + k>>
  BY <1>2, <1>4, BytesType DEF Byte
<1>6. f \in Frame /\ f.digest = m /\ f.i = i /\ f.n = c.total /\ f.body = Bytes(m, c.offset, to)
  BY <1>2, <1>5 DEF Frame, Byte
<1>7. /\ d.phase = "cut" /\ d.mtu = c.mtu /\ d.total = c.total /\ d.offset = to
      /\ d.frames = Append(c.frames, f)
  BY <1>1
<1>8. /\ d.frames \in Seq(Frame) /\ Len(d.frames) = i + 1 /\ d.frames[i + 1] = f
      /\ \A k \in 1..i : d.frames[k] = c.frames[k]
  BY <1>2, <1>6, <1>7, AppendProperties
<1>9. d \in [phase : {"count", "cut", "done", "raised"}, mtu : Nat \ {0}, offset : Nat,
             frames : Seq(Frame), total : Nat \ {0}]
  BY <1>1, <1>4, <1>8
<1>10. Size(f) <= d.mtu
  <2>1. Size(f) = HeaderLen(i, c.total) + (to - c.offset)
    BY <1>5, <1>6, FrameSize
  <2> QED
    BY <1>2, <1>3, <1>4, <1>7, <2>1
<1>11. ASSUME NEW k \in 1..(i + 1) PROVE CutFrom(d.frames[k], k, m, d)
  <2>1. CASE k = i + 1
    <3>1. \A p \in 1..Len(f.body) : f.body[p] \in {m} \X (1..to)
      <4> TAKE p \in 1..Len(f.body)
      <4>1. p \in 1..(to - c.offset) /\ f.body[p] = <<m, c.offset + p>>
        BY <1>5, <1>6
      <4>2. c.offset + p \in 1..to
        <5> DEFINE a == c.offset
        <5>1. a \in Nat /\ to \in Nat /\ p \in 1..(to - a)
          BY <1>2, <1>4, <4>1
        <5> HIDE DEF a
        <5>2. a + p \in 1..to
          BY <5>1
        <5> QED
          BY <5>2 DEF a
      <4>3. <<m, c.offset + p>> \in {m} \X (1..to)
        BY <4>2
      <4> QED
        BY <4>1, <4>3, Zenon
    <3>2. k - 1 = i
      BY <1>2, <2>1
    <3>3. d.frames[k] = f
      BY <1>8, <2>1
    <3>4. f.digest = m /\ f.i = k - 1 /\ f.n = d.total
      BY <1>6, <1>7, <3>2
    <3>5. \A p \in 1..Len(f.body) : f.body[p] \in {m} \X (1..d.offset)
      BY <1>7, <3>1, Zenon
    <3> QED
      BY <1>10, <3>3, <3>4, <3>5, Zenon DEF CutFrom
  <2>2. CASE k # i + 1
    <3>1. k \in 1..i
      BY <1>2, <2>2
    <3>2. CutFrom(c.frames[k], k, m, c)
      BY <1>1, <3>1
    <3>3. 1..c.offset \subseteq 1..d.offset
      BY <1>2, <1>4, <1>7
    <3>4. d.frames[k] = c.frames[k]
      BY <1>8, <3>1
    <3> DEFINE g == c.frames[k]
    <3>5. /\ g.digest = m /\ g.i = k - 1 /\ g.n = d.total /\ Size(g) <= d.mtu
          /\ \A p \in 1..Len(g.body) : g.body[p] \in {m} \X (1..c.offset)
      BY <1>7, <3>2, Zenon DEF CutFrom
    <3> HIDE DEF g
    <3>6. \A p \in 1..Len(g.body) : g.body[p] \in {m} \X (1..d.offset)
      BY <3>3, <3>5
    <3>7. CutFrom(g, k, m, d)
      BY <3>5, <3>6, Zenon DEF CutFrom
    <3> QED
      BY <3>4, <3>7 DEF g
  <2> QED
    BY <2>1, <2>2
<1>12. FlattenSeq(Bodies(d.frames)) = Bytes(m, 0, to)
  <2>1. Bodies(d.frames) = Append(Bodies(c.frames), f.body)
    BY <1>2, <1>6, <1>7, BodiesAppend
  <2>2. Bodies(c.frames) \in Seq(Seq(Byte)) /\ f.body \in Seq(Byte)
    BY <1>2, <1>5, <1>6, BodiesType
  <2>3. FlattenSeq(Bodies(d.frames)) = FlattenSeq(Bodies(c.frames)) \o f.body
    BY <2>1, <2>2, FlattenAppend, ZenonT(40)
  <2>4. FlattenSeq(Bodies(c.frames)) = Bytes(m, 0, c.offset)
    BY <1>1 DEF GoodCut
  <2> QED
    <3>1. Bytes(m, 0, c.offset) \o Bytes(m, c.offset, to) = Bytes(m, 0, to)
      BY <1>2, <1>4, BytesJoin, Zenon
    <3> QED
      BY <1>6, <2>3, <2>4, <3>1, Zenon
<1>13. ASSUME Overhead(d.total) < d.mtu
       PROVE  \/ d.offset = Length[m]
              \/ d.offset >= Len(d.frames) * (d.mtu - Overhead(d.total))
  <2>1. Overhead(c.total) \in Nat /\ HeaderLen(i, c.total) <= Overhead(c.total)
    <3>1. i \in 0..(c.total - 1)
      BY <1>2
    <3> QED
      BY <1>2, <3>1, OverheadIsMax
  <2>2. chunk \in Nat /\ room >= chunk
    BY <1>2, <1>3, <1>7, <1>13, <2>1
  <2>3. c.offset = l \/ c.offset >= i * chunk
    BY <1>1, <1>7, <1>13 DEF GoodCut
  <2>4. CASE to = l
    BY <1>7, <2>4
  <2>5. CASE to # l
    <3>1. to = c.offset + room /\ c.offset # l
      BY <1>1, <1>2, <1>4, <2>5
    <3> HIDE DEF chunk
    <3>2. (i + 1) * chunk = i * chunk + chunk /\ i * chunk \in Nat
      BY <1>2, <2>2, OneMoreTime
    <3>3. to >= (i + 1) * chunk
      BY <1>2, <1>3, <2>2, <2>3, <3>1, <3>2, SMTT(40)
    <3> QED
      BY <1>7, <1>8, <3>3 DEF chunk
  <2> QED
    BY <2>4, <2>5
<1>14. GoodCut(m, d)
  <2>1. i + 1 <= c.total
    BY <1>2
  <2> QED
    BY <1>1, <1>7, <1>8, <1>12, <1>13, <2>1 DEF GoodCut
<1> QED
  BY <1>4, <1>7, <1>8, <1>9, <1>11, <1>14 DEF GoodCall

\* A call at its start.
LEMMA StartedIsGood ==
  ASSUME NEW m \in Message, NEW mtu \in Mtus
  PROVE  GoodCall(m, Started(m, mtu))
<1> DEFINE c == Started(m, mtu)
           p == Pieces(Length[m], mtu, HeaderLen(0, 1))
<1>1. mtu \in Nat \ {0} /\ Length[m] \in Nat /\ HeaderLen(0, 1) \in Nat
  BY FragmentAssumption, PayloadAssumption, HeaderLenType
<1>2. p \in Nat \ {0}
  BY <1>1, PiecesSuffice
<1> HIDE DEF p
<1>3. c = [phase |-> "count", mtu |-> mtu, offset |-> 0, frames |-> <<>>, total |-> p]
  BY DEF Started, p
<1> HIDE DEF c
<1>4. /\ c \in [phase : {"count", "cut", "done", "raised"}, mtu : Nat \ {0}, offset : Nat,
                frames : Seq(Frame), total : Nat \ {0}]
      /\ c.phase = "count" /\ c.offset = 0 /\ c.frames = <<>>
  <2>1. <<>> \in Seq(Frame)
    BY EmptySeq
  <2> QED
    BY <1>1, <1>2, <1>3, <2>1
<1>5. Len(<<>>) = 0
  OBVIOUS
<1>6. GoodCall(m, c)
  BY <1>1, <1>4, <1>5 DEF GoodCall
<1> QED
  BY <1>6 DEF c

\* A call that raises while it cuts returns no frames.
LEMMA RaisedIsGood ==
  ASSUME NEW m \in Message, NEW c, GoodCall(m, c),
         NEW d, d = [c EXCEPT !.phase = "raised", !.frames = <<>>]
  PROVE  GoodCall(m, d)
<1>1. /\ c \in [phase : {"count", "cut", "done", "raised"}, mtu : Nat \ {0}, offset : Nat,
                frames : Seq(Frame), total : Nat \ {0}]
      /\ c.offset <= Length[m]
  BY DEF GoodCall
<1>2. <<>> \in Seq(Frame) /\ Len(<<>>) = 0
  BY EmptySeq
<1>3. /\ d \in [phase : {"count", "cut", "done", "raised"}, mtu : Nat \ {0}, offset : Nat,
                frames : Seq(Frame), total : Nat \ {0}]
      /\ d.phase = "raised" /\ d.frames = <<>> /\ d.offset = c.offset
  BY <1>1, <1>2
<1> QED
  BY <1>1, <1>2, <1>3 DEF GoodCall

\* A call that has cut all its frames returns them as they are.
LEMMA FinishedIsGood ==
  ASSUME NEW m \in Message, NEW c, GoodCall(m, c), c.phase = "cut",
         Len(c.frames) = c.total,
         NEW d, d = [c EXCEPT !.phase = "done"]
  PROVE  GoodCall(m, d)
<1>1. /\ c \in [phase : {"count", "cut", "done", "raised"}, mtu : Nat \ {0}, offset : Nat,
                frames : Seq(Frame), total : Nat \ {0}]
      /\ c.offset <= Length[m]
      /\ \A k \in 1..Len(c.frames) : CutFrom(c.frames[k], k, m, c)
      /\ GoodCut(m, c)
  BY DEF GoodCall
<1>2. /\ d \in [phase : {"count", "cut", "done", "raised"}, mtu : Nat \ {0}, offset : Nat,
                frames : Seq(Frame), total : Nat \ {0}]
      /\ d.phase = "done" /\ d.frames = c.frames /\ d.offset = c.offset
      /\ d.total = c.total /\ d.mtu = c.mtu
  BY <1>1
<1>3. GoodCut(m, d)
  BY <1>1, <1>2 DEF GoodCut
<1>4. \A k \in 1..Len(d.frames) : CutFrom(d.frames[k], k, m, d)
  BY <1>1, <1>2 DEF CutFrom
<1> QED
  BY <1>1, <1>2, <1>3, <1>4 DEF GoodCall

\* A step of a call of fragment keeps every call as it should be.
LEMMA CuttingKeepsCalls ==
  ASSUME CallsInv, Cutting
  PROVE  CallsInv'
<1>1. /\ path = "datagrams" /\ path' = path /\ DOMAIN call = Message
      /\ \A m \in Message : GoodCall(m, call[m])
  BY DEF CallsInv, Cutting
<1>2. PICK m \in Message : Fragment(m)
  BY DEF Cutting
<1> DEFINE c == call[m]
<1>3. GoodCall(m, c)
  BY <1>1
<1>4. \E d : GoodCall(m, d) /\ call' = [call EXCEPT ![m] = d]
  <2>1. CASE Count(m)
    <3> DEFINE new == Pieces(Length[m], c.mtu, Overhead(c.total))
    <3>1. /\ c.phase = "count"
          /\ call' = [call EXCEPT ![m] =
               IF new # c.total THEN [c EXCEPT !.total = new]
               ELSE IF c.total > MaxFragments THEN [c EXCEPT !.phase = "raised"]
               ELSE [c EXCEPT !.phase = "cut"]]
      BY <2>1 DEF Count
    <3>2. /\ GoodCall(m, [c EXCEPT !.total = new])
          /\ GoodCall(m, [c EXCEPT !.phase = "raised"])
          /\ new = c.total /\ ~ (c.total > MaxFragments) =>
               GoodCall(m, [c EXCEPT !.phase = "cut"])
      BY <1>3, <3>1, CountKeepsCall
    <3> HIDE DEF c, new
    <3> QED
      BY <3>1, <3>2
  <2>2. CASE Cut(m)
    <3> DEFINE i == Len(c.frames)
               room == c.mtu - HeaderLen(i, c.total)
               to == Min({c.offset + room, Length[m]})
               f == [digest |-> m, i |-> i, n |-> c.total, body |-> Bytes(m, c.offset, to)]
    <3>1. c.phase = "cut" /\ i < c.total
      BY <2>2 DEF Cut
    <3>2. CASE room < 0
      <4> DEFINE d == [c EXCEPT !.phase = "raised", !.frames = <<>>]
      <4>1. call' = [call EXCEPT ![m].phase = "raised", ![m].frames = <<>>]
        BY <2>2, <3>2 DEF Cut
      <4>2. call' = [call EXCEPT ![m] = d]
        BY <1>1, <4>1
      <4>3. GoodCall(m, d)
        BY <1>3, RaisedIsGood
      <4> QED
        BY <4>2, <4>3
    <3>3. CASE ~ (room < 0)
      <4> DEFINE d == [c EXCEPT !.offset = to, !.frames = Append(@, f)]
      <4>1. call' = [call EXCEPT ![m].offset = to, ![m].frames = Append(@, f)]
        BY <2>2, <3>3 DEF Cut
      <4>2. call' = [call EXCEPT ![m] = d]
        BY <1>1, <4>1
      <4>3. GoodCall(m, d)
        <5>1. c.mtu \in Nat /\ c.total \in Nat /\ i \in Nat
          BY <1>3, LenProperties DEF GoodCall
        <5>2. room >= 0
          <6> HIDE DEF i
          <6>1. HeaderLen(i, c.total) \in Nat
            BY <5>1, HeaderLenType
          <6> QED
            BY <3>3, <5>1, <6>1
        <5> HIDE DEF c
        <5> QED
          BY <1>3, <3>1, <5>2, CutKeepsCall, Zenon
      <4> QED
        BY <4>2, <4>3
    <3> QED
      BY <3>2, <3>3
  <2>3. CASE Finish(m)
    <3> DEFINE d == [c EXCEPT !.phase = "done"]
    <3>1. /\ c.phase = "cut" /\ Len(c.frames) = c.total
          /\ call' = [call EXCEPT ![m].phase = "done"]
      BY <2>3 DEF Finish
    <3>2. call' = [call EXCEPT ![m] = d]
      BY <1>1, <3>1
    <3>3. GoodCall(m, d)
      BY <1>3, <3>1, FinishedIsGood
    <3> QED
      BY <3>2, <3>3
  <2> QED
    BY <1>2, <2>1, <2>2, <2>3 DEF Fragment
<1>5. PICK d : GoodCall(m, d) /\ call' = [call EXCEPT ![m] = d]
  BY <1>4
<1>6. DOMAIN call' = Message /\ \A k \in Message : call'[k] = IF k = m THEN d ELSE call[k]
  BY <1>1, <1>5
<1> HIDE DEF c
<1>7. \A k \in Message : GoodCall(k, call'[k])
  BY <1>1, <1>5, <1>6
<1> QED
  BY <1>1, <1>6, <1>7 DEF CallsInv

\* Nothing was cut at first.
LEMMA InitCallsInv == Init => CallsInv
<1> SUFFICES ASSUME Init PROVE CallsInv
  OBVIOUS
<1>1. CASE path = "stream" /\ call = [m \in {} |-> None]
  BY <1>1 DEF CallsInv
<1>2. CASE /\ path = "datagrams"
           /\ \E mtu \in Mtus : call = [m \in Message |-> Started(m, mtu)]
  BY <1>2, StartedIsGood DEF CallsInv
<1> QED
  BY <1>1, <1>2 DEF Init

\* No step breaks a call, whether it cuts, arrives or streams.
LEMMA NextCallsInv == CallsInv /\ [Next]_vars => CallsInv'
<1> SUFFICES ASSUME CallsInv, [Next]_vars PROVE CallsInv'
  OBVIOUS
<1>1. CASE UNCHANGED <<path, call>>
  BY <1>1 DEF CallsInv
<1> QED
  BY <1>1, CuttingKeepsCalls DEF Next, vars, Streaming, Arrives

\* A call of fragment that returns has cut the whole payload, in frames that
\* are no longer than the mtu, if every header leaves room for a byte
\* (transport.py:182-207).
THEOREM FramesHoldPayload == Spec => []FramesCarryPayload
<1>1. CallsInv => FramesCarryPayload
  <2> SUFFICES ASSUME CallsInv, NEW m \in DOMAIN call
               PROVE  /\ \A f \in ToSet(call[m].frames) : Size(f) <= call[m].mtu
                      /\ call[m].phase = "done" /\ Roomy(m) => call[m].offset = Length[m]
    BY DEF FramesCarryPayload
  <2> DEFINE c == call[m]
  <2>1. GoodCall(m, c) /\ m \in Message
    BY DEF CallsInv
  <2>2. \A f \in ToSet(c.frames) : Size(f) <= c.mtu
    <3>1. \A k \in 1..Len(c.frames) : Size(c.frames[k]) <= c.mtu
      BY <2>1 DEF GoodCall, CutFrom
    <3>2. DOMAIN c.frames = 1..Len(c.frames)
      BY <2>1, LenProperties DEF GoodCall
    <3> HIDE DEF c
    <3> QED
      BY <3>1, <3>2 DEF ToSet
  <2>3. ASSUME c.phase = "done", Roomy(m) PROVE c.offset = Length[m]
    <3>1. /\ c.offset \in Nat /\ c.mtu \in Nat \ {0} /\ c.total \in Nat \ {0}
          /\ Length[m] \in Nat /\ c.offset <= Length[m]
          /\ GoodCut(m, c) /\ Len(c.frames) = c.total
      BY <2>1, <2>3, PayloadAssumption DEF GoodCall
    <3>2. Overhead(c.total) < c.mtu
      BY <2>3 DEF Roomy
    <3>3. Overhead(c.total) \in Nat
      BY <3>1, OverheadIsMax
    <3>4. c.total * (c.mtu - Overhead(c.total)) >= Length[m]
      BY <3>1, <3>2, <3>3, PiecesSuffice DEF GoodCut
    <3>5. c.offset = Length[m] \/ c.offset >= c.total * (c.mtu - Overhead(c.total))
      BY <3>1, <3>2 DEF GoodCut
    <3> HIDE DEF c
    <3> DEFINE x == c.total * (c.mtu - Overhead(c.total))
    <3>6. x \in Int
      BY <3>1, <3>3
    <3> HIDE DEF x
    <3> QED
      BY <3>1, <3>4, <3>5, <3>6 DEF x
  <2> QED
    BY <2>2, <2>3
<1> QED
  BY <1>1, InitCallsInv, NextCallsInv, PTL DEF Spec

-----------------------------------------------------------------------------
(***************************************************************************)
(* The search for the number of frames                                     *)
(***************************************************************************)
\* Division and multiplication respect the order, ...
LEMMA DivMonotone ==
  ASSUME NEW j \in Nat, NEW k \in Nat, j <= k, NEW r \in Nat \ {0}
  PROVE  j \div r <= k \div r
OBVIOUS

\* ... the latter in its first factor too, ...
LEMMA TimesMonotone ==
  ASSUME NEW c \in Nat, NEW d \in Nat, d <= c, NEW q \in Nat
  PROVE  d * q <= c * q
OBVIOUS

\* ... and a multiple that is less than one factor away is no smaller a one.
LEMMA TimesCancels ==
  ASSUME NEW c \in Nat \ {0}, NEW p \in Nat, NEW q \in Nat, c * p <= c * q + c - 1
  PROVE  p <= q
<1> SUFFICES ASSUME p >= q + 1 PROVE FALSE
  OBVIOUS
<1>1. c * p >= c * (q + 1)
  OBVIOUS
<1>2. c * (q + 1) = c * q + c
  OBVIOUS
<1> QED
  BY <1>1, <1>2

\* A larger number has no fewer digits.
LEMMA DigitsMonotone ==
  ASSUME NEW j \in Nat, NEW k \in Nat, j <= k
  PROVE  Digits[j] <= Digits[k]
<1> DEFINE T == {x \in Nat : \A y \in 0..x : Digits[y] <= Digits[x]}
<1>1. ASSUME NEW x \in Nat, 0..(x - 1) \subseteq T
      PROVE  x \in T
  <2> SUFFICES ASSUME NEW y \in 0..x PROVE Digits[y] <= Digits[x]
    OBVIOUS
  <2>1. /\ Digits[x] \in Nat \ {0} /\ Digits[y] \in Nat \ {0}
        /\ Digits[x] = IF x < Radix THEN 1 ELSE 1 + Digits[x \div Radix]
        /\ Digits[y] = IF y < Radix THEN 1 ELSE 1 + Digits[y \div Radix]
    BY DigitsBounds, DigitsRec
  <2>2. CASE y < Radix
    BY <2>1, <2>2
  <2>3. CASE ~ (y < Radix)
    <3>1. Radix \in Nat \ {0} /\ y >= Radix /\ x >= Radix /\ y \in Nat /\ y <= x
      BY <2>3, FragmentAssumption
    <3>2. /\ x \div Radix \in 0..(x - 1) /\ x \div Radix \in Nat
          /\ y \div Radix \in 0..(x \div Radix) /\ y \div Radix \in Nat
      <4>1. x \div Radix \in Nat /\ x \div Radix < x /\ y \div Radix \in Nat
        BY <3>1, DivBelow
      <4>2. y \div Radix <= x \div Radix
        BY <3>1, DivMonotone
      <4> QED
        BY <4>1, <4>2
    <3>3. Digits[y \div Radix] <= Digits[x \div Radix]
      BY <1>1, <3>2
    <3>4. Digits[y \div Radix] \in Nat /\ Digits[x \div Radix] \in Nat
      BY <3>2, DigitsBounds
    <3>5. ~ (x < Radix) 
      BY <3>1
    <3> QED
      BY <2>1, <2>3, <3>3, <3>4, <3>5
  <2> QED
    BY <2>2, <2>3
<1>2. Nat \subseteq T
  <2> HIDE DEF T
  <2> QED
    BY <1>1, StrongInduction
<1>3. k \in T /\ j \in 0..k
  BY <1>2
<1> QED
  BY <1>3

\* The longest header does not get shorter when there are more frames.
LEMMA OverheadMonotone ==
  ASSUME NEW m \in Nat \ {0}, NEW n \in Nat \ {0}, m <= n
  PROVE  Overhead(m) <= Overhead(n) /\ HeaderLen(0, 1) <= Overhead(m)
<1>1. PICK i \in 0..(m - 1) : Overhead(m) = HeaderLen(i, m)
  BY OverheadIsMax
<1>2. i \in Nat /\ i \in 0..(n - 1) /\ 0 \in 0..(m - 1) /\ 1 <= m /\ 0 \in Nat /\ 1 \in Nat
  OBVIOUS
<1>3. /\ HeaderLen(i, n) <= Overhead(n) /\ HeaderLen(0, m) <= Overhead(m)
      /\ Overhead(n) \in Nat /\ Overhead(m) \in Nat
  BY <1>2, OverheadIsMax
<1>4. Digits[m] <= Digits[n] /\ Digits[1] <= Digits[m]
  BY <1>2, DigitsMonotone
<1>5. /\ HeaderLen(i, m) = Base + Digits[i] + Digits[m]
      /\ HeaderLen(i, n) = Base + Digits[i] + Digits[n]
      /\ HeaderLen(0, m) = Base + Digits[0] + Digits[m]
      /\ HeaderLen(0, 1) = Base + Digits[0] + Digits[1]
  BY <1>2, HeaderLenType
<1>6. /\ Base \in Nat /\ Digits[i] \in Nat /\ Digits[m] \in Nat /\ Digits[n] \in Nat
      /\ Digits[0] \in Nat /\ Digits[1] \in Nat
  BY <1>2, DigitsBounds, FragmentAssumption
<1> QED
  BY <1>1, <1>3, <1>4, <1>5, <1>6

\* Longer headers never mean fewer pieces, and no piece is without a byte but
\* the only one.
LEMMA PiecesMonotone ==
  ASSUME NEW l \in Nat, NEW mtu \in Nat, NEW a \in Nat, NEW b \in Nat, a <= b
  PROVE  Pieces(l, mtu, a) <= Pieces(l, mtu, b) /\ Pieces(l, mtu, a) <= Max({1, l})
<1> PICK c, d : c = Max({1, mtu - a}) /\ d = Max({1, mtu - b})
  OBVIOUS
<1>1. c \in Nat \ {0} /\ d \in Nat \ {0} /\ d <= c
  BY MaxOfTwo
<1> PICK p, q : p = (l + c - 1) \div c /\ q = (l + d - 1) \div d
  OBVIOUS
<1>2. p \in Nat /\ q \in Nat /\ d * q >= l /\ c * p <= l + c - 1
  BY <1>1, Ceil
<1>3. p <= q
  <2>1. c * q >= d * q
    BY <1>1, <1>2, TimesMonotone
  <2>2. c * p <= c * q + c - 1
    <3>1. c * q \in Nat /\ d * q \in Nat /\ c * p \in Nat
      BY <1>1, <1>2
    <3> QED
      BY <1>1, <1>2, <2>1, <3>1
  <2> QED
    BY <1>1, <1>2, <2>2, TimesCancels
<1>4. p <= l
  <2>1. c * l >= l /\ c * l \in Nat
    BY <1>1
  <2>2. c * p <= c * l + c - 1
    BY <1>1, <1>2, <2>1
  <2> QED
    BY <1>1, <1>2, <2>2, TimesCancels
<1>5. Pieces(l, mtu, a) = Max({1, p}) /\ Pieces(l, mtu, b) = Max({1, q})
  BY DEF Pieces
<1> QED
  BY <1>2, <1>3, <1>4, <1>5, MaxOfTwo, SMTT(40)

\* The search has not passed what it would find next.
Climbing ==
  \A m \in DOMAIN call :
    call[m].phase = "count" =>
      call[m].total <= Pieces(Length[m], call[m].mtu, Overhead(call[m].total))

\* The first guess takes the headers of a single frame, the shortest there are.
LEMMA InitClimbing == Init => Climbing
<1> SUFFICES ASSUME Init, NEW m \in DOMAIN call
             PROVE  call[m].total <= Pieces(Length[m], call[m].mtu, Overhead(call[m].total))
  BY DEF Climbing
<1>1. PICK mtu \in Mtus : m \in Message /\ call[m] = Started(m, mtu)
  BY DEF Init
<1> PICK t : t = Pieces(Length[m], mtu, HeaderLen(0, 1))
  OBVIOUS
<1>2. mtu \in Nat /\ Length[m] \in Nat /\ HeaderLen(0, 1) \in Nat
  BY <1>1, FragmentAssumption, PayloadAssumption, HeaderLenType
<1>3. t \in Nat \ {0}
  BY <1>2, PiecesSuffice
<1>4. Overhead(t) \in Nat /\ HeaderLen(0, 1) <= Overhead(t)
  BY <1>3, OverheadIsMax, OverheadMonotone
<1>5. t <= Pieces(Length[m], mtu, Overhead(t))
  BY <1>2, <1>4, PiecesMonotone
<1>6. call[m].total = t /\ call[m].mtu = mtu
  BY <1>1 DEF Started
<1> QED
  BY <1>5, <1>6

\* What a turn of the search that does not end it does to a call.
LEMMA TurnClimbs ==
  ASSUME CallsInv, Climbing, NEW m \in DOMAIN call, call[m].phase = "count",
         NEW new, new = Pieces(Length[m], call[m].mtu, Overhead(call[m].total))
  PROVE  /\ call[m].total \in Nat /\ new \in Nat /\ call[m].total <= new
         /\ new <= Max({1, Length[m]})
         /\ new <= Pieces(Length[m], call[m].mtu, Overhead(new))
<1> PICK t, mtu, l : t = call[m].total /\ mtu = call[m].mtu /\ l = Length[m]
  OBVIOUS
<1>1. t \in Nat \ {0} /\ mtu \in Nat /\ l \in Nat
  <2>1. m \in Message /\ GoodCall(m, call[m])
    BY DEF CallsInv
  <2> QED
    BY <2>1, PayloadAssumption DEF GoodCall
<1>2. t <= new
  BY DEF Climbing
<1>3. Overhead(t) \in Nat
  BY <1>1, OverheadIsMax
<1>4. new \in Nat \ {0} /\ new <= Max({1, l})
  <2>1. new \in Nat \ {0}
    BY <1>1, <1>3, PiecesSuffice
  <2>2. Overhead(t) <= Overhead(t)
    BY <1>3
  <2>3. Pieces(l, mtu, Overhead(t)) <= Max({1, l})
    BY <1>1, <1>3, <2>2, PiecesMonotone
  <2> QED
    BY <2>1, <2>3
<1>5. Overhead(new) \in Nat /\ Overhead(t) <= Overhead(new)
  BY <1>1, <1>2, <1>4, OverheadIsMax, OverheadMonotone
<1>6. new <= Pieces(l, mtu, Overhead(new))
  BY <1>1, <1>3, <1>5, PiecesMonotone
<1> QED
  BY <1>1, <1>2, <1>4, <1>6

\* A call that is still searching after a step is as it was, or one turn of the
\* search further on.
LEMMA StillCounting ==
  ASSUME CallsInv, [Next]_vars, NEW m \in DOMAIN call', call'[m].phase = "count"
  PROVE  /\ m \in DOMAIN call /\ call[m].phase = "count"
         /\ \/ call'[m] = call[m]
            \/ call'[m] = [call[m] EXCEPT
                 !.total = Pieces(Length[m], call[m].mtu, Overhead(call[m].total))]
<1>1. CASE UNCHANGED call
  BY <1>1
<1>2. CASE Cutting
  <2>1. DOMAIN call = Message
    BY <1>2 DEF Cutting, CallsInv
  <2>2. PICK k \in Message : Fragment(k)
    BY <1>2 DEF Cutting
  <2>3. DOMAIN call' = Message
    BY <2>1, <2>2 DEF Fragment, Count, Cut, Finish
  <2>4. GoodCall(m, call[m])
    BY <2>1, <2>3 DEF CallsInv
  <2> PICK c, d : c = call[m] /\ d = call'[m]
    OBVIOUS
  <2>5. /\ c \in [phase : {"count", "cut", "done", "raised"}, mtu : Nat \ {0}, offset : Nat,
                  frames : Seq(Frame), total : Nat \ {0}]
        /\ m \in Message /\ d.phase = "count"
    BY <2>3, <2>4 DEF GoodCall
  <2>6. CASE k # m
    <3>1. d = c
      BY <2>1, <2>2, <2>6 DEF Fragment, Count, Cut, Finish
    <3> QED
      BY <2>1, <2>3, <2>5, <3>1
  <2>7. CASE k = m /\ Count(m)
    <3> PICK new : new = Pieces(Length[m], c.mtu, Overhead(c.total))
      OBVIOUS
    <3>1. /\ c.phase = "count"
          /\ d = IF new # c.total THEN [c EXCEPT !.total = new]
                 ELSE IF c.total > MaxFragments THEN [c EXCEPT !.phase = "raised"]
                 ELSE [c EXCEPT !.phase = "cut"]
      BY <2>1, <2>5, <2>7 DEF Count
    <3>2. d = [c EXCEPT !.total = new]
      BY <2>5, <3>1
    <3> QED
      BY <2>1, <2>5, <3>1, <3>2
  <2>8. CASE k = m /\ Cut(m)
    <3>1. c.phase = "cut" /\ (d.phase = c.phase \/ d.phase = "raised")
      BY <2>1, <2>4, <2>5, <2>8 DEF Cut
    <3> QED
      BY <2>5, <3>1
  <2>9. CASE k = m /\ Finish(m)
    <3>1. d.phase = "done"
      BY <2>1, <2>4, <2>5, <2>9 DEF Finish
    <3> QED
      BY <2>5, <3>1
  <2> QED
    BY <2>2, <2>6, <2>7, <2>8, <2>9 DEF Fragment
<1> QED
  BY <1>1, <1>2 DEF Next, vars, Streaming, Arrives

\* So the search goes on climbing.
LEMMA NextClimbing == CallsInv /\ Climbing /\ [Next]_vars => Climbing'
<1> SUFFICES ASSUME CallsInv, Climbing, [Next]_vars, NEW m \in DOMAIN call',
                    call'[m].phase = "count"
             PROVE  call'[m].total <= Pieces(Length[m], call'[m].mtu, Overhead(call'[m].total))
  BY DEF Climbing
<1> PICK new : new = Pieces(Length[m], call[m].mtu, Overhead(call[m].total))
  OBVIOUS
<1>1. /\ m \in DOMAIN call /\ call[m].phase = "count"
      /\ call'[m] = call[m] \/ call'[m] = [call[m] EXCEPT !.total = new]
  BY StillCounting
<1>2. CASE call'[m] = call[m]
  BY <1>1, <1>2 DEF Climbing
<1>3. CASE call'[m] = [call[m] EXCEPT !.total = new]
  <2>1. call'[m].mtu = call[m].mtu /\ call'[m].total = new
    <3>1. GoodCall(m, call[m])
      BY <1>1 DEF CallsInv
    <3> QED
      BY <1>3, <3>1 DEF GoodCall
  <2>2. new <= Pieces(Length[m], call[m].mtu, Overhead(new))
    BY <1>1, TurnClimbs
  <2> QED
    BY <2>1, <2>2
<1> QED
  BY <1>1, <1>2, <1>3

\* The loop of fragment that looks for the number of frames cannot go round in
\* circles: each turn finds a larger number, and none above the number of bytes
\* (transport.py:187-193).
THEOREM SearchOnlyClimbs == Spec => SearchClimbs
<1> DEFINE Step == \A m \in DOMAIN call :
             call[m].phase = "count" /\ call'[m].phase = "count" /\ call'[m] # call[m] =>
               /\ call'[m].total > call[m].total
               /\ call'[m].total <= Max({1, Length[m]})
<1>1. CallsInv /\ CallsInv' /\ Climbing /\ [Next]_vars => Step
  <2> SUFFICES ASSUME CallsInv, CallsInv', Climbing, [Next]_vars, NEW m \in DOMAIN call,
                      call[m].phase = "count", call'[m].phase = "count", call'[m] # call[m]
               PROVE  call'[m].total > call[m].total /\ call'[m].total <= Max({1, Length[m]})
    OBVIOUS
  <2> PICK new : new = Pieces(Length[m], call[m].mtu, Overhead(call[m].total))
    OBVIOUS
  <2>1. m \in DOMAIN call'
    BY DEF CallsInv, Next, vars, Cutting, Streaming, Arrives
  <2>2. call'[m] = [call[m] EXCEPT !.total = new]
    BY <2>1, StillCounting
  <2>3. call[m].total \in Nat /\ new \in Nat /\ call[m].total <= new /\ new <= Max({1, Length[m]})
    BY TurnClimbs
  <2>4. call'[m].total = new /\ new # call[m].total
    <3> PICK c, d : c = call[m] /\ d = call'[m]
      OBVIOUS
    <3>1. c \in [phase : {"count", "cut", "done", "raised"}, mtu : Nat \ {0}, offset : Nat,
                 frames : Seq(Frame), total : Nat \ {0}]
      BY DEF CallsInv, GoodCall
    <3>2. d = [c EXCEPT !.total = new] /\ d # c
      BY <2>2
    <3>3. d.total = new /\ new # c.total
      BY <3>1, <3>2
    <3> QED
      BY <3>3
  <2> QED
    BY <2>3, <2>4
<1> QED
  BY <1>1, InitCallsInv, NextCallsInv, InitClimbing, NextClimbing, PTL DEF Spec, SearchClimbs

-----------------------------------------------------------------------------
(***************************************************************************)
(* What arrives                                                            *)
(***************************************************************************)

\* While the calls stay as they are, so does what the network may deliver.
LEMMA SameCallsSameFrames ==
  ASSUME call' = call
  PROVE  AllFrames' = AllFrames /\ Arriving' = Arriving /\ (Ended' <=> Ended)
BY DEF AllFrames, Arriving, Ended, Frames, Variants

\* The receiver starts with nothing.
LEMMA InitGotInv == Init => GotInv
BY EmptySeq DEF Init, GotInv

\* Datagrams arrive once every call has ended, each genuine or counted as
\* altered.
LEMMA NextGotInv == CallsInv /\ GotInv /\ [Next]_vars => GotInv'
<1> SUFFICES ASSUME CallsInv, GotInv, [Next]_vars PROVE GotInv'
  OBVIOUS
<1>1. CASE UNCHANGED <<path, call, got, altered>>
  BY <1>1, SameCallsSameFrames DEF GotInv, AllButOneGenuine
<1>2. CASE Cutting
  <2>1. ~ Ended /\ got' = got /\ altered' = altered
    BY <1>2 DEF Cutting, Fragment, Count, Cut, Finish, Ended, CallsInv
  <2>2. got = <<>> /\ altered = 0
    <3>1. got = <<>>
      BY <2>1 DEF GotInv
    <3>2. Len(<<>>) = 0
      OBVIOUS
    <3> QED
      BY <3>1, <3>2 DEF GotInv
  <2>3. got' = <<>> /\ altered' = 0 /\ Len(<<>>) = 0 /\ <<>> \in Seq(Arriving')
    BY <2>1, <2>2, EmptySeq
  <2> QED
    BY <2>3 DEF GotInv
<1>3. ASSUME NEW f \in AllFrames, Arrives(f)
      PROVE  GotInv'
  <2> DEFINE n == Len(got)
  <2>1. /\ path = "datagrams" /\ path' = path /\ Ended /\ call' = call
        /\ got \in Seq(Arriving) /\ n \in Nat /\ altered \in Nat /\ altered <= n
    BY <1>3, LenProperties DEF Arrives, GotInv
  <2>2. AllFrames' = AllFrames /\ Arriving' = Arriving /\ Ended'
    BY <2>1, SameCallsSameFrames
  <2>3. \A g \in Arriving :
          got' = Append(got, g) =>
            /\ got' \in Seq(Arriving) /\ Len(got') = n + 1 /\ got'[n + 1] = g /\ got' # <<>>
            /\ \A k \in 1..n : got'[k] = got[k]
    BY <2>1, AppendProperties
  <2>4. CASE got' = Append(got, f) /\ UNCHANGED altered
    <3>1. f \in Arriving
      BY DEF Arriving
    <3>2. /\ got' \in Seq(Arriving) /\ Len(got') = n + 1 /\ got'[n + 1] = f /\ got' # <<>>
          /\ \A k \in 1..n : got'[k] = got[k]
      BY <2>3, <2>4, <3>1
    <3>3. \A k \in 1..(n + 1) : k \in 1..n \/ k = n + 1
      BY <2>1
    <3>4. ASSUME altered' = 0 PROVE \A k \in 1..(n + 1) : got'[k] \in AllFrames
      <4>1. \A k \in 1..n : got[k] \in AllFrames
        BY <2>4, <3>4 DEF GotInv
      <4> QED
        BY <3>2, <3>3, <4>1
    <3>5. ASSUME altered' = 1 PROVE AllButOneGenuine'
      <4>1. PICK j \in 1..n : \A k \in 1..n : k # j => got[k] \in AllFrames
        BY <2>4, <3>5 DEF GotInv, AllButOneGenuine
      <4>2. j \in 1..(n + 1) /\ \A k \in 1..(n + 1) : k # j => got'[k] \in AllFrames
        BY <2>1, <3>2, <3>3, <4>1
      <4> HIDE DEF n
      <4> QED
        BY <2>2, <3>2, <4>2 DEF AllButOneGenuine
    <3>6. altered' \in Nat /\ altered' <= n + 1
      BY <2>1, <2>4
    <3> HIDE DEF n
    <3> QED
      BY <2>1, <2>2, <3>2, <3>4, <3>5, <3>6 DEF GotInv
  <2>5. CASE altered' = altered + 1 /\ \E g \in Variants(f) : got' = Append(got, g)
    <3>1. PICK g \in Variants(f) : got' = Append(got, g)
      BY <2>5
    <3>2. g \in Arriving
      BY DEF Arriving
    <3>3. /\ got' \in Seq(Arriving) /\ Len(got') = n + 1 /\ got' # <<>>
          /\ \A k \in 1..n : got'[k] = got[k]
      BY <2>3, <3>1, <3>2
    <3>4. ASSUME altered' = 1 PROVE AllButOneGenuine'
      <4>1. \A k \in 1..n : got[k] \in AllFrames
        BY <2>1, <2>5, <3>4 DEF GotInv
      <4>2. \A k \in 1..(n + 1) : k # n + 1 => got'[k] \in AllFrames
        <5> TAKE k \in 1..(n + 1)
        <5> HAVE k # n + 1
        <5>1. k \in 1..n
          BY <2>1
        <5> QED
          BY <3>3, <4>1, <5>1
      <4>3. n + 1 \in 1..(n + 1)
        BY <2>1
      <4> HIDE DEF n
      <4> QED
        BY <2>2, <3>3, <4>2, <4>3 DEF AllButOneGenuine
    <3>5. altered' \in Nat /\ altered' <= n + 1 /\ altered' # 0
      BY <2>1, <2>5
    <3> HIDE DEF n
    <3> QED
      BY <2>1, <2>2, <3>3, <3>4, <3>5 DEF GotInv
  <2> QED
    BY <1>3, <2>4, <2>5 DEF Arrives
<1> QED
  BY <1>1, <1>2, <1>3 DEF Next, vars, Streaming

\* fs is the frames, in order, of a call for m that returned.
FramesOf(fs, m) ==
  /\ fs \in Seq(Frame) /\ Len(fs) \in Nat \ {0} /\ Len(fs) <= MaxFragments
  /\ call[m].offset \in Nat /\ call[m].offset <= Length[m]
  /\ call[m].mtu \in Nat \ {0}
  /\ Len(fs) = Pieces(Length[m], call[m].mtu, Overhead(Len(fs)))
  /\ FlattenSeq(Bodies(fs)) = Bytes(m, 0, call[m].offset)
  /\ \A k \in 1..Len(fs) :
       /\ fs[k] \in Frame /\ fs[k].digest = m /\ fs[k].i = k - 1 /\ fs[k].n = Len(fs)
       /\ Size(fs[k]) <= call[m].mtu
       /\ \A p \in 1..Len(fs[k].body) : fs[k].body[p] \in {m} \X (1..call[m].offset)
  /\ ToSet(fs) = {fs[k] : k \in 1..Len(fs)}
  /\ ToSet(fs) \subseteq AllFrames

\* A call that returned: its frames, in order, and what they hold.
LEMMA DoneFrames ==
  ASSUME CallsInv, path = "datagrams", NEW m \in Message, call[m].phase = "done"
  PROVE  FramesOf(Frames(m), m)
<1> PICK fs : fs = Frames(m)
  OBVIOUS
<1> DEFINE c == call[m]
<1>1. GoodCall(m, c) /\ m \in DOMAIN call
  BY DEF CallsInv
<1>2. fs = c.frames /\ Len(fs) = c.total
  BY <1>1 DEF Frames, GoodCall
<1>3. /\ fs \in Seq(Frame) /\ c.total \in Nat \ {0} /\ c.offset \in Nat /\ c.mtu \in Nat \ {0}
      /\ c.offset <= Length[m] /\ GoodCut(m, c)
      /\ \A k \in 1..Len(fs) : CutFrom(fs[k], k, m, c)
  BY <1>1, <1>2 DEF GoodCall
<1>4. \A k \in 1..Len(fs) : fs[k] \in Frame
  BY <1>3, ElementOfSeq
<1>5. ToSet(fs) = {fs[k] : k \in 1..Len(fs)}
  BY <1>3, LenProperties DEF ToSet
<1>6. ToSet(fs) \subseteq AllFrames
  BY <1>1 DEF AllFrames
<1> HIDE DEF c
<1>7. /\ Len(fs) <= MaxFragments
      /\ Len(fs) = Pieces(Length[m], c.mtu, Overhead(Len(fs)))
      /\ FlattenSeq(Bodies(fs)) = Bytes(m, 0, c.offset)
  BY <1>2, <1>3 DEF GoodCut
<1>8. \A k \in 1..Len(fs) :
        /\ fs[k].digest = m /\ fs[k].i = k - 1 /\ fs[k].n = Len(fs)
        /\ Size(fs[k]) <= c.mtu
        /\ \A p \in 1..Len(fs[k].body) : fs[k].body[p] \in {m} \X (1..c.offset)
  BY <1>2, <1>3 DEF CutFrom
<1> QED
  BY <1>2, <1>3, <1>4, <1>5, <1>6, <1>7, <1>8 DEF c, FramesOf

\* A genuine frame is one of the frames of the call that its digest names.
LEMMA GenuineFrame ==
  ASSUME CallsInv, path = "datagrams", NEW f \in AllFrames
  PROVE  /\ f \in Frame /\ f.digest \in Message /\ call[f.digest].phase = "done"
         /\ f.n = Len(Frames(f.digest)) /\ f.i + 1 \in 1..f.n /\ f.i \in Nat
         /\ Frames(f.digest)[f.i + 1] = f
         /\ \A p \in 1..Len(f.body) : f.body[p] \in {f.digest} \X (1..call[f.digest].offset)
<1>1. PICK m \in Message : f \in ToSet(Frames(m))
  BY DEF AllFrames, CallsInv
<1>2. call[m].phase = "done"
  BY <1>1 DEF Frames, ToSet
<1> PICK fs : fs = Frames(m)
  OBVIOUS
<1>3. /\ Len(fs) \in Nat /\ ToSet(fs) = {fs[k] : k \in 1..Len(fs)}
      /\ \A k \in 1..Len(fs) :
           /\ fs[k] \in Frame /\ fs[k].digest = m /\ fs[k].i = k - 1 /\ fs[k].n = Len(fs)
           /\ \A p \in 1..Len(fs[k].body) : fs[k].body[p] \in {m} \X (1..call[m].offset)
  <2>1. FramesOf(fs, m)
    BY <1>1, <1>2, DoneFrames
  <2> QED
    BY <2>1 DEF FramesOf
<1>4. PICK k \in 1..Len(fs) : f = fs[k]
  BY <1>1, <1>3
<1>5. f.digest = m /\ f.i = k - 1 /\ f.n = Len(fs) /\ f \in Frame
  BY <1>3, <1>4
<1>6. f.i + 1 = k
  BY <1>3, <1>5
<1> QED
  BY <1>2, <1>3, <1>4, <1>5, <1>6

\* The first frame of several does not hold the whole payload: the header it
\* has is shorter than the longest by less than the number of frames.
LEMMA FirstIsNotAll ==
  ASSUME NEW l \in Nat, NEW mtu \in Nat \ {0}, NEW t \in Nat, t >= 2,
         t = Pieces(l, mtu, Overhead(t))
  PROVE  ~ (HeaderLen(0, t) + l <= mtu)
<1> DEFINE o == Overhead(t)
<1>1. PICK i \in 0..(t - 1) : o = HeaderLen(i, t)
  BY OverheadIsMax
<1>2. o \in Nat
  BY OverheadIsMax
<1>3. PICK c \in Nat \ {0} : c >= mtu - o /\ c * (t - 1) + 1 <= l
  BY <1>2, PiecesSuffice
<1>4. /\ HeaderLen(i, t) = Base + Digits[i] + Digits[t]
      /\ HeaderLen(0, t) = Base + Digits[0] + Digits[t]
      /\ Base \in Nat /\ Digits[i] \in Nat /\ Digits[t] \in Nat /\ Digits[0] = 1
      /\ Digits[i] <= t - 1
  <2>1. Base \in Nat
    BY FragmentAssumption
  <2>2. i \in Nat /\ 0 \in Nat
    BY <1>1
  <2>3. Digits[i] \in Nat /\ Digits[t] \in Nat /\ Digits[0] = 1
    BY <2>2, DigitsBounds
  <2>4. Digits[i] <= t - 1
    <3>1. CASE i = 0
      BY <2>3, <3>1
    <3>2. CASE i # 0
      <4>1. i >= 1 /\ i <= t - 1
        BY <1>1, <3>2
      <4>2. Digits[i] <= i
        BY <2>2, <4>1, DigitsBounds
      <4> QED
        BY <2>2, <2>3, <4>1, <4>2
    <3> QED
      BY <3>1, <3>2
  <2> QED
    BY <2>1, <2>3, <2>4 DEF HeaderLen
<1>5. c * (t - 1) >= (t - 2) + c
  <2> DEFINE u == t - 2
  <2>1. u \in Nat /\ t - 1 = u + 1
    OBVIOUS
  <2> HIDE DEF u
  <2>2. (u + 1) * c = u * c + c /\ u * c \in Nat
    BY <2>1, OneMoreTime
  <2>3. u * c >= u
    BY <2>1
  <2>4. c * (t - 1) = u * c + c
    BY <2>1, <2>2
  <2> QED
    BY <2>1, <2>2, <2>3, <2>4 DEF u
<1> HIDE DEF o
<1>6. c * (t - 1) \in Nat
  OBVIOUS
<1> DEFINE x == c * (t - 1)
<1> HIDE DEF x
<1>7. x \in Nat /\ x >= (t - 2) + c /\ x + 1 <= l
  BY <1>3, <1>5, <1>6 DEF x
<1> QED
  BY <1>1, <1>2, <1>3, <1>4, <1>7

-----------------------------------------------------------------------------
(***************************************************************************)
(* Reassembling                                                            *)
(***************************************************************************)

\* The values of a sequence or function on 1..n are one and the same if there
\* is but one of them.
LEMMA OneValue ==
  ASSUME NEW n \in Nat, NEW v, Cardinality({v[k] : k \in 1..n}) = 1
  PROVE  \A j, k \in 1..n : v[j] = v[k]
<1> DEFINE S == {v[k] : k \in 1..n}
           f == [k \in 1..n |-> v[k]]
<1>1. f \in Surjection(1..n, S)
  BY DEF Surjection
<1>2. IsFiniteSet(1..n)
  BY FS_Interval
<1> HIDE DEF f
<1>3. IsFiniteSet(S)
  BY <1>1, <1>2, FS_Surjection
<1>4. PICK x : S = {x}
  BY <1>3, FS_Singleton
<1> QED
  BY <1>4

\* A numbering of 1..n that leaves out none of n numbers repeats none.
LEMMA NoneLeftOutNoneTwice ==
  ASSUME NEW n \in Nat, NEW w, {w[k] : k \in 1..n} = 0..(n - 1)
  PROVE  \A j, k \in 1..n : w[j] = w[k] => j = k
<1> DEFINE f == [k \in 1..n |-> w[k]]
           S == 1..n
           T == 0..(n - 1)
<1>1. f \in Surjection(S, T)
  BY DEF Surjection
<1>2. IsFiniteSet(S) /\ Cardinality(S) = n /\ Cardinality(T) = n
  BY FS_Interval
<1>3. f \in Injection(S, T)
  <2> HIDE DEF f, S, T
  <2> QED
    BY <1>1, <1>2, FS_SurjSameCardinalityImpliesInj
<1>4. IsInjective(f)
  BY <1>3 DEF Injection
<1> QED
  BY <1>4 DEF IsInjective

\* The members of a sequence of frames.
LEMMA FramesSet ==
  ASSUME NEW g \in Seq(Frame)
  PROVE  /\ Len(g) \in Nat /\ \A k \in 1..Len(g) : g[k] \in Frame /\ g[k] \in ToSet(g)
         /\ ToSet(g) = {g[k] : k \in 1..Len(g)}
         /\ g # <<>> => 1 \in 1..Len(g)
<1>1. Len(g) \in Nat /\ DOMAIN g = 1..Len(g) /\ \A k \in 1..Len(g) : g[k] \in Frame
  BY LenProperties, ElementOfSeq
<1>2. g # <<>> => Len(g) # 0
  BY EmptySeq
<1> QED
  BY <1>1, <1>2 DEF ToSet

\* What the comparisons of a whole set say of its frames, one by one.
LEMMA WholeSetShape ==
  ASSUME NEW g \in Seq(Frame), g # <<>>, WholeSet(g)
  PROVE  /\ \A k \in 1..Len(g) : /\ g[k].n = Len(g) /\ g[k].digest = g[1].digest
                                 /\ g[k].i + 1 \in 1..Len(g)
         /\ \A j, k \in 1..Len(g) : g[j].i = g[k].i => j = k
         /\ \A q \in 1..Len(g) : \E k \in 1..Len(g) : g[k].i = q - 1
<1> DEFINE l == Len(g)
           N == [k \in 1..l |-> g[k].n]
           D == [k \in 1..l |-> g[k].digest]
           W == [k \in 1..l |-> g[k].i]
<1>1. l \in Nat /\ 1 \in 1..l /\ ToSet(g) = {g[k] : k \in 1..l}
  BY FramesSet
<1>2. g[1].n = l
  BY DEF WholeSet
<1>3. {f.n : f \in ToSet(g)} = {N[k] : k \in 1..l}
  BY <1>1
<1>4. {f.digest : f \in ToSet(g)} = {D[k] : k \in 1..l}
  BY <1>1
<1>5. {f.i : f \in ToSet(g)} = {W[k] : k \in 1..l}
  BY <1>1
<1>6. \A j, k \in 1..l : N[j] = N[k]
  <2>1. Cardinality({N[k] : k \in 1..l}) = 1
    BY <1>3, Zenon DEF WholeSet
  <2> HIDE DEF N, l
  <2> QED
    BY <1>1, <2>1, OneValue
<1>7. \A j, k \in 1..l : D[j] = D[k]
  <2>1. Cardinality({D[k] : k \in 1..l}) = 1
    BY <1>4, Zenon DEF WholeSet
  <2> HIDE DEF D, l
  <2> QED
    BY <1>1, <2>1, OneValue
<1>8. {W[k] : k \in 1..l} = 0..(l - 1)
  BY <1>5, Zenon DEF WholeSet
<1>9. \A j, k \in 1..l : W[j] = W[k] => j = k
  <2> HIDE DEF W, l
  <2> QED
    BY <1>1, <1>8, NoneLeftOutNoneTwice
<1>10. \A k \in 1..l : g[k].n = l /\ g[k].digest = g[1].digest
  BY <1>1, <1>2, <1>6, <1>7
<1>11. \A k \in 1..l : g[k].i \in 0..(l - 1)
  BY <1>8
<1>12. \A q \in 1..l : \E k \in 1..l : g[k].i = q - 1
  <2> TAKE q \in 1..l
  <2>1. q - 1 \in 0..(l - 1)
    BY <1>1
  <2> QED
    BY <1>8, <2>1
<1>13. \A k \in 1..l : g[k].i + 1 \in 1..l
  <2> TAKE k \in 1..l
  <2>1. g[k].i \in 0..(l - 1)
    BY <1>11
  <2> HIDE DEF l
  <2> QED
    BY <1>1, <2>1
<1>14. \A j, k \in 1..l : g[j].i = g[k].i => j = k
  BY <1>9
<1> QED
  BY <1>10, <1>12, <1>13, <1>14

\* The bodies in the order of their indices, as reassemble joins them.
Sorted(g) ==
  [k \in 1..Len(g) |-> (CHOOSE f \in ToSet(g) : f.i = k - 1).body]

\* A whole set has a body for every index, and each frame's is at its own.
LEMMA SortedBodies ==
  ASSUME NEW g \in Seq(Frame), g # <<>>, WholeSet(g)
  PROVE  /\ Sorted(g) \in Seq(Seq(Byte)) /\ Len(Sorted(g)) = Len(g)
         /\ \A k \in 1..Len(g) : Sorted(g)[g[k].i + 1] = g[k].body
         /\ Joined(g) = FlattenSeq(Sorted(g))
<1>1. /\ Len(g) \in Nat /\ \A k \in 1..Len(g) : g[k] \in Frame /\ g[k] \in ToSet(g)
      /\ ToSet(g) = {g[k] : k \in 1..Len(g)}
  BY FramesSet
<1>2. ASSUME NEW k \in 1..Len(g)
      PROVE  (CHOOSE f \in ToSet(g) : f.i = (g[k].i + 1) - 1) = g[k]
  <2>1. \A f \in ToSet(g) : f.i = g[k].i => f = g[k]
    BY <1>1, WholeSetShape, ZenonT(40)
  <2>2. (g[k].i + 1) - 1 = g[k].i
    <3>1. g[k].i \in Nat
      BY <1>1 DEF Frame
    <3> QED
      BY <3>1
  <2> QED
    BY <1>1, <2>1, <2>2
<1>3. \A k \in 1..Len(g) : Sorted(g)[g[k].i + 1] = g[k].body
  <2> TAKE k \in 1..Len(g)
  <2>1. g[k].i + 1 \in 1..Len(g)
    BY WholeSetShape
  <2> QED
    BY <1>2, <2>1 DEF Sorted
<1>4. ASSUME NEW q \in 1..Len(g)
      PROVE  Sorted(g)[q] \in Seq(Byte)
  <2>1. PICK k \in 1..Len(g) : g[k].i = q - 1
    BY WholeSetShape
  <2>2. q = g[k].i + 1
    BY <1>1, <2>1
  <2>3. g[k].body \in Seq(Byte)
    BY <1>1 DEF Frame, Byte
  <2> QED
    BY <1>3, <2>2, <2>3
<1>5. Sorted(g) = [k \in 1..Len(g) |-> Sorted(g)[k]]
  BY DEF Sorted
<1>6. Sorted(g) \in Seq(Seq(Byte)) /\ Len(Sorted(g)) = Len(g)
  BY <1>1, <1>4, <1>5, SeqDef, LenProperties
<1>7. Joined(g) = FlattenSeq(Sorted(g))
  BY DEF Joined, Sorted
<1> QED
  BY <1>3, <1>6, <1>7

\* What arrives, but for None, is a genuine frame or one with a field of
\* another.
LEMMA ArrivingShape ==
  ASSUME CallsInv, path = "datagrams", NEW a \in Arriving, a # None
  PROVE  /\ a \in Frame
         /\ \E f, h \in AllFrames :
              \/ a.i = f.i /\ a.n = f.n /\ a.digest = f.digest /\ a.body = h.body
              \/ a.i = h.i /\ a.n = f.n /\ a.digest = f.digest /\ a.body = f.body
              \/ a.i = f.i /\ a.n = h.n /\ a.digest = f.digest /\ a.body = f.body
              \/ a.i = f.i /\ a.n = f.n /\ a.digest = h.digest /\ a.body = f.body
<1>1. \A f \in AllFrames : f \in Frame
  BY GenuineFrame
<1>2. CASE a \in AllFrames
  BY <1>1, <1>2
<1>3. ASSUME NEW f \in AllFrames, a \in Variants(f)
      PROVE  /\ a \in Frame
             /\ \E h \in AllFrames :
                  \/ a.i = f.i /\ a.n = f.n /\ a.digest = f.digest /\ a.body = h.body
                  \/ a.i = h.i /\ a.n = f.n /\ a.digest = f.digest /\ a.body = f.body
                  \/ a.i = f.i /\ a.n = h.n /\ a.digest = f.digest /\ a.body = f.body
                  \/ a.i = f.i /\ a.n = f.n /\ a.digest = h.digest /\ a.body = f.body
  <2>1. PICK h \in AllFrames : \/ a = [f EXCEPT !.body = h.body]
                               \/ a = [f EXCEPT !.i = h.i]
                               \/ a = [f EXCEPT !.n = h.n]
                               \/ a = [f EXCEPT !.digest = h.digest]
    BY <1>3 DEF Variants
  <2>2. f \in Frame /\ h \in Frame
    BY <1>1
  <2>3. /\ a \in Frame
        /\ \/ a.i = f.i /\ a.n = f.n /\ a.digest = f.digest /\ a.body = h.body
           \/ a.i = h.i /\ a.n = f.n /\ a.digest = f.digest /\ a.body = f.body
           \/ a.i = f.i /\ a.n = h.n /\ a.digest = f.digest /\ a.body = f.body
           \/ a.i = f.i /\ a.n = f.n /\ a.digest = h.digest /\ a.body = f.body
    BY <2>1, <2>2 DEF Frame
  <2> QED
    BY <2>3
<1> QED
  BY <1>2, <1>3 DEF Arriving

\* A receiver that holds no None holds frames.
LEMMA GotFrames ==
  ASSUME CallsInv, GotInv, path = "datagrams", None \notin ToSet(got)
  PROVE  got \in Seq(Frame)
<1>1. Len(got) \in Nat /\ DOMAIN got = 1..Len(got) /\ got = [k \in 1..Len(got) |-> got[k]]
  BY LenProperties DEF GotInv
<1>2. \A k \in 1..Len(got) : got[k] \in Frame
  <2> TAKE k \in 1..Len(got)
  <2>1. got[k] \in Arriving
    BY ElementOfSeq DEF GotInv
  <2>2. got[k] # None
    BY <1>1 DEF ToSet
  <2> QED
    BY <2>1, <2>2, ArrivingShape
<1> QED
  BY <1>1, <1>2, IsASeq

\* Once the frames of a payload are there, in any order, reassemble accepts them.
LEMMA ArrangementIsAccepted ==
  ASSUME CallsInv, GotInv, path = "datagrams", NEW m \in Message,
         Whole(m), ArrangementOf(m), TotalSize(got) <= MaxTotalBytes
  PROVE  Reassembles(got)
<1> PICK fs : fs = Frames(m)
  OBVIOUS
<1> PICK l : l = Len(fs)
  OBVIOUS
<1>1. call[m].phase = "done" /\ call[m].offset = Length[m]
  BY DEF Whole
<1>2. /\ fs \in Seq(Frame) /\ l \in Nat \ {0} /\ l <= MaxFragments
      /\ FlattenSeq(Bodies(fs)) = Bytes(m, 0, call[m].offset)
      /\ \A k \in 1..l : /\ fs[k] \in Frame /\ fs[k].digest = m /\ fs[k].i = k - 1
                         /\ fs[k].n = l
      /\ ToSet(fs) = {fs[k] : k \in 1..l}
  <2>1. FramesOf(fs, m)
    BY <1>1, DoneFrames
  <2> QED
    BY <2>1 DEF FramesOf
<1>3. Len(got) = l /\ ToSet(got) = {fs[k] : k \in 1..l}
  BY <1>2 DEF ArrangementOf
<1>4. None \notin ToSet(got)
  BY <1>2, <1>3, NoneAssumption
<1>5. got \in Seq(Frame) /\ got # <<>>
  <2>1. got \in Seq(Frame)
    BY <1>4, GotFrames
  <2>2. Len(<<>>) = 0
    BY EmptySeq
  <2> QED
    BY <1>2, <1>3, <2>1, <2>2
<1>6. /\ 1 \in 1..l /\ ToSet(got) = {got[k] : k \in 1..l}
      /\ \A k \in 1..l : got[k] \in ToSet(got)
  BY <1>3, <1>5, FramesSet
<1>7. \A f \in ToSet(got) : f.n = l /\ f.digest = m /\ f.i \in 0..(l - 1)
  BY <1>2, <1>3
<1>8. WholeSet(got)
  <2>1. {f.n : f \in ToSet(got)} = {l}
    BY <1>6, <1>7
  <2>2. {f.digest : f \in ToSet(got)} = {m}
    BY <1>6, <1>7
  <2>3. {f.i : f \in ToSet(got)} = 0..(l - 1)
    <3>1. ASSUME NEW i \in 0..(l - 1)
          PROVE  \E f \in ToSet(got) : f.i = i
      <4>1. i + 1 \in 1..l /\ (i + 1) - 1 = i
        BY <1>2
      <4> QED
        BY <1>2, <1>3, <4>1
    <3> QED
      BY <1>7, <3>1
  <2>4. got[1].n = l
    BY <1>6, <1>7
  <2>5. Cardinality({l}) = 1 /\ Cardinality({m}) = 1
    BY FS_Singleton
  <2> QED
    BY <1>3, <2>1, <2>2, <2>3, <2>4, <2>5 DEF WholeSet
<1>9. Sorted(got) = Bodies(fs)
  <2>1. ASSUME NEW q \in 1..l
        PROVE  Sorted(got)[q] = fs[q].body
    <3>1. PICK k \in 1..l : got[k].i = q - 1
      BY <1>3, <1>5, <1>8, WholeSetShape
    <3>2. PICK r \in 1..l : got[k] = fs[r]
      BY <1>3, <1>6
    <3>3. r = q /\ got[k].i + 1 = q
      <4>1. fs[r].i = r - 1
        BY <1>2
      <4> QED
        BY <1>2, <3>1, <3>2, <4>1
    <3>4. Sorted(got)[got[k].i + 1] = got[k].body
      BY <1>3, <1>5, <1>8, SortedBodies
    <3> QED
      BY <3>2, <3>3, <3>4
  <2>2. Sorted(got) = [q \in 1..l |-> Sorted(got)[q]]
    BY <1>3 DEF Sorted
  <2>3. Bodies(fs) = [q \in 1..l |-> fs[q].body]
    BY DEF Bodies
  <2> QED
    BY <2>1, <2>2, <2>3
<1>10. Joined(got) = Payload(got[1].digest)
  <2>1. Joined(got) = FlattenSeq(Sorted(got))
    BY <1>5, <1>8, SortedBodies
  <2>2. got[1].digest = m
    BY <1>6, <1>7
  <2> QED
    BY <1>1, <1>2, <1>9, <2>1, <2>2 DEF Payload
<1>11. \A f \in ToSet(got) : f.n <= MaxFragments /\ f.i < f.n
  BY <1>2, <1>7
<1> QED
  BY <1>2, <1>3, <1>4, <1>5, <1>8, <1>10, <1>11 DEF Reassembles, DigestMatches

\* A single sequence, joined, is itself.
LEMMA FlattenOne ==
  ASSUME NEW S, NEW seqs \in Seq(Seq(S)), Len(seqs) = 1
  PROVE  FlattenSeq(seqs) = seqs[1]
<1>1. PICK g \in [1..Len(seqs) -> Seq(S)] : Joins(g, seqs)
  BY JoinsExist
<1>2. FlattenSeq(seqs) = g[Len(seqs)]
  <2>1. Len(seqs) # 0
    OBVIOUS
  <2> QED
    BY <1>1, <2>1, FlattenIsLast
<1>3. 1 \in 1..Len(seqs)
  OBVIOUS
<1> QED
  BY <1>1, <1>2, <1>3 DEF Joins

\* What an accepted buffer looks like.
LEMMA AcceptedShape ==
  ASSUME CallsInv, GotInv, path = "datagrams", Reassembles(got)
  PROVE  /\ got \in Seq(Frame) /\ got # <<>> /\ WholeSet(got)
         /\ Len(got) \in Nat /\ 1 \in 1..Len(got)
         /\ \A k \in 1..Len(got) : got[k] \in Frame /\ got[k] \in Arriving /\ got[k] # None
         /\ got[1].digest \in Message /\ call[got[1].digest].phase = "done"
         /\ FlattenSeq(Sorted(got)) = Payload(got[1].digest)
<1>1. /\ got # <<>> /\ None \notin ToSet(got) /\ WholeSet(got) /\ DigestMatches(got)
  BY DEF Reassembles
<1>2. got \in Seq(Frame)
  BY <1>1, GotFrames
<1>3. /\ Len(got) \in Nat /\ 1 \in 1..Len(got)
      /\ \A k \in 1..Len(got) : got[k] \in Frame /\ got[k] # None
  BY <1>1, <1>2, FramesSet
<1>4. \A k \in 1..Len(got) : got[k] \in Arriving
  BY ElementOfSeq DEF GotInv
<1>5. got[1].digest \in Message /\ call[got[1].digest].phase = "done"
  <2>1. PICK f, h \in AllFrames : got[1].digest = f.digest \/ got[1].digest = h.digest
    BY <1>3, <1>4, ArrivingShape
  <2> QED
    BY <2>1, GenuineFrame
<1>6. FlattenSeq(Sorted(got)) = Payload(got[1].digest)
  BY <1>1, <1>2, SortedBodies DEF DigestMatches
<1> QED
  BY <1>1, <1>2, <1>3, <1>4, <1>5, <1>6

\* The last byte of a payload that was accepted is in the body of a genuine
\* frame, so its call had cut that far.
LEMMA AcceptedIsWhole ==
  ASSUME CallsInv, GotInv, path = "datagrams", Reassembles(got)
  PROVE  Whole(got[1].digest)
<1> PICK d : d = got[1].digest
  OBVIOUS
<1> PICK s : s = Sorted(got)
  OBVIOUS
<1>1. /\ got \in Seq(Frame) /\ got # <<>> /\ WholeSet(got)
      /\ \A k \in 1..Len(got) : got[k] \in Frame /\ got[k] \in Arriving /\ got[k] # None
      /\ d \in Message /\ call[d].phase = "done" /\ FlattenSeq(s) = Payload(d)
  BY AcceptedShape
<1>2. call[d].offset \in Nat /\ call[d].offset <= Length[d] /\ Length[d] \in Nat
  <2>1. GoodCall(d, call[d])
    BY <1>1 DEF CallsInv
  <2> QED
    BY <1>1, <2>1, PayloadAssumption DEF GoodCall
<1>3. s \in Seq(Seq(Byte)) /\ Len(s) = Len(got)
  BY <1>1, SortedBodies
<1>4. CASE Length[d] = 0
  BY <1>1, <1>2, <1>4 DEF Whole
<1>5. CASE Length[d] # 0
  <2> PICK p : p = Length[d]
    OBVIOUS
  <2>1. p \in Nat /\ p \in 1..p
    BY <1>2, <1>5
  <2>2. Len(FlattenSeq(s)) = p /\ FlattenSeq(s)[p] = <<d, p>>
    <3>1. 0 \in Nat /\ 0 <= p /\ p - 0 = p /\ 0 + p = p
      BY <2>1
    <3>2. /\ Len(Bytes(d, 0, p)) = p - 0
          /\ \A k \in 1..(p - 0) : Bytes(d, 0, p)[k] = <<d, 0 + k>>
      BY <1>1, <2>1, <3>1, BytesType
    <3> QED
      BY <1>1, <2>1, <3>1, <3>2 DEF Payload
  <2>3. Within(<<d, p>>, s)
    BY <1>3, <2>1, <2>2, FlattenElements
  <2>4. PICK q \in 1..Len(got) : \E i \in 1..Len(s[q]) : <<d, p>> = s[q][i]
    BY <1>3, <2>3 DEF Within
  <2>5. PICK k \in 1..Len(got) : got[k].i = q - 1
    BY <1>1, WholeSetShape
  <2>6. s[q] = got[k].body
    <3>1. s[got[k].i + 1] = got[k].body
      BY <1>1, SortedBodies
    <3>2. got[k].i + 1 = q
      BY <2>5
    <3> QED
      BY <3>1, <3>2
  <2>7. PICK h \in AllFrames : got[k].body = h.body
    BY <1>1, ArrivingShape
  <2>8. PICK i \in 1..Len(h.body) : <<d, p>> = h.body[i]
    BY <2>4, <2>6, <2>7
  <2>9. <<d, p>> \in {h.digest} \X (1..call[h.digest].offset)
    BY <2>8, GenuineFrame
  <2>10. h.digest = d /\ p <= call[d].offset
    BY <1>2, <2>9
  <2> QED
    BY <1>1, <1>2, <2>10 DEF Whole
<1> QED
  BY <1>4, <1>5

\* An accepted datagram that is alone is of a payload of a single frame.
LEMMA AloneIsSingle ==
  ASSUME CallsInv, GotInv, path = "datagrams", Reassembles(got), Len(got) = 1
  PROVE  Len(Frames(got[1].digest)) = 1
<1> PICK g : g = got[1]
  OBVIOUS
<1> PICK d : d = g.digest
  OBVIOUS
<1>1. /\ got \in Seq(Frame) /\ got # <<>> /\ WholeSet(got)
      /\ g \in Frame /\ g \in Arriving /\ g # None
      /\ d \in Message /\ call[d].phase = "done" /\ FlattenSeq(Sorted(got)) = Payload(d)
  BY AcceptedShape
<1>2. g.n = 1 /\ g.i = 0
  <2>1. 1 \in 1..Len(got)
    OBVIOUS
  <2>2. g.n = 1 /\ g.i + 1 \in 1..1
    BY <1>1, <2>1, WholeSetShape
  <2>3. g.i \in Nat
    BY <1>1 DEF Frame
  <2> QED
    BY <2>2, <2>3
<1>3. g.body = Payload(d)
  <2>1. Sorted(got) \in Seq(Seq(Byte)) /\ Len(Sorted(got)) = 1 /\ Sorted(got)[g.i + 1] = g.body
    <3>1. 1 \in 1..Len(got)
      OBVIOUS
    <3> QED
      BY <1>1, <3>1, SortedBodies
  <2>2. FlattenSeq(Sorted(got)) = Sorted(got)[1]
    BY <2>1, FlattenOne
  <2> QED
    BY <1>1, <1>2, <2>1, <2>2
<1>4. /\ Length[d] \in Nat /\ Len(g.body) = Length[d]
      /\ \A k \in 1..Length[d] : g.body[k] = <<d, k>>
  <2>1. Length[d] \in Nat
    BY <1>1, PayloadAssumption
  <2>2. /\ Len(Bytes(d, 0, Length[d])) = Length[d] - 0
        /\ \A k \in 1..(Length[d] - 0) : Bytes(d, 0, Length[d])[k] = <<d, 0 + k>>
    <3>1. 0 \in Nat /\ 0 <= Length[d]
      BY <2>1
    <3> QED
      BY <1>1, <2>1, <3>1, BytesType, ZenonT(40)
  <2> QED
    BY <1>3, <2>1, <2>2 DEF Payload
<1>5. PICK f, h \in AllFrames :
        \/ g.i = f.i /\ g.n = f.n /\ g.digest = f.digest /\ g.body = h.body
        \/ g.i = h.i /\ g.n = f.n /\ g.digest = f.digest /\ g.body = f.body
        \/ g.i = f.i /\ g.n = h.n /\ g.digest = f.digest /\ g.body = f.body
        \/ g.i = f.i /\ g.n = f.n /\ g.digest = h.digest /\ g.body = f.body
  BY <1>1, ArrivingShape
<1>6. /\ f \in Frame /\ f.digest \in Message /\ call[f.digest].phase = "done"
      /\ f.n = Len(Frames(f.digest)) /\ f.i + 1 \in 1..f.n /\ f.i \in Nat
      /\ Frames(f.digest)[f.i + 1] = f
      /\ \A p \in 1..Len(f.body) : f.body[p] \in {f.digest} \X (1..call[f.digest].offset)
  BY <1>5, GenuineFrame
<1> PICK l : l = Len(Frames(d))
  OBVIOUS
<1>7. /\ l \in Nat \ {0} /\ call[d].mtu \in Nat \ {0}
      /\ l = Pieces(Length[d], call[d].mtu, Overhead(l))
      /\ \A k \in 1..l : Size(Frames(d)[k]) <= call[d].mtu
  <2>1. FramesOf(Frames(d), d)
    BY <1>1, DoneFrames
  <2> QED
    BY <2>1 DEF FramesOf
<1>8. CASE f.digest = d /\ g.n = f.n
  BY <1>2, <1>6, <1>8
<1>9. CASE g.i = f.i /\ g.digest = f.digest /\ g.body = f.body
  <2>1. f.digest = d /\ f.i = 0 /\ f.n = l /\ Frames(d)[1] = f /\ Len(f.body) = Length[d]
    BY <1>2, <1>4, <1>6, <1>9
  <2>2. Size(f) <= call[d].mtu
    BY <1>7, <2>1
  <2>3. Size(f) = HeaderLen(0, l) + Length[d]
    BY <2>1 DEF Size
  <2>4. l >= 2 => ~ (HeaderLen(0, l) + Length[d] <= call[d].mtu)
    BY <1>4, <1>7, FirstIsNotAll
  <2>5. ~ (l >= 2)
    BY <2>2, <2>3, <2>4
  <2>6. l = 1
    <3>1. l \in Nat \ {0}
      BY <1>7
    <3> QED
      BY <2>5, <3>1
  <2> QED
    BY <2>6
<1>10. CASE g.n = f.n /\ g.body = f.body /\ f.digest # d
  <2>1. Length[d] = 0
    <3> SUFFICES ASSUME Length[d] # 0 PROVE FALSE
      OBVIOUS
    <3>1. 1 \in 1..Length[d]
      BY <1>4
    <3>2. f.body[1] = <<d, 1>> /\ f.body[1] \in {f.digest} \X (1..call[f.digest].offset)
      BY <1>4, <1>6, <1>10, <3>1
    <3> QED
      BY <1>10, <3>2
  <2>2. Overhead(l) \in Nat
    BY <1>7, OverheadIsMax
  <2>3. l = Pieces(0, call[d].mtu, Overhead(l))
    BY <1>7, <2>1
  <2>4. l = 1
    BY <1>7, <2>2, <2>3, PiecesSuffice, ZenonT(40)
  <2> QED
    BY <2>4
<1> QED
  BY <1>5, <1>8, <1>9, <1>10

\* Of two records of frames with the same fields there is one.
LEMMA SameFrame ==
  ASSUME NEW f \in Frame, NEW g \in Frame,
         f.digest = g.digest, f.i = g.i, f.n = g.n, f.body = g.body
  PROVE  f = g
BY DEF Frame

\* All datagrams but one are the frames that their indices name; what they are
\* joined to leaves the last one no choice either.
LEMMA AcceptedIsExact ==
  ASSUME CallsInv, GotInv, path = "datagrams", Reassembles(got), altered <= 1
  PROVE  ArrangementOf(got[1].digest)
<1> PICK d : d = got[1].digest
  OBVIOUS
<1> PICK fs : fs = Frames(d)
  OBVIOUS
<1> PICK l : l = Len(got)
  OBVIOUS
<1>1. /\ got \in Seq(Frame) /\ got # <<>> /\ WholeSet(got) /\ l \in Nat /\ 1 \in 1..l
      /\ \A k \in 1..l : got[k] \in Frame
      /\ d \in Message /\ call[d].phase = "done" /\ FlattenSeq(Sorted(got)) = Payload(d)
  BY AcceptedShape
<1>2. /\ \A k \in 1..l : got[k].n = l /\ got[k].digest = d /\ got[k].i + 1 \in 1..l
      /\ \A j, k \in 1..l : got[j].i = got[k].i => j = k
      /\ \A q \in 1..l : \E k \in 1..l : got[k].i = q - 1
  BY <1>1, WholeSetShape
<1>3. /\ fs \in Seq(Frame) /\ Len(fs) \in Nat
      /\ FlattenSeq(Bodies(fs)) = Bytes(d, 0, call[d].offset)
      /\ \A k \in 1..Len(fs) : /\ fs[k] \in Frame /\ fs[k].digest = d /\ fs[k].i = k - 1
                               /\ fs[k].n = Len(fs)
      /\ ToSet(fs) = {fs[k] : k \in 1..Len(fs)}
  <2>1. FramesOf(fs, d)
    BY <1>1, DoneFrames
  <2> QED
    BY <2>1 DEF FramesOf
<1>4. PICK j \in 1..l : \A k \in 1..l : k # j => got[k] \in AllFrames
  <2>1. altered = 0 \/ altered = 1
    BY DEF GotInv
  <2>2. CASE altered = 0
    BY <1>1, <2>2 DEF GotInv
  <2>3. CASE altered = 1
    BY <2>3 DEF GotInv, AllButOneGenuine
  <2> QED
    BY <2>1, <2>2, <2>3
<1>5. \A k \in 1..l : k # j => Len(fs) = l /\ fs[got[k].i + 1] = got[k]
  <2> TAKE k \in 1..l
  <2> HAVE k # j
  <2>1. got[k].n = Len(Frames(got[k].digest)) /\ Frames(got[k].digest)[got[k].i + 1] = got[k]
    BY <1>4, GenuineFrame
  <2> QED
    BY <1>2, <2>1
<1>6. Len(fs) = l
  <2>1. CASE l = 1
    BY <2>1, AloneIsSingle
  <2>2. CASE l # 1
    <3>1. PICK k \in 1..l : k # j
      <4>1. 1 \in 1..l /\ 2 \in 1..l
        BY <1>1, <2>2
      <4> QED
        BY <4>1
    <3> QED
      BY <1>5, <3>1
  <2> QED
    BY <2>1, <2>2
<1> PICK q : q = got[j].i + 1
  OBVIOUS
<1>7. q \in 1..l
  BY <1>2
<1>8. \A r \in 1..l : r # q => \E k \in 1..l : k # j /\ got[k].i + 1 = r /\ fs[r] = got[k]
  <2> TAKE r \in 1..l
  <2> HAVE r # q
  <2>1. PICK k \in 1..l : got[k].i = r - 1
    BY <1>2
  <2>2. got[k].i + 1 = r
    BY <2>1
  <2> QED
    BY <1>5, <2>2
<1>9. /\ Sorted(got) \in Seq(Seq(Byte)) /\ Len(Sorted(got)) = l
      /\ \A k \in 1..l : Sorted(got)[got[k].i + 1] = got[k].body
  BY <1>1, SortedBodies
<1>10. /\ Bodies(fs) \in Seq(Seq(Byte)) /\ Len(Bodies(fs)) = l
       /\ \A k \in 1..l : Bodies(fs)[k] = fs[k].body
  BY <1>3, <1>6, BodiesType
<1>11. got[j].body = fs[q].body
  <2>1. \A r \in 1..l : r # q => Sorted(got)[r] = Bodies(fs)[r]
    <3> TAKE r \in 1..l
    <3> HAVE r # q
    <3>1. PICK k \in 1..l : k # j /\ got[k].i + 1 = r /\ fs[r] = got[k]
      BY <1>8
    <3>2. Sorted(got)[got[k].i + 1] = got[k].body /\ Bodies(fs)[r] = fs[r].body
      BY <1>9, <1>10
    <3> QED
      BY <3>1, <3>2
  <2>2. FlattenSeq(Sorted(got)) = FlattenSeq(Bodies(fs))
    <3>1. call[d].offset = Length[d]
      BY AcceptedIsWhole DEF Whole
    <3> QED
      BY <1>1, <1>3, <3>1 DEF Payload
  <2>3. Sorted(got)[q] = Bodies(fs)[q]
    <3> PICK s, t : s = Sorted(got) /\ t = Bodies(fs)
      OBVIOUS
    <3>1. /\ s \in Seq(Seq(Byte)) /\ t \in Seq(Seq(Byte)) /\ Len(s) = l /\ Len(t) = l
          /\ q \in 1..Len(s) /\ \A r \in 1..Len(s) : r # q => s[r] = t[r]
          /\ FlattenSeq(s) = FlattenSeq(t)
      BY <1>7, <1>9, <1>10, <2>1, <2>2
    <3>2. s[q] = t[q]
      <4>1. Len(s) = Len(t)
        BY <3>1
      <4> QED
        BY <3>1, <4>1, FlattenCancels, ZenonT(40)
    <3> QED
      BY <3>2
  <2> QED
    BY <1>7, <1>9, <1>10, <2>3
<1>12. got[j] = fs[q]
  <2>1. got[j].n = fs[q].n /\ got[j].digest = fs[q].digest
    BY <1>2, <1>3, <1>6, <1>7, ZenonT(40)
  <2>2. got[j].i = fs[q].i
    <3>1. got[j].i \in Nat
      BY <1>1 DEF Frame
    <3>2. fs[q].i = q - 1
      BY <1>3, <1>6, <1>7
    <3> QED
      BY <3>1, <3>2
  <2> QED
    BY <1>1, <1>3, <1>6, <1>7, <1>11, <2>1, <2>2, SameFrame
<1>13. ToSet(got) = {got[k] : k \in 1..l}
  BY <1>1, FramesSet
<1>14. \A k \in 1..l : got[k] \in {fs[r] : r \in 1..l}
  <2> TAKE k \in 1..l
  <2>1. got[k].i + 1 \in 1..l /\ fs[got[k].i + 1] = got[k]
    BY <1>2, <1>5, <1>12
  <2> QED
    BY <2>1
<1>15. \A r \in 1..l : fs[r] \in {got[k] : k \in 1..l}
  <2> TAKE r \in 1..l
  <2>1. \E k \in 1..l : fs[r] = got[k]
    BY <1>8, <1>12
  <2> QED
    BY <2>1
<1>16. ToSet(got) = ToSet(fs)
  <2>1. ToSet(fs) = {fs[k] : k \in 1..l}
    BY <1>3, <1>6
  <2>2. {fs[k] : k \in 1..l} = {got[k] : k \in 1..l}
    <3> PICK A, B : A = {fs[k] : k \in 1..l} /\ B = {got[k] : k \in 1..l}
      OBVIOUS
    <3>1. A \subseteq B
      BY <1>15
    <3>2. B \subseteq A
      BY <1>14
    <3> QED
      BY <3>1, <3>2
  <2> QED
    BY <1>13, <2>1, <2>2
<1>17. Frames(d) = fs /\ Len(got) = Len(fs)
  BY <1>6
<1> QED
  BY <1>16, <1>17 DEF ArrangementOf

\* reassemble accepts the frames of a payload, in whatever order they came;
\* it returns only payloads that were cut whole; and with at most one datagram
\* altered it accepts nothing but all the frames of one payload, each once
\* (transport.py:210-251).
THEOREM ReassemblyAcceptsFramesOnly == Spec => []ReassemblyIsExact
<1>1. CallsInv /\ GotInv => ReassemblyIsExact
  BY ArrangementIsAccepted, AcceptedIsWhole, AcceptedIsExact DEF ReassemblyIsExact
<1> QED
  BY <1>1, InitCallsInv, NextCallsInv, InitGotInv, NextGotInv, PTL DEF Spec
=============================================================================
