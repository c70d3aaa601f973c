------------------------- MODULE OpaqueRelay_proofs -------------------------
(***************************************************************************)
(* What is proved of the relay, for any number of handles, any sizes of    *)
(* records, any limits and any interleaving of forward and receive.        *)
(***************************************************************************)
EXTENDS OpaqueRelay, SequenceTheorems, FiniteSetTheorems, TLAPS

\* The records accepted for a handle are numbered in the order they came in.
Numbered ==
  \A h \in Handle : \A i \in 1..Len(forwarded[h]) :
    forwarded[h][i].handle = h /\ forwarded[h][i].number = i

\* The dictionary, its queues and its bytes are finite, so they can be counted.
Countable ==
  /\ IsFiniteSet(DOMAIN queues)
  /\ IsFiniteSet(Places)
  /\ IsFiniteSet(WaitingBytes)

IInv ==
  /\ TypeOK /\ Numbered /\ Countable
  /\ OrderKept /\ BytesAreCounted /\ LimitsHold

\* A relay with no queue counts nothing.
LEMMA InitIInv == Init => IInv
<1> SUFFICES ASSUME Init PROVE IInv
  OBVIOUS
<1>1. DOMAIN queues = {} /\ Places = {} /\ WaitingRecords = {} /\ WaitingBytes = {}
  BY DEF Init, Places, WaitingRecords, WaitingBytes
<1>2. TypeOK /\ Numbered /\ OrderKept
  BY <1>1 DEF Init, TypeOK, Numbered, OrderKept, Queue, Known
<1>3. Countable /\ BytesAreCounted /\ LimitsHold
  BY <1>1, FS_EmptySet, RelayAssumption
     DEF Init, Countable, BytesAreCounted, LimitsHold, Waiting
<1> QED
  BY <1>2, <1>3 DEF IInv

-----------------------------------------------------------------------------
\* A handle without a deque has an empty queue.
LEMMA QueueType ==
  ASSUME TypeOK, NEW h \in Handle
  PROVE  Queue(h) \in Seq(Record)
BY DEF TypeOK, Queue, Known

\* What waits is what the queues of all the handles hold.
LEMMA WaitingAreQueued ==
  ASSUME TypeOK
  PROVE  \A r : r \in WaitingRecords
                  <=> \E h \in Handle : \E i \in 1..Len(Queue(h)) : r = Queue(h)[i]
BY DEF TypeOK, WaitingRecords, Queue, Known, Range

\* The i-th record that waits for h is the one that follows what was handed out
\* for it, so no record waits twice.
LEMMA QueuedAreNumbered ==
  ASSUME IInv, NEW h \in Handle
  PROVE  /\ Len(forwarded[h]) = Len(received[h]) + Len(Queue(h))
         /\ Len(received[h]) \in Nat /\ Len(Queue(h)) \in Nat
         /\ \A i \in 1..Len(Queue(h)) :
              /\ Queue(h)[i].handle = h
              /\ Queue(h)[i].number = Len(received[h]) + i
<1>1. /\ Queue(h) \in Seq(Record) /\ received[h] \in Seq(Record)
      /\ forwarded[h] = received[h] \o Queue(h)
  BY QueueType DEF IInv, TypeOK, OrderKept
<1>2. Len(forwarded[h]) = Len(received[h]) + Len(Queue(h))
  BY <1>1, ConcatProperties
<1>3. \A i \in 1..Len(Queue(h)) : forwarded[h][Len(received[h]) + i] = Queue(h)[i]
  BY <1>1, ConcatProperties
<1>4. Len(received[h]) \in Nat /\ Len(Queue(h)) \in Nat
  BY <1>1
<1>5. \A i \in 1..Len(Queue(h)) :
        /\ forwarded[h][Len(received[h]) + i].handle = h
        /\ forwarded[h][Len(received[h]) + i].number = Len(received[h]) + i
  <2> SUFFICES ASSUME NEW i \in 1..Len(Queue(h))
               PROVE  Len(received[h]) + i \in 1..Len(forwarded[h])
    BY DEF IInv, Numbered
  <2> QED
    BY <1>2, <1>4
<1> QED
  BY <1>2, <1>3, <1>4, <1>5

\* A byte names its record.
LEMMA ByteOf ==
  ASSUME NEW r, NEW T, NEW b \in {r} \X T
  PROVE  b[1] = r
OBVIOUS

\* The bytes of one record.
LEMMA BytesOfOne ==
  ASSUME NEW r \in Record
  PROVE  /\ IsFiniteSet({r} \X (1..r.size)) /\ Cardinality({r} \X (1..r.size)) = r.size
         /\ r.size \in Nat
<1>1. r.size \in Nat \ {0}
  BY RelayAssumption DEF Record
<1>2. IsFiniteSet(1..r.size) /\ Cardinality(1..r.size) = r.size
  BY <1>1, FS_Interval
<1>3. IsFiniteSet({r}) /\ Cardinality({r}) = 1
  BY FS_Singleton
<1>4. /\ IsFiniteSet({r} \X (1..r.size))
      /\ Cardinality({r} \X (1..r.size)) = 1 * r.size
  <2> DEFINE I == 1..r.size
             S == {r}
  <2> HIDE DEF I, S
  <2>1. IsFiniteSet(S \X I) /\ Cardinality(S \X I) = Cardinality(S) * Cardinality(I)
    BY <1>2, <1>3, FS_Product DEF I, S
  <2>2. IsFiniteSet(S \X I) /\ Cardinality(S \X I) = 1 * r.size
    BY <1>2, <1>3, <2>1 DEF I, S
  <2> QED
    BY <2>2, Zenon DEF I, S
<1> QED
  BY <1>1, <1>4

\* A record that did not wait adds its bytes to those that do.
LEMMA BytesOfMore ==
  ASSUME NEW R, NEW r \in Record, r \notin R,
         IsFiniteSet(UNION {{s} \X (1..s.size) : s \in R})
  PROVE  LET B == UNION {{s} \X (1..s.size) : s \in R}
             C == UNION {{s} \X (1..s.size) : s \in R \cup {r}}
         IN  IsFiniteSet(C) /\ Cardinality(C) = Cardinality(B) + r.size
<1> DEFINE B == UNION {{s} \X (1..s.size) : s \in R}
           C == UNION {{s} \X (1..s.size) : s \in R \cup {r}}
           D == {r} \X (1..r.size)
<1>1. C = B \cup D
  OBVIOUS
<1>2. B \cap D = {}
  <2> SUFFICES ASSUME NEW b, b \in B, b \in D PROVE FALSE
    OBVIOUS
  <2>1. PICK s \in R : b \in {s} \X (1..s.size)
    OBVIOUS
  <2>2. b[1] = s
    BY <2>1, ByteOf, Zenon
  <2>3. b[1] = r
    BY ByteOf, Zenon
  <2> QED
    BY <2>2, <2>3
<1>3. IsFiniteSet(D) /\ Cardinality(D) = r.size /\ r.size \in Nat
  BY BytesOfOne
<1> HIDE DEF C, D
<1>4. IsFiniteSet(B) /\ Cardinality(B) \in Nat
  BY FS_CardinalityType
<1> HIDE DEF B
<1>5. IsFiniteSet(C) /\ Cardinality(C) = Cardinality(B) + Cardinality(D) - Cardinality({})
  BY <1>1, <1>2, <1>3, <1>4, FS_Union
<1>6. IsFiniteSet(C) /\ Cardinality(C) = Cardinality(B) + r.size
  BY <1>3, <1>4, <1>5, FS_EmptySet
<1> QED
  BY <1>6 DEF B, C

\* All the bytes go when their record does.
LEMMA BytesOfFewer ==
  ASSUME NEW R, NEW r \in Record, r \notin R,
         IsFiniteSet(UNION {{s} \X (1..s.size) : s \in R \cup {r}})
  PROVE  LET B == UNION {{s} \X (1..s.size) : s \in R}
             C == UNION {{s} \X (1..s.size) : s \in R \cup {r}}
         IN  IsFiniteSet(B) /\ Cardinality(B) = Cardinality(C) - r.size
<1> DEFINE B == UNION {{s} \X (1..s.size) : s \in R}
           C == UNION {{s} \X (1..s.size) : s \in R \cup {r}}
<1>1. B \in SUBSET C
  OBVIOUS
<1>2. IsFiniteSet(B)
  <2> HIDE DEF B, C
  <2> QED
    BY <1>1, FS_Subset DEF C
<1>3. Cardinality(C) = Cardinality(B) + r.size
  BY <1>2, BytesOfMore
<1>4. Cardinality(B) \in Nat /\ r.size \in Nat
  <2> HIDE DEF B, C
  <2> QED
    BY <1>2, FS_CardinalityType, BytesOfOne
<1> HIDE DEF B, C
<1>5. IsFiniteSet(B) /\ Cardinality(B) = Cardinality(C) - r.size
  BY <1>2, <1>3, <1>4
<1> QED
  BY <1>5 DEF B, C

-----------------------------------------------------------------------------
\* The four limits and the bound of the model.
LEMMA LimitsAreNaturals ==
  /\ MaxQueue \in Nat \ {0} /\ MaxHandles \in Nat \ {0} /\ MaxRecords \in Nat \ {0}
  /\ MaxBytes \in Nat \ {0} /\ MaxForwards \in Nat
BY RelayAssumption

\* One element more is at most one more to count.
LEMMA OneMore ==
  ASSUME NEW S, IsFiniteSet(S), NEW x, NEW n \in Nat,
         (x \in S /\ Cardinality(S) <= n) \/ Cardinality(S) < n
  PROVE  IsFiniteSet(S \cup {x}) /\ Cardinality(S \cup {x}) <= n
<1>1. Cardinality(S) \in Nat
  BY FS_CardinalityType
<1> QED
  BY <1>1, FS_AddElement

\* A record forwarded goes to the end of what was received and what waits.
LEMMA ConcatAppend ==
  ASSUME NEW s \in Seq(Record), NEW t \in Seq(Record), NEW e \in Record
  PROVE  Append(s \o t, e) = s \o Append(t, e)
<1>1. s \o t \in Seq(Record) /\ <<e>> \in Seq(Record)
  BY ConcatProperties
<1>2. Append(s \o t, e) = (s \o t) \o <<e>>
  BY <1>1, AppendIsConcat
<1>3. Append(t, e) = t \o <<e>>
  BY AppendIsConcat
<1>4. (s \o t) \o <<e>> = s \o (t \o <<e>>)
  BY <1>1, ConcatAssociative
<1> QED
  BY <1>2, <1>3, <1>4

\* A record received moves from the head of the queue to what was received.
LEMMA AppendHead ==
  ASSUME NEW s \in Seq(Record), NEW t \in Seq(Record), t # <<>>
  PROVE  Append(s, Head(t)) \o Tail(t) = s \o t
<1>1. Head(t) \in Record /\ Tail(t) \in Seq(Record) /\ <<Head(t)>> \in Seq(Record)
  BY HeadTailProperties
<1>2. Append(s, Head(t)) = s \o <<Head(t)>>
  BY <1>1, AppendIsConcat
<1>3. t = <<Head(t)>> \o Tail(t)
  BY <1>1
<1>4. (s \o <<Head(t)>>) \o Tail(t) = s \o (<<Head(t)>> \o Tail(t))
  BY <1>1, ConcatAssociative
<1> QED
  BY <1>2, <1>3, <1>4

\* A sequence ranges over what is at its indices.
LEMMA RangeOf ==
  ASSUME NEW t \in Seq(Record)
  PROVE  \A s : s \in Range(t) <=> \E i \in 1..Len(t) : s = t[i]
BY DEF Range

\* The range of a sequence is that of its tail and its head.
LEMMA RangeHead ==
  ASSUME NEW t \in Seq(Record), t # <<>>
  PROVE  Range(t) = Range(Tail(t)) \cup {Head(t)}
<1>1. /\ Tail(t) \in Seq(Record) /\ Len(t) \in Nat \ {0} /\ Len(Tail(t)) = Len(t) - 1
      /\ Head(t) = t[1] /\ \A i \in 1..Len(Tail(t)) : Tail(t)[i] = t[i + 1]
  BY HeadTailProperties
<1>2. ASSUME NEW i \in 1..Len(t)
      PROVE  t[i] = Head(t) \/ \E j \in 1..Len(Tail(t)) : t[i] = Tail(t)[j]
  <2>1. CASE i = 1
    BY <1>1, <2>1
  <2>2. CASE i # 1
    <3>1. i - 1 \in 1..Len(Tail(t)) /\ t[i] = Tail(t)[i - 1]
      BY <1>1, <2>2
    <3> QED
      BY <3>1
  <2> QED
    BY <2>1, <2>2
<1>3. \A j \in 1..Len(Tail(t)) : j + 1 \in 1..Len(t) /\ Tail(t)[j] = t[j + 1]
  BY <1>1
<1>4. 1 \in 1..Len(t) /\ t[1] = Head(t)
  BY <1>1
<1>5. \A s : s \in Range(t) <=> \E i \in 1..Len(t) : s = t[i]
  BY RangeOf
<1>6. \A s : s \in Range(Tail(t)) <=> \E i \in 1..Len(Tail(t)) : s = Tail(t)[i]
  BY <1>1, RangeOf
<1>7. \A s : s \in Range(t) <=> s \in Range(Tail(t)) \/ s = Head(t)
  BY <1>2, <1>3, <1>4, <1>5, <1>6
<1> QED
  BY <1>7

\* What one queue becomes leaves the others as they are.
LEMMA OneQueue ==
  ASSUME NEW h, NEW q, queues' = WithQueue(h, q)
  PROVE  /\ DOMAIN queues' = DOMAIN queues \cup {h}
         /\ Queue(h)' = q
         /\ \A k : k # h => Queue(k)' = Queue(k)
         /\ \A k \in DOMAIN queues' : queues'[k] = IF k = h THEN q ELSE queues[k]
BY DEF WithQueue, Queue, Known

\* A record is accepted: it is one more record, in one more place, with its
\* bytes.
LEMMA ForwardKeeps ==
  ASSUME IInv, NEW h \in Handle, NEW size \in Size, Forward(h, size)
  PROVE  IInv'
<1> DEFINE r == [handle |-> h, number |-> Len(forwarded[h]) + 1, size |-> size]
<1>1. /\ Admitted(h) /\ ~ Overflows(h, size) /\ Len(forwarded[h]) < MaxForwards
      /\ queues' = WithQueue(h, Append(Queue(h), r))
      /\ forwarded' = [forwarded EXCEPT ![h] = Append(@, r)]
      /\ bytes' = bytes + size /\ UNCHANGED received
  BY DEF Forward
<1>2. r \in Record /\ r.handle = h /\ r.number = Len(forwarded[h]) + 1 /\ r.size = size
  BY <1>1, RelayAssumption DEF Record, IInv, TypeOK
<1> HIDE DEF r
<1>3. /\ DOMAIN queues' = DOMAIN queues \cup {h}
      /\ Queue(h)' = Append(Queue(h), r)
      /\ \A k : k # h => Queue(k)' = Queue(k)
      /\ \A k \in DOMAIN queues' :
           queues'[k] = IF k = h THEN Append(Queue(h), r) ELSE queues[k]
  BY <1>1, OneQueue
<1>4. /\ Queue(h) \in Seq(Record) /\ forwarded[h] \in Seq(Record)
      /\ received[h] \in Seq(Record)
  BY QueueType DEF IInv, TypeOK
<1>5. /\ Append(Queue(h), r) \in Seq(Record) /\ Append(forwarded[h], r) \in Seq(Record)
      /\ Len(Append(Queue(h), r)) = Len(Queue(h)) + 1
      /\ \A i \in 1..Len(Queue(h)) : Append(Queue(h), r)[i] = Queue(h)[i]
      /\ Append(Queue(h), r)[Len(Queue(h)) + 1] = r
      /\ Len(Append(forwarded[h], r)) = Len(forwarded[h]) + 1
      /\ \A i \in 1..Len(forwarded[h]) : Append(forwarded[h], r)[i] = forwarded[h][i]
      /\ Append(forwarded[h], r)[Len(forwarded[h]) + 1] = r
  BY <1>2, <1>4, AppendProperties
<1>6. TypeOK'
  <2>1. \A k \in DOMAIN queues' : k \in Handle /\ queues'[k] \in Seq(Record)
    BY <1>3, <1>5 DEF IInv, TypeOK
  <2>2. forwarded' \in [Handle -> Seq(Record)] /\ received' \in [Handle -> Seq(Record)]
    BY <1>1, <1>5 DEF IInv, TypeOK
  <2>3. bytes' \in Nat
    BY <1>1, RelayAssumption DEF IInv, TypeOK
  <2> QED
    BY <2>1, <2>2, <2>3 DEF TypeOK
<1>7. Numbered'
  BY <1>1, <1>2, <1>4, <1>5 DEF IInv, TypeOK, Numbered
<1>8. OrderKept'
  <2>1. Append(received[h] \o Queue(h), r) = received[h] \o Append(Queue(h), r)
    BY <1>2, <1>4, ConcatAppend
  <2> QED
    BY <1>1, <1>3, <2>1 DEF IInv, TypeOK, OrderKept
<1>9. /\ WaitingRecords' = WaitingRecords \cup {r}
      /\ r \notin WaitingRecords
  <2>1. Range(Append(Queue(h), r)) = Range(Queue(h)) \cup {r}
    BY <1>4, <1>5 DEF Range
  <2>2. h \notin DOMAIN queues => Range(Queue(h)) = {}
    BY DEF Queue, Known, Range
  <2>3. WaitingRecords' = WaitingRecords \cup {r}
    <3>1. \A k \in DOMAIN queues' :
            Range(queues'[k]) = IF k = h THEN Range(Queue(h)) \cup {r} ELSE Range(queues[k])
      BY <1>3, <2>1
    <3>2. h \in DOMAIN queues => Range(Queue(h)) = Range(queues[h])
      BY DEF Queue, Known
    <3> QED
      BY <1>3, <2>2, <3>1, <3>2 DEF WaitingRecords
  <2>4. \A k \in Handle : \A i \in 1..Len(Queue(k)) : r # Queue(k)[i]
    <3> SUFFICES ASSUME NEW k \in Handle, NEW i \in 1..Len(Queue(k)), r = Queue(k)[i]
                 PROVE  FALSE
      OBVIOUS
    <3>1. k = h
      BY <1>2, QueuedAreNumbered
    <3>2. /\ r.number = Len(received[h]) + i
          /\ Len(forwarded[h]) = Len(received[h]) + Len(Queue(h))
          /\ Len(received[h]) \in Nat /\ Len(Queue(h)) \in Nat
      BY <3>1, QueuedAreNumbered
    <3> QED
      BY <1>2, <3>1, <3>2
  <2> QED
    BY <2>3, <2>4, WaitingAreQueued DEF IInv
<1>10. /\ IsFiniteSet(WaitingBytes') /\ BytesAreCounted'
  BY <1>1, <1>2, <1>9, BytesOfMore
     DEF IInv, Countable, BytesAreCounted, WaitingBytes
<1>11. Places' = Places \cup {<<h, Len(Queue(h)) + 1>>}
  BY <1>3, <1>4, <1>5 DEF Places, Queue, Known
<1>12. IsFiniteSet(Places') /\ Waiting' <= MaxRecords
  <2>1. IsFiniteSet(Places) /\ Cardinality(Places) < MaxRecords
    <3>1. IsFiniteSet(Places) /\ ~ (Cardinality(Places) >= MaxRecords)
      BY <1>1 DEF IInv, Countable, Overflows, Waiting
    <3> QED
      BY <3>1, FS_CardinalityType, LimitsAreNaturals
  <2> QED
    BY <1>11, <2>1, OneMore, LimitsAreNaturals DEF Waiting
<1>13. IsFiniteSet(DOMAIN queues') /\ Cardinality(DOMAIN queues') <= MaxHandles
  <2>1. /\ IsFiniteSet(DOMAIN queues)
        /\ \/ h \in DOMAIN queues /\ Cardinality(DOMAIN queues) <= MaxHandles
           \/ Cardinality(DOMAIN queues) < MaxHandles
    BY <1>1 DEF IInv, Countable, LimitsHold, Admitted, Known
  <2> QED
    BY <1>3, <2>1, OneMore, LimitsAreNaturals
<1>14. LimitsHold'
  <2>1. \A k \in DOMAIN queues' : Len(queues'[k]) <= MaxQueue
    <3>1. Len(Queue(h)) + 1 <= MaxQueue
      BY <1>1, <1>4, LimitsAreNaturals DEF Overflows
    <3> QED
      BY <1>3, <1>5, <3>1 DEF IInv, LimitsHold
  <2>2. bytes' <= MaxBytes
    BY <1>1, RelayAssumption DEF IInv, TypeOK, Overflows
  <2> QED
    BY <1>12, <1>13, <2>1, <2>2 DEF LimitsHold
<1> QED
  BY <1>6, <1>7, <1>8, <1>10, <1>12, <1>13, <1>14 DEF IInv, Countable

\* A record is refused: at most an empty queue for its handle is new.
LEMMA RefusalKeeps ==
  ASSUME IInv, NEW h \in Handle, NEW size \in Size, ForwardRefused(h, size)
  PROVE  IInv'
<1>1. /\ Admitted(h) /\ queues' = WithQueue(h, Queue(h))
      /\ UNCHANGED <<bytes, forwarded, received>>
  BY DEF ForwardRefused
<1>2. /\ DOMAIN queues' = DOMAIN queues \cup {h}
      /\ \A k \in Handle : Queue(k)' = Queue(k)
      /\ \A k \in DOMAIN queues' : queues'[k] = IF k = h THEN Queue(h) ELSE queues[k]
  BY <1>1, OneQueue
<1>3. Queue(h) \in Seq(Record)
  BY QueueType DEF IInv
<1>4. h \notin DOMAIN queues => Queue(h) = <<>>
  BY DEF Queue, Known
<1>5. h \in DOMAIN queues => Queue(h) = queues[h]
  BY DEF Queue, Known
<1>6. TypeOK'
  <2>1. \A k \in DOMAIN queues' : k \in Handle /\ queues'[k] \in Seq(Record)
    BY <1>2, <1>3 DEF IInv, TypeOK
  <2> QED
    BY <1>1, <2>1 DEF IInv, TypeOK
<1>7. Numbered' /\ OrderKept'
  BY <1>1, <1>2 DEF IInv, Numbered, OrderKept
<1>8. WaitingRecords' = WaitingRecords
  <2>1. Range(<<>>) = {}
    BY DEF Range
  <2> QED
    BY <1>2, <1>4, <1>5, <2>1 DEF WaitingRecords
<1>9. Places' = Places
  <2>1. DOMAIN Queue(h) = {} \/ h \in DOMAIN queues
    BY <1>4
  <2> QED
    BY <1>2, <1>4, <1>5, <2>1 DEF Places
<1>10. IsFiniteSet(DOMAIN queues') /\ Cardinality(DOMAIN queues') <= MaxHandles
  <2>1. /\ IsFiniteSet(DOMAIN queues)
        /\ \/ h \in DOMAIN queues /\ Cardinality(DOMAIN queues) <= MaxHandles
           \/ Cardinality(DOMAIN queues) < MaxHandles
    BY <1>1 DEF IInv, Countable, LimitsHold, Admitted, Known
  <2> QED
    BY <1>2, <2>1, OneMore, LimitsAreNaturals
<1>11. Countable' /\ BytesAreCounted'
  BY <1>1, <1>8, <1>9, <1>10 DEF IInv, Countable, BytesAreCounted, WaitingBytes
<1>12. LimitsHold'
  <2>1. \A k \in DOMAIN queues' : Len(queues'[k]) <= MaxQueue
    BY <1>2, <1>4, <1>5, LimitsAreNaturals DEF IInv, LimitsHold
  <2> QED
    BY <1>1, <1>9, <1>10, <2>1 DEF IInv, LimitsHold, Waiting
<1> QED
  BY <1>6, <1>7, <1>11, <1>12 DEF IInv

\* A record is handed out: it is one record less, and its bytes are those
\* that are taken off the counter.
LEMMA ReceiveKeeps ==
  ASSUME IInv, NEW h \in Handle, Receive(h)
  PROVE  IInv'
<1> DEFINE q == Queue(h)
           r == Head(q)
<1>1. /\ q # <<>> /\ h \in DOMAIN queues /\ q = queues[h]
      /\ received' = [received EXCEPT ![h] = Append(@, r)]
      /\ bytes' = bytes - r.size /\ UNCHANGED forwarded
      /\ queues' = IF Len(q) = 1 THEN [k \in DOMAIN queues \ {h} |-> queues[k]]
                                 ELSE WithQueue(h, Tail(q))
  BY DEF Receive, Queue, Known
<1>2. q \in Seq(Record) /\ received[h] \in Seq(Record) /\ forwarded[h] \in Seq(Record)
  BY QueueType DEF IInv, TypeOK
<1> HIDE DEF q
<1>3. /\ Len(q) \in Nat \ {0} /\ r \in Record /\ Tail(q) \in Seq(Record)
      /\ Len(Tail(q)) = Len(q) - 1
      /\ \A i \in 1..Len(Tail(q)) : Tail(q)[i] = q[i + 1]
      /\ r = q[1]
  BY <1>1, <1>2, HeadTailProperties
<1> HIDE DEF r
<1>4. /\ DOMAIN queues' \subseteq DOMAIN queues
      /\ Queue(h)' = Tail(q)
      /\ \A k \in Handle : k # h => Queue(k)' = Queue(k)
      /\ \A k \in DOMAIN queues' : queues'[k] = IF k = h THEN Tail(q) ELSE queues[k]
      /\ \A k \in DOMAIN queues \ {h} : k \in DOMAIN queues'
      /\ h \in DOMAIN queues' \/ Tail(q) = <<>>
  <2>1. CASE Len(q) = 1
    <3>1. Tail(q) = <<>>
      <4>1. Tail(q) # <<>> => Len(Tail(q)) \in Nat \ {0}
        BY <1>3, EmptySeq
      <4> QED
        BY <1>3, <2>1, <4>1
    <3> QED
      BY <1>1, <2>1, <3>1 DEF Queue, Known
  <2>2. CASE Len(q) # 1
    <3>1. queues' = WithQueue(h, Tail(q))
      BY <1>1, <2>2
    <3> QED
      BY <1>1, <3>1, OneQueue
  <2> QED
    BY <2>1, <2>2
<1>5. OrderKept' /\ Numbered'
  <2>1. Append(received[h], r) \o Tail(q) = received[h] \o q
    BY <1>1, <1>2, AppendHead DEF r
  <2>2. forwarded[h] = received[h] \o q
    BY DEF IInv, OrderKept, q
  <2> QED
    BY <1>1, <1>4, <2>1, <2>2 DEF IInv, TypeOK, OrderKept, Numbered
<1>6. WaitingRecords = WaitingRecords' \cup {r}
  <2>1. Range(q) = Range(Tail(q)) \cup {r}
    BY <1>1, <1>2, RangeHead DEF r
  <2>2. Range(<<>>) = {}
    BY DEF Range
  <2>3. \A k \in DOMAIN queues' :
          Range(queues'[k]) = IF k = h THEN Range(Tail(q)) ELSE Range(queues[k])
    BY <1>4
  <2>4. \A s : s \in WaitingRecords
               <=> s \in Range(q) \/ \E k \in DOMAIN queues \ {h} : s \in Range(queues[k])
    BY <1>1 DEF WaitingRecords
  <2>5. \A s : s \in WaitingRecords'
               <=> s \in Range(Tail(q))
                   \/ \E k \in DOMAIN queues \ {h} : s \in Range(queues[k])
    <3>1. \A s : s \in WaitingRecords' <=> \E k \in DOMAIN queues' : s \in Range(queues'[k])
      BY DEF WaitingRecords
    <3> QED
      BY <1>4, <2>2, <2>3, <3>1
  <2> QED
    BY <2>1, <2>4, <2>5
<1>7. r \notin WaitingRecords'
  <2> SUFFICES ASSUME NEW k \in DOMAIN queues', NEW i \in 1..Len(queues'[k]),
                      queues'[k] \in Seq(Record), r = queues'[k][i]
               PROVE  FALSE
    <3>1. \A k \in DOMAIN queues' : queues'[k] \in Seq(Record)
      BY <1>3, <1>4 DEF IInv, TypeOK
    <3> QED
      BY <3>1 DEF WaitingRecords, Range
  <2>1. /\ r.handle = h /\ r.number = Len(received[h]) + 1 /\ Len(received[h]) \in Nat
        /\ \A j \in 1..Len(q) : q[j].number = Len(received[h]) + j
    BY <1>3, QueuedAreNumbered DEF q
  <2>2. CASE k = h
    <3>1. i \in 1..Len(Tail(q)) /\ r = Tail(q)[i]
      BY <1>4, <2>2
    <3>2. i \in Nat \ {0} /\ i + 1 \in 1..Len(q) /\ r = q[i + 1]
      BY <1>3, <3>1
    <3>3. r.number = Len(received[h]) + (i + 1)
      BY <2>1, <3>2
    <3> QED
      BY <2>1, <3>2, <3>3
  <2>3. CASE k # h
    BY <1>4, <2>1, <2>3, QueuedAreNumbered DEF IInv, TypeOK, Queue, Known
  <2> QED
    BY <2>2, <2>3
<1>8. IsFiniteSet(WaitingBytes') /\ BytesAreCounted'
  BY <1>1, <1>3, <1>6, <1>7, BytesOfFewer
     DEF IInv, Countable, BytesAreCounted, WaitingBytes
<1>9. Places' \in SUBSET Places
  <2>1. \A k \in DOMAIN queues' : k \in DOMAIN queues /\ DOMAIN queues'[k] \subseteq DOMAIN queues[k]
    <3>1. DOMAIN Tail(q) \subseteq DOMAIN q
      BY <1>2, <1>3
    <3> QED
      BY <1>1, <1>4, <3>1
  <2> QED
    BY <2>1 DEF Places
<1>10. /\ IsFiniteSet(Places') /\ Waiting' <= MaxRecords
       /\ IsFiniteSet(DOMAIN queues') /\ Cardinality(DOMAIN queues') <= MaxHandles
  <2>1. /\ IsFiniteSet(Places') /\ Cardinality(Places') <= Cardinality(Places)
        /\ IsFiniteSet(DOMAIN queues')
        /\ Cardinality(DOMAIN queues') <= Cardinality(DOMAIN queues)
    BY <1>4, <1>9, FS_Subset DEF IInv, Countable
  <2>2. /\ Cardinality(Places) \in Nat /\ Cardinality(Places') \in Nat
        /\ Cardinality(DOMAIN queues) \in Nat /\ Cardinality(DOMAIN queues') \in Nat
    BY <2>1, FS_CardinalityType DEF IInv, Countable
  <2>3. Cardinality(Places) <= MaxRecords /\ Cardinality(DOMAIN queues) <= MaxHandles
    BY DEF IInv, LimitsHold, Waiting
  <2> QED
    BY <2>1, <2>2, <2>3, LimitsAreNaturals DEF Waiting
<1>11. TypeOK' /\ bytes' <= MaxBytes
  <2>1. \A k \in DOMAIN queues' : k \in Handle /\ queues'[k] \in Seq(Record)
    BY <1>3, <1>4 DEF IInv, TypeOK
  <2>2. received' \in [Handle -> Seq(Record)]
    BY <1>1, <1>2, <1>3, AppendProperties DEF IInv, TypeOK
  <2>3. bytes' \in Nat
    BY <1>8, FS_CardinalityType DEF BytesAreCounted
  <2>4. bytes' <= MaxBytes
    <3>1. r.size \in Nat /\ bytes \in Nat /\ bytes <= MaxBytes
      BY <1>3, BytesOfOne DEF IInv, TypeOK, LimitsHold
    <3> QED
      BY <1>1, <3>1, LimitsAreNaturals
  <2> QED
    BY <1>1, <2>1, <2>2, <2>3, <2>4 DEF IInv, TypeOK
<1>12. \A k \in DOMAIN queues' : Len(queues'[k]) <= MaxQueue
  <2>1. Len(Tail(q)) <= MaxQueue
    <3>1. Len(q) <= MaxQueue
      BY <1>1 DEF IInv, LimitsHold
    <3> QED
      BY <1>3, <3>1, LimitsAreNaturals
  <2> QED
    BY <1>4, <2>1 DEF IInv, LimitsHold
<1> QED
  BY <1>5, <1>8, <1>10, <1>11, <1>12 DEF IInv, Countable, LimitsHold

-----------------------------------------------------------------------------
\* The invariant is inductive.
LEMMA NextIInv == IInv /\ [Next]_vars => IInv'
<1> SUFFICES ASSUME IInv, [Next]_vars PROVE IInv'
  OBVIOUS
<1>1. CASE UNCHANGED vars
  BY <1>1 DEF vars, IInv, TypeOK, Numbered, Countable, OrderKept, BytesAreCounted,
              LimitsHold, Places, WaitingBytes, WaitingRecords, Waiting, Queue, Known
<1> QED
  BY <1>1, ForwardKeeps, RefusalKeeps, ReceiveKeeps DEF Next

\* The invariant holds in every state.
LEMMA Invariant == Spec => []IInv
<1> QED
  BY InitIInv, NextIInv, PTL DEF Spec

\* forward and receive are typed for every interleaving (relay.py:110-134).
THEOREM RelayIsTyped == Spec => []TypeOK
<1>1. IInv => TypeOK
  BY DEF IInv
<1> QED
  BY <1>1, Invariant, PTL

\* A handle's records are handed out in the order they were accepted in, each
\* once, none lost and none to another handle (relay.py:110-134).
THEOREM RelayKeepsOrder == Spec => []OrderKept
<1>1. IInv => OrderKept
  BY DEF IInv
<1> QED
  BY <1>1, Invariant, PTL

\* The counter that forward raises and receive lowers never drifts from the
\* bytes that wait (relay.py:124, 131).
THEOREM RelayCountsBytes == Spec => []BytesAreCounted
<1>1. IInv => BytesAreCounted
  BY DEF IInv
<1> QED
  BY <1>1, Invariant, PTL

\* None of the four limits is ever exceeded (relay.py:117-123).
THEOREM RelayStaysInLimits == Spec => []LimitsHold
<1>1. IInv => LimitsHold
  BY DEF IInv
<1> QED
  BY <1>1, Invariant, PTL
=============================================================================
