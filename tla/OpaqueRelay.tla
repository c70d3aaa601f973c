----------------------------- MODULE OpaqueRelay -----------------------------
(***************************************************************************)
(* The in-process relay (src/src/pqc_a2a/relay.py:100-134): one FIFO queue *)
(* per recipient handle under one lock, with limits on handles, on records *)
(* per handle, on records and on bytes.  Senders forward, recipients       *)
(* receive by handle, in any interleaving.                                 *)
(***************************************************************************)
EXTENDS Integers, Sequences, FiniteSets, Functions

CONSTANTS Handle,       \* recipient handles
          Size,         \* sizes of canonical records
          MaxQueue,     \* max_queue_per_handle
          MaxHandles,   \* max_handles
          MaxRecords,   \* max_total_records
          MaxBytes,     \* max_total_bytes
          MaxForwards   \* bound: records forwarded per handle

ASSUME RelayAssumption ==
  /\ Size \subseteq Nat \ {0}
  /\ {MaxQueue, MaxHandles, MaxRecords, MaxBytes} \subseteq Nat \ {0}
  /\ MaxForwards \in Nat

VARIABLES queues,      \* [handles with a deque -> their records]
          bytes,       \* the byte counter
          forwarded,   \* history: records accepted, per handle
          received     \* history: records handed out, per handle

vars == <<queues, bytes, forwarded, received>>

Record == [handle : Handle, number : 1..MaxForwards, size : Size]

Init ==
  /\ queues = [h \in {} |-> <<>>]
  /\ bytes = 0
  /\ forwarded = [h \in Handle |-> <<>>]
  /\ received = [h \in Handle |-> <<>>]

Known(h) == h \in DOMAIN queues

Queue(h) == IF Known(h) THEN queues[h] ELSE <<>>

\* queue = self._queues.setdefault(handle, deque()), then the queue becomes q.
WithQueue(h, q) == [k \in DOMAIN queues \cup {h} |-> IF k = h THEN q ELSE queues[k]]

\* The handle has a queue or there is room for one more handle.
Admitted(h) == Known(h) \/ Cardinality(DOMAIN queues) < MaxHandles

\* sum(len(item) for item in self._queues.values()): the places taken in the
\* queues.
Places == UNION {{h} \X DOMAIN queues[h] : h \in DOMAIN queues}

Waiting == Cardinality(Places)

\* Mutated form of Overflows: the per-handle limit is tested one too late.
OverflowsLate(h, size) ==
  \/ Len(Queue(h)) > MaxQueue
  \/ Waiting >= MaxRecords
  \/ bytes + size > MaxBytes

Overflows(h, size) ==
  \/ Len(Queue(h)) >= MaxQueue
  \/ Waiting >= MaxRecords
  \/ bytes + size > MaxBytes

\* forward finds no room for the record.  A deque created for a new handle
\* stays behind, empty.
ForwardRefused(h, size) ==
  /\ Admitted(h)
  /\ Overflows(h, size)
  /\ queues' = WithQueue(h, Queue(h))
  /\ UNCHANGED <<bytes, forwarded, received>>

\* Mutated form of Forward: the record goes to the wrong end.
ForwardLeft(h, size) ==
  /\ Admitted(h)
  /\ ~ Overflows(h, size)
  /\ Len(forwarded[h]) < MaxForwards
  /\ LET r == [handle |-> h, number |-> Len(forwarded[h]) + 1, size |-> size]
     IN  /\ queues' = WithQueue(h, <<r>> \o Queue(h))
         /\ forwarded' = [forwarded EXCEPT ![h] = Append(@, r)]
  /\ bytes' = bytes + size
  /\ UNCHANGED received

Forward(h, size) ==
  /\ Admitted(h)
  /\ ~ Overflows(h, size)
  /\ Len(forwarded[h]) < MaxForwards
  /\ LET r == [handle |-> h, number |-> Len(forwarded[h]) + 1, size |-> size]
     IN  /\ queues' = WithQueue(h, Append(Queue(h), r))
         /\ forwarded' = [forwarded EXCEPT ![h] = Append(@, r)]
  /\ bytes' = bytes + size
  /\ UNCHANGED received

\* Mutated forms of Receive: the emptied queue takes its bytes with it
\* uncounted; the queue is deleted when one record is left.
ReceiveLeaksBytes(h) ==
  /\ Queue(h) # <<>>
  /\ received' = [received EXCEPT ![h] = Append(@, Head(queues[h]))]
  /\ IF Len(queues[h]) = 1
       THEN queues' = [k \in DOMAIN queues \ {h} |-> queues[k]] /\ bytes' = bytes
       ELSE /\ queues' = WithQueue(h, Tail(queues[h]))
            /\ bytes' = bytes - Head(queues[h]).size
  /\ UNCHANGED forwarded

ReceiveDropsLast(h) ==
  /\ Queue(h) # <<>>
  /\ received' = [received EXCEPT ![h] = Append(@, Head(queues[h]))]
  /\ bytes' = bytes - Head(queues[h]).size
  /\ queues' = IF Len(queues[h]) <= 2
                 THEN [k \in DOMAIN queues \ {h} |-> queues[k]]
                 ELSE WithQueue(h, Tail(queues[h]))
  /\ UNCHANGED forwarded

\* receive: the oldest record; a queue emptied by it is deleted.  An empty
\* queue that forward left behind raises and stays.
Receive(h) ==
  /\ Queue(h) # <<>>
  /\ received' = [received EXCEPT ![h] = Append(@, Head(queues[h]))]
  /\ bytes' = bytes - Head(queues[h]).size
  /\ queues' = IF Len(queues[h]) = 1
                 THEN [k \in DOMAIN queues \ {h} |-> queues[k]]
                 ELSE WithQueue(h, Tail(queues[h]))
  /\ UNCHANGED forwarded

Next ==
  \E h \in Handle :
    \/ \E size \in Size : ForwardRefused(h, size) \/ Forward(h, size)
    \/ Receive(h)

Spec == Init /\ [][Next]_vars

\* Every recipient keeps polling its handle.
FairSpec == Spec /\ \A h \in Handle : WF_vars(Receive(h))

-----------------------------------------------------------------------------
TypeOK ==
  /\ DOMAIN queues \subseteq Handle
  /\ \A h \in DOMAIN queues : queues[h] \in Seq(Record)
  /\ bytes \in Nat
  /\ forwarded \in [Handle -> Seq(Record)]
  /\ received \in [Handle -> Seq(Record)]

\* What was accepted for a handle is what was handed out for it followed by
\* what still waits: nothing is lost, repeated, reordered or misrouted.
OrderKept == \A h \in Handle : forwarded[h] = received[h] \o Queue(h)

WaitingRecords == UNION {Range(queues[h]) : h \in DOMAIN queues}

\* The bytes that wait, each named by its record and its place in it.
WaitingBytes == UNION {{r} \X (1..r.size) : r \in WaitingRecords}

\* The counter is the size of everything that waits.
BytesAreCounted == bytes = Cardinality(WaitingBytes)

\* No limit is ever exceeded.
LimitsHold ==
  /\ Cardinality(DOMAIN queues) <= MaxHandles
  /\ \A h \in DOMAIN queues : Len(queues[h]) <= MaxQueue
  /\ Waiting <= MaxRecords
  /\ bytes <= MaxBytes

\* Every accepted record is handed out, if its recipient keeps polling.
ForwardedIsReceived ==
  \A h \in Handle, n \in 1..MaxForwards :
    Len(forwarded[h]) >= n ~> Len(received[h]) >= n

\* README.md:331: after a queue is drained its empty handle is deleted, so a
\* relay whose queues are all empty holds no handle.
IdleRelayHoldsNoHandle ==
  (\A h \in DOMAIN queues : queues[h] = <<>>) => DOMAIN queues = {}
=============================================================================
