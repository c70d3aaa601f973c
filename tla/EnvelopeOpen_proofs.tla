------------------------- MODULE EnvelopeOpen_proofs -------------------------
(***************************************************************************)
(* Proofs about EnvelopeOpen for every number of workers and messages,     *)
(* every clock and every cache.  At-most-once needs two hypotheses, which  *)
(* the theorems carry: RetentionCovers and CacheSurvives.                  *)
(***************************************************************************)
EXTENDS EnvelopeOpen, FiniteSetTheorems, TLAPS

Types ==
  /\ clock \in Nat
  /\ sent \subseteq Envelope
  /\ DOMAIN seen \subseteq Message
  /\ seen = [m \in DOMAIN seen |-> seen[m]]
  /\ \A m \in DOMAIN seen : seen[m] \in 0..clock
  /\ job \in [Opener -> Job \cup {Idle}]
  /\ accepts \in [Message -> Nat]
  /\ delivered \in [Message -> Nat]
  /\ dropped \subseteq Message

\* Genuine envelopes have identifiers of their own and a lifetime that the
\* senders use.
Sealed ==
  /\ \A e, f \in sent : e.genuine /\ f.genuine /\ e.id = f.id => e = f
  /\ \A e \in sent : e.genuine => \E v \in Validity : e.expires = e.issued + v

\* What a worker holds, and how stale its reading of the clock can be.
Working ==
  \A o \in Opener : job[o].stage # "idle" =>
    /\ job[o].env \in sent
    /\ job[o].at <= clock
    /\ InWindow(job[o].env, job[o].at)
    /\ Opening(o) => clock <= job[o].at + Stall

Accepted ==
  /\ \A m \in Message : accepts[m] <= 1
  /\ \A m \in Message : accepts[m] > 0 => \E e \in sent : e.genuine /\ e.id = m

IInv == Types /\ Sealed /\ Working /\ Accepted /\ ForgottenIsDead

-----------------------------------------------------------------------------
\* Nothing is sealed, held or remembered at first.
LEMMA InitIInv == Init => IInv
<1> SUFFICES ASSUME Init PROVE IInv
  OBVIOUS
<1>1. Types
  BY DEF Init, Types, EmptyCache, Idle
<1>2. Sealed /\ Accepted /\ ForgottenIsDead
  BY DEF Init, Sealed, Accepted, ForgottenIsDead
<1>3. Working
  BY DEF Init, Working, Idle
<1> QED BY <1>1, <1>2, <1>3 DEF IInv

\* A worker's step that accepts nothing: what the cache loses by it was older
\* than the retention time.
LEMMA PurgeKeepsTheLiving ==
  ASSUME IInv, RetentionCovers,
         NEW e \in sent, e.genuine, e.id \in DOMAIN seen,
         seen[e.id] >= e.issued - Skew,
         NEW now \in Int, now <= clock,
         e.id \notin Kept(seen, now)
  PROVE  clock > e.expires + Skew + Stall
<1>1. PICK v \in Validity : e.expires = e.issued + v
  BY DEF IInv, Sealed
<1>2. /\ v + 2 * Skew + Stall <= Ttl
      /\ v \in Nat /\ Skew \in Nat /\ Stall \in Nat /\ Ttl \in Nat
  BY EnvelopeAssumption, CacheAssumption DEF RetentionCovers
<1>3. e.issued \in Int /\ e.expires \in Int /\ clock \in Nat
  BY DEF IInv, Types, Envelope
<1>4. seen[e.id] \in Int
  BY DEF IInv, Types
<1>5. now - seen[e.id] > Ttl
  BY <1>2, <1>4, CacheAssumption DEF Kept
<1> QED BY <1>1, <1>2, <1>3, <1>4, <1>5

\* A message that was accepted is refused to every worker that still holds
\* it: this is where the stale clock value could have done harm.
LEMMA AcceptedIsRemembered ==
  ASSUME IInv, RetentionCovers, NEW o \in Opener, Verified(o),
         accepts[job[o].env.id] > 0
  PROVE  Remembered(o)
<1> DEFINE e == job[o].env
           at == job[o].at
<1>0. job[o] \in Job
  BY DEF IInv, Types, Verified, Opening, Idle, Job
<1>1. /\ e \in sent /\ e.genuine /\ at <= clock
      /\ at <= e.expires + Skew /\ clock <= at + Stall
      /\ at \in Nat /\ clock \in Nat
  BY <1>0 DEF IInv, Working, Verified, Opening, InWindow, Types, Job
<1>2. /\ e.issued \in Int /\ e.expires \in Int
      /\ Skew \in Nat /\ Stall \in Nat
  BY <1>1, EnvelopeAssumption DEF IInv, Types, Envelope
<1>3. ~ (clock > e.expires + Skew + Stall)
  BY <1>1, <1>2
<1>4. e.id \in DOMAIN seen /\ seen[e.id] >= e.issued - Skew
  BY <1>1, <1>3 DEF IInv, ForgottenIsDead
<1>5. SUFFICES ASSUME e.id \notin Kept(seen, at) PROVE FALSE
  BY DEF Remembered
<1>6. clock > e.expires + Skew + Stall
  BY <1>1, <1>4, <1>5, PurgeKeepsTheLiving
<1> QED BY <1>3, <1>6

-----------------------------------------------------------------------------
\* What a purged cache is: a part of the old one, and of the same kind.
LEMMA PurgedType ==
  ASSUME Types, NEW now
  PROVE  /\ DOMAIN Purged(seen, now) \subseteq DOMAIN seen
         /\ \A m \in DOMAIN Purged(seen, now) : Purged(seen, now)[m] = seen[m]
         /\ Purged(seen, now) = [m \in DOMAIN Purged(seen, now) |->
                                   Purged(seen, now)[m]]
         /\ DOMAIN Purged(seen, now) = Kept(seen, now)
BY DEF Types, Purged, Kept

\* Every step keeps the types.
LEMMA NextTypes == Types /\ Working /\ Next => Types'
<1> SUFFICES ASSUME Types, Working, Next PROVE Types'
  OBVIOUS
<1>0. Types
  OBVIOUS
<1> USE EnvelopeAssumption
<1>1. ASSUME NEW m \in Message, NEW i \in Issue, NEW v \in Validity, Seal(m, i, v)
      PROVE  Types'
  <2> DEFINE n == [id |-> m, issued |-> i, expires |-> i + v, genuine |-> TRUE]
  <2>1. n \in Envelope
    BY DEF Envelope
  <2>2. sent' \subseteq Envelope
    <3> HIDE DEF n
    <3>1. sent' = sent \cup {n}
      BY <1>1 DEF Seal, n
    <3> QED BY <1>0, <2>1, <3>1 DEF Types
  <2> QED BY <1>0, <1>1, <2>2 DEF Seal, Types
<1>2. ASSUME NEW e \in sent, NEW i \in Issue, NEW v \in Validity, Tamper(e, i, v)
      PROVE  Types'
  <2> DEFINE n == [id |-> e.id, issued |-> i, expires |-> i + v, genuine |-> FALSE]
  <2>1. n \in Envelope
    BY <1>0 DEF Types, Envelope
  <2>2. sent' \subseteq Envelope
    <3> HIDE DEF n
    <3>1. sent' = sent \cup {n}
      BY <1>2 DEF Tamper, n
    <3> QED BY <1>0, <2>1, <3>1 DEF Types
  <2> QED BY <1>0, <1>2, <2>2 DEF Tamper, Types
<1>3. ASSUME NEW o \in Opener, NEW e \in sent, Begin(o, e)
      PROVE  Types'
  BY <1>0, <1>3 DEF Begin, Types, Job
<1>4. ASSUME NEW o \in Opener, GiveUp(o)
      PROVE  Types'
  <2>1. job[o].env.id \in Message
    BY <1>0, <1>4 DEF GiveUp, Opening, Types, Idle, Job, Envelope
  <2> QED BY <1>0, <1>4, <2>1 DEF GiveUp, Types
<1>5. ASSUME NEW o \in Opener, Refuse(o)
      PROVE  Types'
  <2>1. /\ DOMAIN seen' \subseteq DOMAIN seen
        /\ \A m \in DOMAIN seen' : seen'[m] = seen[m]
        /\ seen' = [m \in DOMAIN seen' |-> seen'[m]]
    BY <1>0, <1>5, PurgedType DEF Refuse, AfterRefusal, Types
  <2> QED BY <1>0, <1>5, <2>1 DEF Refuse, Types
<1>6. ASSUME NEW o \in Opener, Accept(o)
      PROVE  Types'
  <2> DEFINE m == job[o].env.id
             at == job[o].at
  <2>1. job[o] \in Job /\ m \in Message /\ at \in 0..clock
    BY <1>0, <1>6 DEF Accept, Verified, Opening, Types, Working, Idle, Job, Envelope
  <2>2. /\ DOMAIN seen' = Kept(seen, at) \cup {m}
        /\ seen' = [k \in DOMAIN seen' |-> seen'[k]]
        /\ \A k \in DOMAIN seen' : seen'[k] \in 0..clock
    BY <1>0, <1>6, <2>1 DEF Accept, AfterAccept, Kept, Types
  <2>3. [job[o] EXCEPT !.stage = "accepted"] \in Job
    BY <2>1 DEF Job
  <2>4. job' \in [Opener -> Job \cup {Idle}]
    BY <1>0, <1>6, <2>3 DEF Accept, Types
  <2>5. accepts' \in [Message -> Nat]
    BY <1>0, <1>6, <2>1 DEF Accept, Types
  <2> QED BY <1>0, <1>6, <2>1, <2>2, <2>4, <2>5 DEF Accept, Types, Kept
<1>7. ASSUME NEW o \in Opener, Return(o)
      PROVE  Types'
  <2>1. job[o].env.id \in Message
    BY <1>0, <1>7 DEF Return, Types, Idle, Job, Envelope
  <2> QED BY <1>0, <1>7, <2>1 DEF Return, Types
<1>8. ASSUME NEW o \in Opener, LoseAccepted(o)
      PROVE  Types'
  <2>1. job[o].env.id \in Message
    BY <1>0, <1>8 DEF LoseAccepted, Types, Idle, Job, Envelope
  <2> QED BY <1>0, <1>8, <2>1 DEF LoseAccepted, Types
<1>9. CASE Restart
  <2>1. \A w \in Opener : job[w] # Idle => job[w].env.id \in Message
    BY <1>0 DEF Types, Job, Envelope
  <2>2. InHand \subseteq Message
    BY <2>1 DEF InHand
  <2> QED BY <1>0, <1>9, <2>2 DEF Restart, Types, EmptyCache
<1>10. CASE Tick
  BY <1>0, <1>10 DEF Tick, Types
<1> QED BY <1>1, <1>2, <1>3, <1>4, <1>5, <1>6, <1>7, <1>8, <1>9, <1>10 DEF Next

\* An identifier is sealed once, and an altered copy is not genuine.
LEMMA NextSealed == IInv /\ Next => Sealed'
<1> SUFFICES ASSUME IInv, Next PROVE Sealed'
  OBVIOUS
<1>1. ASSUME NEW m \in Message, NEW i \in Issue, NEW v \in Validity, Seal(m, i, v)
      PROVE  Sealed'
  <2> DEFINE n == [id |-> m, issued |-> i, expires |-> i + v, genuine |-> TRUE]
  <2>1. n.id = m /\ n.genuine /\ n.expires = n.issued + v
    OBVIOUS
  <2>2. sent' = sent \cup {n} /\ \A e \in sent : e.id # m
    BY <1>1 DEF Seal
  <2> HIDE DEF n
  <2> QED BY <2>1, <2>2 DEF IInv, Sealed
<1>2. ASSUME NEW e \in sent, NEW i \in Issue, NEW v \in Validity, Tamper(e, i, v)
      PROVE  Sealed'
  BY <1>2 DEF Tamper, IInv, Sealed
<1>3. CASE sent' = sent
  BY <1>3 DEF IInv, Sealed
<1> QED
  BY <1>1, <1>2, <1>3
  DEF Next, Begin, GiveUp, Refuse, Accept, Return, LoseAccepted, Restart, Tick

\* What a worker holds stays on the channel; its reading of the clock ages by
\* Stall at most before it calls accept.
LEMMA NextWorking == Types /\ Working /\ Next => Working'
<1> SUFFICES ASSUME Types, Working, Next PROVE Working'
  OBVIOUS
<1>0. Types /\ Working
  OBVIOUS
<1> USE EnvelopeAssumption
<1>1. CASE sent \subseteq sent' /\ UNCHANGED <<job, clock>>
  BY <1>0, <1>1 DEF Working, Opening, InWindow
<1>2. ASSUME NEW o \in Opener, NEW e \in sent, Begin(o, e)
      PROVE  Working'
  BY <1>0, <1>2 DEF Begin, Working, Opening, InWindow, Types
<1>3. ASSUME NEW o \in Opener, job' = [job EXCEPT ![o] = Idle],
             UNCHANGED <<sent, clock>>
      PROVE  Working'
  BY <1>0, <1>3 DEF Working, Opening, InWindow, Types, Idle
<1>4. ASSUME NEW o \in Opener, Accept(o)
      PROVE  Working'
  <2>1. job[o] \in Job
    BY <1>0, <1>4 DEF Accept, Verified, Opening, Types, Idle, Job
  <2>2. /\ job'[o].stage = "accepted" /\ job'[o].env = job[o].env
        /\ job'[o].at = job[o].at
        /\ \A p \in Opener \ {o} : job'[p] = job[p]
    BY <1>0, <1>4, <2>1 DEF Accept, Types, Job
  <2> QED
    BY <1>0, <1>4, <2>2 DEF Accept, Verified, Working, Opening, InWindow
<1>5. CASE Restart
  BY <1>0, <1>5 DEF Restart, Working, Idle
<1>6. CASE Tick
  <2> SUFFICES ASSUME NEW o \in Opener, job'[o].stage # "idle"
               PROVE  /\ job'[o].env \in sent'
                      /\ job'[o].at <= clock'
                      /\ InWindow(job'[o].env, job'[o].at)
                      /\ job'[o].stage = "opening" => clock' <= job'[o].at + Stall
    BY DEF Working, Opening, InWindow
  <2>1. job[o] \in Job /\ job'[o] = job[o] /\ clock' = clock + 1 /\ sent' = sent
    BY <1>0, <1>6 DEF Tick, Types, Idle
  <2>2. job[o].at \in Nat /\ clock \in Nat
    BY <1>0, <2>1 DEF Types, Job
  <2> QED BY <1>0, <1>6, <2>1, <2>2 DEF Tick, Working, Opening
<1> QED
  BY <1>1, <1>2, <1>3, <1>4, <1>5, <1>6
  DEF Next, Seal, Tamper, GiveUp, Refuse, Return, LoseAccepted

\* A second accept of an identifier is refused, because it is remembered.
LEMMA NextAccepted == IInv /\ RetentionCovers /\ Next => Accepted'
<1> SUFFICES ASSUME IInv, RetentionCovers, Next PROVE Accepted'
  OBVIOUS
<1>0. Accepted /\ Types
  BY DEF IInv
<1>1. CASE sent \subseteq sent' /\ accepts' = accepts
  BY <1>0, <1>1 DEF Accepted
<1>2. ASSUME NEW o \in Opener, Accept(o)
      PROVE  Accepted'
  <2> DEFINE m == job[o].env.id
  <2>1. m \in Message /\ job[o].env \in sent /\ job[o].env.genuine
    BY <1>0, <1>2 DEF Accept, Verified, Opening, IInv, Working, Types, Envelope
  <2>2. accepts[m] = 0
    BY <1>0, <1>2, <2>1, AcceptedIsRemembered DEF Accept, Types
  <2> QED BY <1>0, <1>2, <2>1, <2>2 DEF Accept, Accepted, Types
<1> QED
  BY <1>1, <1>2
  DEF Next, Seal, Tamper, Begin, GiveUp, Refuse, Return, LoseAccepted, Restart, Tick

\* No step lets the cache forget what a worker may still hold.
LEMMA NextForgotten ==
  IInv /\ RetentionCovers /\ CacheSurvives /\ Next => ForgottenIsDead'
<1> SUFFICES ASSUME IInv, RetentionCovers, CacheSurvives, Next,
                    NEW e \in sent', e.genuine, accepts'[e.id] > 0
             PROVE  \/ e.id \in DOMAIN seen' /\ seen'[e.id] >= e.issued - Skew
                    \/ clock' > e.expires + Skew + Stall
  BY DEF ForgottenIsDead
<1>0. Types
  BY DEF IInv
<1>1. CASE e \in sent /\ UNCHANGED <<accepts, seen>> /\ clock' >= clock
  <2>1. clock \in Nat /\ clock' >= clock /\ e.expires + Skew + Stall \in Int
    BY <1>0, <1>1, EnvelopeAssumption DEF Types, Envelope
  <2>2. CASE clock' \in Nat
    BY <1>0, <1>1, <2>1, <2>2, EnvelopeAssumption
    DEF IInv, ForgottenIsDead, Types, Envelope
  <2> QED
    BY <1>1, <2>2, <1>0 DEF Next, Types, Seal, Tamper, Begin, GiveUp, Refuse,
       Accept, Return, LoseAccepted, Restart, Tick
<1>2. ASSUME NEW m \in Message, NEW i \in Issue, NEW v \in Validity, Seal(m, i, v)
      PROVE  e \in sent
  <2>1. CASE e \in sent
    BY <2>1
  <2>2. CASE e.id = m
    <3>1. accepts[m] > 0
      BY <1>2, <2>2 DEF Seal
    <3>2. \E f \in sent : f.id = m
      BY <3>1 DEF IInv, Accepted
    <3> QED BY <1>2, <3>2 DEF Seal
  <2> QED BY <1>2, <2>1, <2>2 DEF Seal
<1>3. ASSUME NEW d \in sent, NEW i \in Issue, NEW v \in Validity, Tamper(d, i, v)
      PROVE  e \in sent
  BY <1>3 DEF Tamper
<1>4. ASSUME e \in sent, accepts[e.id] > 0, clock' = clock,
             NEW now \in Int, now <= clock,
             Kept(seen, now) \subseteq DOMAIN seen',
             \A k \in Kept(seen, now) : seen'[k] = seen[k]
      PROVE  \/ e.id \in DOMAIN seen' /\ seen'[e.id] >= e.issued - Skew
             \/ clock' > e.expires + Skew + Stall
  <2>1. CASE clock > e.expires + Skew + Stall
    BY <1>4, <2>1
  <2>2. CASE e.id \in DOMAIN seen /\ seen[e.id] >= e.issued - Skew
    <3>1. CASE e.id \in Kept(seen, now)
      BY <1>4, <2>2, <3>1
    <3>2. CASE e.id \notin Kept(seen, now)
      BY <1>4, <2>2, <3>2, PurgeKeepsTheLiving
    <3> QED BY <3>1, <3>2
  <2> QED BY <1>4, <2>1, <2>2 DEF IInv, ForgottenIsDead
<1>5. ASSUME NEW o \in Opener, Opening(o)
      PROVE  job[o].at \in Int /\ job[o].at <= clock /\ job[o].env \in sent
  BY <1>0, <1>5 DEF Opening, IInv, Working, Types, Idle, Job
<1>6. ASSUME NEW o \in Opener, Refuse(o)
      PROVE  \/ e.id \in DOMAIN seen' /\ seen'[e.id] >= e.issued - Skew
             \/ clock' > e.expires + Skew + Stall
  <2>1. /\ Kept(seen, job[o].at) \subseteq DOMAIN seen'
        /\ \A k \in Kept(seen, job[o].at) : seen'[k] = seen[k]
    BY <1>6 DEF Refuse, AfterRefusal, Purged, Kept
  <2>2. e \in sent /\ accepts[e.id] > 0 /\ clock' = clock
    BY <1>6 DEF Refuse
  <2> QED BY <1>4, <1>5, <1>6, <2>1, <2>2 DEF Refuse, Verified
<1>7. ASSUME NEW o \in Opener, Accept(o)
      PROVE  \/ e.id \in DOMAIN seen' /\ seen'[e.id] >= e.issued - Skew
             \/ clock' > e.expires + Skew + Stall
  <2> DEFINE m == job[o].env.id
             at == job[o].at
  <2>1. /\ DOMAIN seen' = Kept(seen, at) \cup {m}
        /\ seen'[m] = at
        /\ \A k \in Kept(seen, at) : k # m => seen'[k] = seen[k]
        /\ m \notin Kept(seen, at)
        /\ e \in sent /\ clock' = clock
    BY <1>7 DEF Accept, AfterAccept, Remembered
  <2>2. CASE e.id = m
    <3>1. e = job[o].env
      BY <1>5, <1>7, <2>1, <2>2 DEF Accept, Verified, IInv, Sealed
    <3>2. at >= e.issued - Skew
      BY <1>5, <1>7, <3>1, EnvelopeAssumption
      DEF Accept, Verified, Opening, IInv, Working, InWindow, Types, Envelope
    <3> QED BY <2>1, <2>2, <3>2
  <2>3. CASE e.id # m
    <3>1. accepts[e.id] > 0
      BY <1>0, <1>7, <2>1, <2>3 DEF Accept, Types, Envelope
    <3>2. \A k \in Kept(seen, at) : seen'[k] = seen[k]
      BY <2>1
    <3>3. at \in Int /\ at <= clock
      BY <1>5, <1>7 DEF Accept, Verified
    <3> QED BY <1>4, <2>1, <3>1, <3>2, <3>3
  <2> QED BY <2>2, <2>3
<1>8. CASE Restart
  BY <1>8, <1>1, <1>0 DEF Restart, CacheSurvives, Types
<1>9. CASE Tick
  BY <1>9, <1>1, <1>0 DEF Tick, Types
<1>10. ASSUME NEW o \in Opener, GiveUp(o) \/ Return(o) \/ LoseAccepted(o)
       PROVE  e \in sent /\ UNCHANGED <<accepts, seen, clock>>
  BY <1>10 DEF GiveUp, Return, LoseAccepted
<1>11. ASSUME NEW o \in Opener, NEW d \in sent, Begin(o, d)
       PROVE  e \in sent /\ UNCHANGED <<accepts, seen, clock>>
  BY <1>11 DEF Begin
<1>12. clock \in Nat
  BY <1>0 DEF Types
<1>13. ASSUME NEW o \in Opener, GiveUp(o) \/ Return(o) \/ LoseAccepted(o)
       PROVE  clock' >= clock
  BY <1>10, <1>12, <1>13
<1>14. ASSUME NEW m \in Message, NEW i \in Issue, NEW v \in Validity,
              Seal(m, i, v) \/ \E d \in sent : Tamper(d, i, v)
       PROVE  UNCHANGED <<accepts, seen, clock>>
  BY <1>14 DEF Seal, Tamper
<1> QED
  BY <1>1, <1>2, <1>3, <1>6, <1>7, <1>8, <1>9, <1>10, <1>11, <1>12, <1>14
  DEF Next, Seal, Tamper, Begin

\* The invariant is inductive under the two hypotheses.
LEMMA NextIInv == IInv /\ RetentionCovers /\ CacheSurvives /\ [Next]_vars => IInv'
<1> SUFFICES ASSUME IInv, RetentionCovers, CacheSurvives, [Next]_vars PROVE IInv'
  OBVIOUS
<1>1. CASE Next
  BY <1>1, NextTypes, NextSealed, NextWorking, NextAccepted, NextForgotten DEF IInv
<1>2. CASE UNCHANGED vars
  BY <1>2 DEF vars, IInv, Types, Sealed, Working, Opening, InWindow, Accepted,
     ForgottenIsDead
<1> QED BY <1>1, <1>2

-----------------------------------------------------------------------------
Bounded ==
  /\ IsFiniteSet(DOMAIN seen)
  /\ Cardinality(DOMAIN seen) <= MaxEntries
  /\ clock <= MaxTime

\* Purging a bounded cache leaves it bounded.
LEMMA KeptIsBounded ==
  ASSUME Bounded, NEW now
  PROVE  /\ IsFiniteSet(Kept(seen, now))
         /\ Cardinality(Kept(seen, now)) \in Nat
         /\ Cardinality(Kept(seen, now)) <= MaxEntries
<1>1. Kept(seen, now) \subseteq DOMAIN seen
  BY DEF Kept
<1>2. /\ IsFiniteSet(Kept(seen, now))
      /\ Cardinality(Kept(seen, now)) <= Cardinality(DOMAIN seen)
  BY <1>1, FS_Subset DEF Bounded
<1>3. Cardinality(Kept(seen, now)) \in Nat /\ Cardinality(DOMAIN seen) \in Nat
  BY <1>2, FS_CardinalityType DEF Bounded
<1> QED BY <1>2, <1>3, CacheAssumption DEF Bounded

\* The cache is purged before it grows, and refused at its limit.
LEMMA NextBounded == Types /\ Bounded /\ [Next]_vars => Bounded'
<1> SUFFICES ASSUME Types, Bounded, [Next]_vars PROVE Bounded'
  OBVIOUS
<1>1. CASE UNCHANGED <<seen, clock>>
  BY <1>1 DEF Bounded
<1>2. ASSUME NEW o \in Opener, Refuse(o)
      PROVE  Bounded'
  <2>1. seen' = seen \/ DOMAIN seen' = Kept(seen, job[o].at)
    BY <1>2 DEF Refuse, AfterRefusal, Purged
  <2> QED BY <1>2, <2>1, KeptIsBounded DEF Refuse, Bounded
<1>3. ASSUME NEW o \in Opener, Accept(o)
      PROVE  Bounded'
  <2> DEFINE K == Kept(seen, job[o].at)
             m == job[o].env.id
  <2>1. /\ DOMAIN seen' = K \cup {m}
        /\ m \notin K
        /\ ~ (Cardinality(K) >= MaxEntries)
        /\ clock' = clock
    BY <1>3 DEF Accept, AfterAccept, Remembered, Full
  <2>2. IsFiniteSet(K) /\ Cardinality(K) \in Nat
    BY KeptIsBounded
  <2>3. IsFiniteSet(K \cup {m}) /\ Cardinality(K \cup {m}) = Cardinality(K) + 1
    BY <2>1, <2>2, FS_AddElement
  <2> QED BY <2>1, <2>2, <2>3, CacheAssumption DEF Bounded
<1>4. CASE Restart
  <2>1. seen' = seen \/ DOMAIN seen' = {}
    BY <1>4 DEF Restart, EmptyCache
  <2>2. IsFiniteSet({}) /\ Cardinality({}) = 0
    BY FS_EmptySet
  <2>3. clock' = clock
    BY <1>4 DEF Restart
  <2>4. CASE seen' = seen
    BY <2>3, <2>4 DEF Bounded
  <2>5. CASE DOMAIN seen' = {}
    BY <2>2, <2>3, <2>5, CacheAssumption DEF Bounded
  <2> QED BY <2>1, <2>4, <2>5
<1>5. CASE Tick
  BY <1>5, EnvelopeAssumption DEF Tick, Bounded, Types
<1> QED
  BY <1>1, <1>2, <1>3, <1>4, <1>5
  DEF Next, vars, Seal, Tamper, Begin, GiveUp, Return, LoseAccepted

\* Every variable keeps its type and the cache never holds more than
\* max_entries identifiers, whatever the configuration (no hypotheses).
THEOREM TypeCorrect == Spec => []TypeOK
<1>1. Init => Types /\ Working /\ Bounded
  <2>1. Init => Bounded
    BY FS_EmptySet, CacheAssumption, EnvelopeAssumption
    DEF Init, Bounded, EmptyCache
  <2> QED BY <2>1, InitIInv DEF IInv
<1>2. Types /\ Working /\ Bounded /\ [Next]_vars => (Types /\ Working /\ Bounded)'
  <2>1. UNCHANGED vars /\ Types /\ Working => Types' /\ Working'
    BY DEF vars, Types, Working, Opening, InWindow
  <2> QED BY <2>1, NextTypes, NextWorking, NextBounded
<1>3. Types /\ Bounded => TypeOK
  BY EnvelopeAssumption DEF Types, Bounded, TypeOK
<1> QED BY <1>1, <1>2, <1>3, PTL DEF Spec

-----------------------------------------------------------------------------
\* What relates the workers to the counts: a worker that holds an accepted
\* message is the only one, and the message was not delivered yet.
Holding ==
  /\ \A o \in Opener : job[o].stage = "accepted" =>
       accepts[job[o].env.id] = 1 /\ delivered[job[o].env.id] = 0
  /\ \A o, p \in Opener :
       /\ job[o].stage = "accepted" /\ job[p].stage = "accepted"
       /\ job[o].env.id = job[p].env.id
       => o = p
  /\ \A m \in Message : delivered[m] <= accepts[m]

\* No worker holds anything at first.
LEMMA InitHolding == Init => Holding
BY DEF Init, Holding, Idle

\* A payload is handed over by the worker that accepted it, once.
LEMMA NextHolding == IInv /\ RetentionCovers /\ Holding /\ [Next]_vars => Holding'
<1> SUFFICES ASSUME IInv, RetentionCovers, Holding, [Next]_vars PROVE Holding'
  OBVIOUS
<1>0. Types
  BY DEF IInv
<1>1. CASE UNCHANGED <<job, accepts, delivered>>
  BY <1>1 DEF Holding
<1>2. ASSUME NEW o \in Opener, NEW j, job' = [job EXCEPT ![o] = j],
             j.stage # "accepted", UNCHANGED <<accepts, delivered>>
      PROVE  Holding'
  BY <1>0, <1>2 DEF Holding, Types
<1>3. ASSUME NEW o \in Opener, NEW e \in sent, Begin(o, e)
      PROVE  Holding'
  <2> DEFINE j == [stage |-> "opening", env |-> e, at |-> clock]
  <2>1. j.stage # "accepted"
    OBVIOUS
  <2>2. job' = [job EXCEPT ![o] = j] /\ UNCHANGED <<accepts, delivered>>
    BY <1>3 DEF Begin
  <2> QED BY ONLY <1>2, <2>1, <2>2
<1>4. ASSUME NEW o \in Opener, GiveUp(o) \/ Refuse(o) \/ LoseAccepted(o)
      PROVE  Holding'
  <2>1. Idle.stage # "accepted"
    BY DEF Idle
  <2>2. job' = [job EXCEPT ![o] = Idle] /\ UNCHANGED <<accepts, delivered>>
    BY <1>4 DEF GiveUp, Refuse, LoseAccepted
  <2> QED BY ONLY <1>2, <2>1, <2>2
<1>5. ASSUME NEW o \in Opener, Accept(o)
      PROVE  Holding'
  <2> DEFINE m == job[o].env.id
  <2>1. m \in Message /\ job[o] \in Job
    BY <1>0, <1>5 DEF Accept, Verified, Opening, Types, Idle, Job, Envelope
  <2>2. accepts[m] = 0
    BY <1>0, <1>5, <2>1, AcceptedIsRemembered DEF Accept, Types
  <2>3. accepts'[m] = 1 /\ delivered' = delivered
        /\ \A k \in Message \ {m} : accepts'[k] = accepts[k]
    BY <1>0, <1>5, <2>1, <2>2 DEF Accept, Types
  <2>4. delivered[m] = 0 /\ \A p \in Opener : job[p].stage = "accepted" => job[p].env.id # m
    BY <1>0, <2>1, <2>2 DEF Holding, Types
  <2>5. /\ job'[o].stage = "accepted" /\ job'[o].env = job[o].env
        /\ \A p \in Opener \ {o} : job'[p] = job[p]
    BY <1>0, <1>5, <2>1 DEF Accept, Types, Job
  <2>6. \A p \in Opener : job[p].stage = "accepted" => job[p].env.id \in Message
    BY <1>0 DEF Types, Idle, Job, Envelope
  <2> QED BY <1>0, <2>1, <2>3, <2>4, <2>5, <2>6 DEF Holding, Types
<1>6. ASSUME NEW o \in Opener, Return(o)
      PROVE  Holding'
  <2> DEFINE m == job[o].env.id
  <2>1. m \in Message /\ delivered[m] = 0 /\ accepts[m] = 1
    BY <1>0, <1>6 DEF Return, Types, Idle, Job, Envelope, Holding
  <2>2. delivered'[m] = 1 /\ \A k \in Message \ {m} : delivered'[k] = delivered[k]
    BY <1>0, <1>6, <2>1 DEF Return, Types
  <2>3. /\ job'[o] = Idle /\ accepts' = accepts
        /\ \A p \in Opener \ {o} : job'[p] = job[p]
    BY <1>0, <1>6 DEF Return, Types
  <2>4. \A p \in Opener \ {o} : job[p].stage = "accepted" =>
          job[p].env.id # m /\ job[p].env.id \in Message
    BY <1>0, <1>6 DEF Return, Holding, Types, Idle, Job, Envelope
  <2> QED BY <1>0, <2>1, <2>2, <2>3, <2>4 DEF Holding, Types, Idle
<1>7. CASE Restart
  BY <1>0, <1>7 DEF Restart, Holding, Types, Idle
<1> QED
  BY <1>1, <1>3, <1>4, <1>5, <1>6, <1>7 DEF Next, vars, Seal, Tamper, Tick

-----------------------------------------------------------------------------
\* Whatever the cache forgets is beyond the reach of every worker, even of
\* one whose clock reading is Stall old: the invariant at-most-once rests on.
THEOREM ForgottenCannotReturn ==
  ASSUME RetentionCovers, CacheSurvives
  PROVE  Spec => []ForgottenIsDead
<1>1. Init => IInv
  BY InitIInv
<1>2. IInv /\ [Next]_vars => IInv'
  BY NextIInv
<1>3. IInv => ForgottenIsDead
  BY DEF IInv
<1> QED BY <1>1, <1>2, <1>3, PTL DEF Spec

\* With a cache that survives and a retention that covers the validity
\* window, the skew on both sides and the stall, accept answers True at most
\* once for a message: open_envelope refines AtMostOnce.
THEOREM EnvelopeImplementsAtMostOnce ==
  ASSUME RetentionCovers, CacheSurvives
  PROVE  Spec => ImplementsAtMostOnce
<1>1. Init => Once!Init
  BY DEF Init, Once!Init
<1>2. IInv /\ [Next]_vars => [Once!Next]_accepts
  <2> SUFFICES ASSUME IInv, Next, accepts' # accepts
               PROVE  Once!Next
    BY DEF vars
  <2>1. PICK o \in Opener : Accept(o)
    BY DEF Next, Seal, Tamper, Begin, GiveUp, Refuse, Return, LoseAccepted,
           Restart, Tick
  <2> DEFINE m == job[o].env.id
  <2>2. m \in Message
    BY <2>1 DEF IInv, Types, Accept, Verified, Opening, Idle, Job, Envelope
  <2>3. accepts[m] = 0
    BY <2>1, <2>2, AcceptedIsRemembered DEF Accept, IInv, Types
  <2>4. Once!Take(m)
    BY <2>1, <2>2, <2>3 DEF Accept, Once!Take
  <2> QED BY <2>2, <2>4 DEF Once!Next
<1>3. Spec => []IInv
  BY InitIInv, NextIInv, PTL DEF Spec
<1> QED BY <1>1, <1>2, <1>3, PTL DEF Spec, ImplementsAtMostOnce, Once!Spec

\* Under the same hypotheses no payload is returned twice, by however many
\* workers and after however many restarts.
THEOREM NothingIsDeliveredTwice ==
  ASSUME RetentionCovers, CacheSurvives
  PROVE  Spec => []DeliveredAtMostOnce
<1>1. IInv /\ Holding => DeliveredAtMostOnce
  <2> SUFFICES ASSUME IInv, Holding, NEW m \in Message
               PROVE  /\ delivered[m] <= 1
                      /\ \A o \in Opener :
                           job[o].stage = "accepted" /\ job[o].env.id = m
                             => delivered[m] = 0
    BY DEF DeliveredAtMostOnce
  <2>1. delivered[m] <= accepts[m] /\ accepts[m] <= 1
        /\ delivered[m] \in Nat /\ accepts[m] \in Nat
    BY DEF IInv, Types, Accepted, Holding
  <2> QED BY <2>1 DEF Holding
<1>2. Init => IInv /\ Holding
  BY InitIInv, InitHolding
<1>3. IInv /\ Holding /\ [Next]_vars => IInv' /\ Holding'
  BY NextIInv, NextHolding
<1> QED BY <1>1, <1>2, <1>3, PTL DEF Spec

-----------------------------------------------------------------------------
\* What a step of a worker leaves in the cache was there before, or is the
\* verified envelope it accepted with the reading it was checked against.
LEMMA NextRemembered ==
  Types /\ Working /\ OnlyGenuineRemembered /\ [Next]_vars => OnlyGenuineRemembered'
<1> SUFFICES ASSUME Types, Working, OnlyGenuineRemembered, [Next]_vars,
                    NEW m \in DOMAIN seen'
             PROVE  /\ accepts'[m] > 0
                    /\ \E e \in sent' : e.id = m /\ e.genuine /\ InWindow(e, seen'[m])
  BY DEF OnlyGenuineRemembered
<1>1. sent \subseteq sent'
  BY DEF Next, vars, Seal, Tamper, Begin, GiveUp, Refuse, Accept, Return,
     LoseAccepted, Restart, Tick
<1>2. ASSUME m \in DOMAIN seen, seen'[m] = seen[m], accepts'[m] = accepts[m]
      PROVE  /\ accepts'[m] > 0
             /\ \E e \in sent' : e.id = m /\ e.genuine /\ InWindow(e, seen'[m])
  BY <1>1, <1>2 DEF OnlyGenuineRemembered
<1>3. CASE UNCHANGED <<seen, accepts>>
  BY <1>2, <1>3
<1>4. ASSUME NEW o \in Opener, Refuse(o)
      PROVE  /\ accepts'[m] > 0
             /\ \E e \in sent' : e.id = m /\ e.genuine /\ InWindow(e, seen'[m])
  BY <1>2, <1>4 DEF Refuse, AfterRefusal, Purged, Kept
<1>5. CASE Restart
  BY <1>2, <1>5 DEF Restart, EmptyCache
<1>6. ASSUME NEW o \in Opener, Accept(o)
      PROVE  /\ accepts'[m] > 0
             /\ \E e \in sent' : e.id = m /\ e.genuine /\ InWindow(e, seen'[m])
  <2> DEFINE e == job[o].env
             at == job[o].at
  <2>1. e \in sent /\ e.genuine /\ InWindow(e, at) /\ e.id \in Message
    BY <1>6 DEF Accept, Verified, Opening, Working, Types, Envelope
  <2>2. /\ DOMAIN seen' = Kept(seen, at) \cup {e.id}
        /\ seen'[e.id] = at
        /\ \A k \in Kept(seen, at) : k # e.id => seen'[k] = seen[k]
    BY <1>6 DEF Accept, AfterAccept
  <2>3. accepts'[e.id] = accepts[e.id] + 1 /\ accepts[e.id] \in Nat
        /\ \A k \in Message \ {e.id} : accepts'[k] = accepts[k]
    BY <1>6, <2>1 DEF Accept, Types
  <2>4. CASE m = e.id
    BY <1>1, <2>1, <2>2, <2>3, <2>4
  <2>5. CASE m # e.id
    BY <1>2, <2>2, <2>3, <2>5 DEF Kept, Types
  <2> QED BY <2>4, <2>5
<1> QED
  BY <1>3, <1>4, <1>5, <1>6
  DEF Next, vars, Seal, Tamper, Begin, GiveUp, Return, LoseAccepted, Tick

\* An altered copy burns no identifier: what the cache remembers was accepted,
\* from a genuine envelope, with a reading inside its window, whatever the
\* cache and the configuration (no hypotheses; protocol.py:378-394).
THEOREM AlteredCopiesBurnNothing == Spec => []OnlyGenuineRemembered
<1>1. Init => Types /\ Working /\ OnlyGenuineRemembered
  BY InitIInv DEF IInv, Init, EmptyCache, OnlyGenuineRemembered
<1>2. Types /\ Working /\ OnlyGenuineRemembered /\ [Next]_vars
      => (Types /\ Working /\ OnlyGenuineRemembered)'
  <2>1. UNCHANGED vars /\ Types /\ Working => Types' /\ Working'
    BY DEF vars, Types, Working, Opening, InWindow
  <2> QED BY <2>1, NextTypes, NextWorking, NextRemembered
<1> QED BY <1>1, <1>2, PTL DEF Spec
==============================================================================
