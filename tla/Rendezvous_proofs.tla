------------------------- MODULE Rendezvous_proofs -------------------------
(***************************************************************************)
(* What the rendezvous service promises holds for any agents, any length   *)
(* of the hour, any number of records and capabilities, and a clock reading *)
(* that is up to one tick old when it is used.                             *)
(*                                                                         *)
(* The invariant adds to the properties what a capability remembers of its *)
(* issue (Grant): its handle is that of an hour read at most Stall before   *)
(* the reading its expiry was computed from.  The table's own part          *)
(* (GoodTable) is an operator of the table, the leases, the capabilities    *)
(* and the clock, so that it can be stated of what a purge leaves behind.   *)
(***************************************************************************)
EXTENDS Rendezvous, FiniteSetTheorems, TLAPS

\* The capability t could have been issued.
Grant(t) ==
  \E n \in 0..t.at : /\ t.subject[2] = Epoch(n)
                     /\ t.at <= n + Stall
                     /\ t.at < t.expires /\ t.expires <= t.at + Hour

\* t lets h be registered until the tick e.
Grants(t, h, e) == t.subject = h /\ "register" \in t.scopes /\ e <= t.expires

GoodTable(r, ls, caps, now) ==
  /\ DOMAIN r \subseteq Handle
  /\ \A h \in DOMAIN r : r[h] \in Lease
  /\ IsFiniteSet(DOMAIN r)
  /\ Cardinality(DOMAIN r) <= MaxRecords
  /\ \A h \in DOMAIN r : r[h] = ls[h]
  /\ \A h \in Handle \ DOMAIN r : ls[h] # None => ls[h].expires <= now
  /\ \A h \in DOMAIN r : \E t \in caps : Grants(t, h, r[h].expires)
  /\ \A h \in DOMAIN r : Epoch(r[h].expires - 1) <= h[2] + 1

IInv ==
  /\ TypeOK
  /\ \A t \in issued : Grant(t)
  /\ GoodTable(records, lease, issued, clock)
  /\ AnswersAreCurrent

-----------------------------------------------------------------------------
(* The hours of the clock.                                                 *)

\* What division by Hour gives (relay.py:43).
LEMMA EpochBounds ==
  ASSUME NEW n \in Nat
  PROVE  Epoch(n) \in Nat /\ Hour * Epoch(n) <= n /\ n < Hour * Epoch(n) + Hour
<1>1. \A k \in Nat \ {0} : n \div k \in Nat /\ k * (n \div k) <= n
                           /\ n < k * (n \div k) + k
  OBVIOUS
<1> QED BY <1>1, RendezvousAssumption DEF Epoch

\* A positive factor cancels.
LEMMA TimesCancels ==
  ASSUME NEW m \in Nat \ {0}, NEW x \in Int, NEW y \in Int, m * x < m * y
  PROVE  x < y
OBVIOUS

\* One hour more, and two.
LEMMA TimesNext ==
  ASSUME NEW m \in Nat \ {0}, NEW x \in Int
  PROVE  m * x \in Int /\ m * (x + 1) = m * x + m /\ m * (x + 2) = m * x + m + m
OBVIOUS

\* Handles never go back.
LEMMA EpochMonotone ==
  ASSUME NEW n \in Nat, NEW k \in Nat, k <= n
  PROVE  Epoch(k) <= Epoch(n)
<1> DEFINE x == Epoch(n)
           y == Epoch(k)
<1>1. x \in Nat /\ Hour * x <= n /\ n < Hour * x + Hour
  BY EpochBounds
<1>2. y \in Nat /\ Hour * y <= k /\ k < Hour * y + Hour
  BY EpochBounds
<1>3. Hour \in Nat \ {0}
  BY RendezvousAssumption
<1> HIDE DEF x, y
<1>4. Hour * (x + 1) = Hour * x + Hour /\ Hour * x \in Int /\ Hour * y \in Int
  BY <1>1, <1>2, <1>3, TimesNext
<1>5. Hour * y < Hour * (x + 1)
  BY <1>1, <1>2, <1>3, <1>4
<1>6. y < x + 1
  BY <1>1, <1>2, <1>3, <1>5, TimesCancels
<1> QED BY <1>1, <1>2, <1>6 DEF x, y

\* Within an hour the handle changes at most once.
LEMMA EpochStep ==
  ASSUME NEW n \in Nat, NEW k \in Nat, n <= k, k <= n + Hour
  PROVE  Epoch(k) \in {Epoch(n), Epoch(n) + 1}
<1> DEFINE x == Epoch(n)
           y == Epoch(k)
<1>1. x \in Nat /\ Hour * x <= n /\ n < Hour * x + Hour
  BY EpochBounds
<1>2. y \in Nat /\ Hour * y <= k /\ k < Hour * y + Hour
  BY EpochBounds
<1>3. Hour \in Nat \ {0}
  BY RendezvousAssumption
<1> HIDE DEF x, y
<1>4. Hour * x \in Int /\ Hour * (x + 2) = Hour * x + Hour + Hour
  BY <1>1, <1>3, TimesNext
<1>5. Hour * y \in Int /\ Hour * (y + 1) = Hour * y + Hour
  BY <1>2, <1>3, TimesNext
<1>6. Hour * x < Hour * (y + 1) /\ Hour * y < Hour * (x + 2)
  BY <1>1, <1>2, <1>3, <1>4, <1>5
<1>7. x < y + 1
  BY <1>1, <1>2, <1>3, <1>6, TimesCancels
<1>8. y < x + 2
  BY <1>1, <1>2, <1>3, <1>6, TimesCancels
<1> QED BY <1>1, <1>2, <1>7, <1>8 DEF x, y

-----------------------------------------------------------------------------
(* What capabilities are good for.                                         *)

\* Until it expires, a capability is of this hour's handle or the last one's.
LEMMA GrantStep ==
  ASSUME NEW t \in Capability, Grant(t), NEW k \in Nat, k < t.expires
  PROVE  /\ Epoch(k) <= t.subject[2] + 1
         /\ k >= t.at => Epoch(k) \in {t.subject[2], t.subject[2] + 1}
<1>1. PICK n \in 0..t.at : /\ t.subject[2] = Epoch(n)
                           /\ t.at <= n + Stall
                           /\ t.at < t.expires /\ t.expires <= t.at + Hour
  BY DEF Grant
<1>2. t.at \in Nat /\ t.expires \in Nat /\ n \in Nat /\ n <= t.at
  BY RendezvousAssumption DEF Capability
<1>3. k <= n + Hour
  BY <1>1, <1>2, RendezvousAssumption
<1>4. Epoch(n) \in Nat
  BY <1>2, EpochBounds
<1>5. CASE n <= k
  BY <1>1, <1>2, <1>3, <1>4, <1>5, EpochStep
<1>6. CASE k < n
  <2>1. Epoch(k) <= Epoch(n) /\ Epoch(k) \in Nat
    BY <1>2, <1>6, EpochBounds, EpochMonotone
  <2> QED
    BY <1>1, <1>2, <1>4, <1>6, <2>1
<1> QED BY <1>2, <1>5, <1>6
-----------------------------------------------------------------------------
(* The table.                                                              *)

\* A good table stays good as time passes and capabilities are issued.
LEMMA GoodLater ==
  ASSUME NEW r, NEW ls, NEW caps, NEW more, NEW now \in Nat, NEW then \in Nat,
         ls \in [Handle -> Lease \cup {None}],
         GoodTable(r, ls, caps, now), caps \subseteq more, now <= then
  PROVE  GoodTable(r, ls, more, then)
<1>1. \A h \in Handle \ DOMAIN r : ls[h] # None => ls[h].expires <= then
  <2> SUFFICES ASSUME NEW h \in Handle \ DOMAIN r, ls[h] # None
               PROVE  ls[h].expires <= then
    OBVIOUS
  <2>1. ls[h] \in Lease /\ ls[h].expires <= now
    BY DEF GoodTable
  <2>2. ls[h].expires \in Int
    BY <2>1, RendezvousAssumption DEF Lease
  <2> QED BY <2>1, <2>2
<1>2. \A h \in DOMAIN r : \E t \in more : Grants(t, h, r[h].expires)
  BY DEF GoodTable
<1> QED BY <1>1, <1>2 DEF GoodTable

\* What any purge leaves is a good table (relay.py:65-68).
LEMMA GoodPurged ==
  ASSUME IInv, NEW now \in Reading
  PROVE  GoodTable(Purged(now), lease, issued, clock)
<1> DEFINE r == Purged(now)
<1>1. now \in Nat /\ now <= clock /\ clock \in Nat
  BY RendezvousAssumption DEF Reading, IInv, TypeOK
<1>2. DOMAIN r \subseteq DOMAIN records /\ \A h \in DOMAIN r : r[h] = records[h]
  BY DEF Purged
<1>3. \A h \in DOMAIN records \ DOMAIN r : ~(records[h].expires > now)
  BY DEF Purged, Live
<1>4. GoodTable(records, lease, issued, clock)
  BY DEF IInv
<1> HIDE DEF r
<1>5. IsFiniteSet(DOMAIN r) /\ Cardinality(DOMAIN r) <= MaxRecords
  <2>1. IsFiniteSet(DOMAIN records) /\ Cardinality(DOMAIN records) <= MaxRecords
    BY <1>4 DEF GoodTable
  <2>2. IsFiniteSet(DOMAIN r) /\ Cardinality(DOMAIN r) <= Cardinality(DOMAIN records)
    BY <1>2, <2>1, FS_Subset
  <2>3. Cardinality(DOMAIN r) \in Nat /\ Cardinality(DOMAIN records) \in Nat
    BY <2>1, <2>2, FS_CardinalityType
  <2> QED BY <2>1, <2>2, <2>3, RendezvousAssumption
<1>6. \A h \in Handle \ DOMAIN r : lease[h] # None => lease[h].expires <= clock
  <2> SUFFICES ASSUME NEW h \in Handle \ DOMAIN r, lease[h] # None
               PROVE  lease[h].expires <= clock
    OBVIOUS
  <2>1. CASE h \in DOMAIN records
    <3>1. records[h] = lease[h] /\ records[h] \in Lease
      BY <1>4, <2>1 DEF GoodTable
    <3>2. records[h].expires \in Int
      BY <3>1, RendezvousAssumption DEF Lease
    <3> QED BY <1>1, <1>3, <2>1, <3>1, <3>2
  <2>2. CASE h \notin DOMAIN records
    BY <1>4, <2>2 DEF GoodTable
  <2> QED BY <2>1, <2>2
<1>7. GoodTable(r, lease, issued, clock)
  BY <1>2, <1>4, <1>5, <1>6 DEF GoodTable
<1> QED BY <1>7 DEF r

\* Whoever Permits lets through holds an issued capability for the handle.
LEMMA PermitsIsGranted ==
  ASSUME IInv, NEW t, NEW scope, NEW h, NEW now \in Reading,
         Permits(t, scope, h, now)
  PROVE  t \in issued /\ t \in Capability /\ Grant(t) /\ t.subject = h
         /\ scope \in t.scopes /\ now < t.expires
BY DEF IInv, TypeOK, Permits, Verifies

\* A registration that fits makes a good table of a good table (relay.py:78-83).
LEMMA GoodWith ==
  ASSUME NEW r, NEW ls, NEW caps, NEW now, NEW h \in Handle, NEW l \in Lease,
         ls \in [Handle -> Lease \cup {None}],
         GoodTable(r, ls, caps, now), ~ Overfull(With(r, h, l)),
         \E t \in caps : Grants(t, h, l.expires),
         Epoch(l.expires - 1) <= h[2] + 1
  PROVE  GoodTable(With(r, h, l), [ls EXCEPT ![h] = l], caps, now)
<1> DEFINE w == With(r, h, l)
           ks == [ls EXCEPT ![h] = l]
<1>1. DOMAIN w = DOMAIN r \cup {h} /\ w[h] = l
      /\ \A k \in DOMAIN r \ {h} : w[k] = r[k]
  BY DEF With
<1>2. ks[h] = l /\ \A k \in Handle \ {h} : ks[k] = ls[k]
  OBVIOUS
<1>3. ~ (Cardinality(DOMAIN w) > MaxRecords)
  BY DEF Overfull
<1> HIDE DEF w, ks
<1>4. IsFiniteSet(DOMAIN w)
  BY <1>1, FS_AddElement DEF GoodTable
<1>5. Cardinality(DOMAIN w) <= MaxRecords
  BY <1>3, <1>4, FS_CardinalityType, RendezvousAssumption
<1>6. DOMAIN w \subseteq Handle /\ \A k \in DOMAIN w : w[k] \in Lease
  BY <1>1 DEF GoodTable
<1>7. \A k \in DOMAIN w : w[k] = ks[k]
  BY <1>1, <1>2 DEF GoodTable
<1>8. \A k \in Handle \ DOMAIN w : ks[k] # None => ks[k].expires <= now
  BY <1>1, <1>2 DEF GoodTable
<1>9. \A k \in DOMAIN w : \E t \in caps : Grants(t, k, w[k].expires)
  BY <1>1 DEF GoodTable
<1>10. \A k \in DOMAIN w : Epoch(w[k].expires - 1) <= k[2] + 1
  BY <1>1 DEF GoodTable
<1>11. GoodTable(w, ks, caps, now)
  BY <1>4, <1>5, <1>6, <1>7, <1>8, <1>9, <1>10 DEF GoodTable
<1> QED BY <1>11 DEF w, ks

\* One too many is never a renewal, and deleting it restores the table.
LEMMA GoodWithout ==
  ASSUME NEW r, NEW ls, NEW caps, NEW now, NEW h, NEW l,
         GoodTable(r, ls, caps, now), Overfull(With(r, h, l))
  PROVE  GoodTable(Without(With(r, h, l), h), ls, caps, now)
<1> DEFINE w == With(r, h, l)
           o == Without(w, h)
<1>1. DOMAIN w = DOMAIN r \cup {h} /\ \A k \in DOMAIN r \ {h} : w[k] = r[k]
  BY DEF With
<1>2. Cardinality(DOMAIN w) > MaxRecords
  BY DEF Overfull
<1>3. DOMAIN o = DOMAIN w \ {h} /\ \A k \in DOMAIN w \ {h} : o[k] = w[k]
  BY DEF Without
<1> HIDE DEF w, o
<1>4. h \notin DOMAIN r
  <2> SUFFICES ASSUME h \in DOMAIN r PROVE FALSE
    OBVIOUS
  <2>1. DOMAIN w = DOMAIN r
    BY <1>1
  <2>2. IsFiniteSet(DOMAIN r) /\ Cardinality(DOMAIN r) <= MaxRecords
    BY DEF GoodTable
  <2>3. Cardinality(DOMAIN w) = Cardinality(DOMAIN r)
    BY <2>1, Zenon
  <2>4. Cardinality(DOMAIN r) \in Nat
    BY <2>2, FS_CardinalityType
  <2> QED BY <1>2, <2>2, <2>3, <2>4, RendezvousAssumption
<1>5. DOMAIN o = DOMAIN r /\ \A k \in DOMAIN r : o[k] = r[k]
  BY <1>1, <1>3, <1>4
<1>6. IsFiniteSet(DOMAIN o) /\ Cardinality(DOMAIN o) <= MaxRecords
  <2>1. IsFiniteSet(DOMAIN r) /\ Cardinality(DOMAIN r) <= MaxRecords
    BY DEF GoodTable
  <2>2. DOMAIN o = DOMAIN r
    BY <1>5
  <2> QED BY <2>1, <2>2, Zenon
<1>7. GoodTable(o, ls, caps, now)
  BY <1>5, <1>6 DEF GoodTable
<1> QED BY <1>7 DEF w, o

-----------------------------------------------------------------------------
(* The steps.                                                              *)

\* The empty table is good.
LEMMA InitHolds == Init => IInv
<1> SUFFICES ASSUME Init PROVE IInv
  OBVIOUS
<1>1. DOMAIN records = {}
  BY DEF Init
<1>2. TypeOK
  <2>1. clock \in 0..MaxTime
    BY RendezvousAssumption DEF Init
  <2> QED BY <1>1, <2>1 DEF Init, TypeOK
<1>3. IsFiniteSet(DOMAIN records) /\ Cardinality(DOMAIN records) <= MaxRecords
  <2>1. IsFiniteSet({}) /\ Cardinality({}) = 0
    BY FS_EmptySet
  <2>2. IsFiniteSet(DOMAIN records) /\ Cardinality(DOMAIN records) = 0
    BY <1>1, <2>1, Zenon
  <2> QED BY <2>2, RendezvousAssumption
<1>4. \A h \in Handle : lease[h] = None
  BY DEF Init
<1>5. GoodTable(records, lease, issued, clock)
  BY <1>1, <1>3, <1>4 DEF GoodTable
<1> QED BY <1>2, <1>5 DEF Init, IInv, AnswersAreCurrent

\* Time makes leases expire, which the invariant allows.
LEMMA TickHolds == IInv /\ Tick => IInv'
<1> SUFFICES ASSUME IInv, Tick PROVE IInv'
  OBVIOUS
<1>1. clock \in Nat /\ clock' = clock + 1 /\ clock' \in 0..MaxTime
  BY RendezvousAssumption DEF IInv, TypeOK, Tick
<1>2. issued' = issued /\ records' = records /\ lease' = lease /\ answer' = None
  BY DEF Tick
<1>3. TypeOK'
  BY <1>1, <1>2 DEF IInv, TypeOK
<1>4. GoodTable(records, lease, issued, clock + 1)
  BY <1>1, GoodLater DEF IInv, TypeOK
<1>5. GoodTable(records, lease, issued, clock)'
  BY <1>1, <1>2, <1>4, Zenon
<1>6. (\A t \in issued : Grant(t))'
  BY <1>2 DEF IInv, Grant
<1>7. AnswersAreCurrent'
  BY <1>2 DEF AnswersAreCurrent
<1> QED BY <1>3, <1>5, <1>6, <1>7 DEF IInv

\* What is issued could have been issued.
LEMMA IssueHolds ==
  ASSUME IInv, NEW now \in Reading, NEW a \in Agent, NEW scopes \in Scopes,
         NEW ttl \in 1..Hour, Issue(a, scopes, ttl, now)
  PROVE  IInv'
<1> DEFINE t == [subject |-> <<a, Epoch(now)>>, scopes |-> scopes,
                 at |-> clock, expires |-> clock + ttl]
<1>1. now \in Nat /\ now <= clock /\ clock <= now + Stall /\ clock \in Nat
      /\ clock <= MaxTime /\ ttl \in Nat /\ 1 <= ttl /\ ttl <= Hour
      /\ Hour \in Nat /\ MaxTime \in Nat /\ Stall \in Nat
  BY RendezvousAssumption DEF IInv, TypeOK, Reading
<1>2. clock' = clock /\ records' = records /\ lease' = lease /\ answer' = None
      /\ issued' = issued \cup {t}
  BY DEF Issue
<1>3. t.subject = <<a, Epoch(now)>> /\ t.scopes = scopes /\ t.at = clock
      /\ t.expires = clock + ttl
  OBVIOUS
<1>4. t \in Capability
  <2>1. Epoch(now) \in 0..Epoch(MaxTime)
    BY <1>1, EpochBounds, EpochMonotone
  <2>2. <<a, Epoch(now)>> \in Handle
    BY <2>1 DEF Handle
  <2>3. clock \in 0..MaxTime /\ clock + ttl \in 1..(MaxTime + Hour)
    BY <1>1
  <2> QED BY <2>2, <2>3 DEF Capability
<1> HIDE DEF t
<1>5. Grant(t)
  <2>1. now \in 0..t.at /\ t.subject[2] = Epoch(now)
    BY <1>1, <1>3
  <2>2. t.at <= now + Stall /\ t.at < t.expires /\ t.expires <= t.at + Hour
    BY <1>1, <1>3
  <2> QED BY <2>1, <2>2 DEF Grant
<1>6. TypeOK'
  BY <1>2, <1>4 DEF IInv, TypeOK
<1>7. GoodTable(records, lease, issued \cup {t}, clock)
  BY <1>1, GoodLater DEF IInv, TypeOK
<1>8. GoodTable(records, lease, issued, clock)'
  BY <1>2, <1>7, Zenon
<1>9. (\A u \in issued : Grant(u))'
  BY <1>2, <1>5 DEF IInv, Grant
<1>10. AnswersAreCurrent'
  BY <1>2 DEF AnswersAreCurrent
<1> QED BY <1>6, <1>8, <1>9, <1>10 DEF IInv

\* A registration purges, verifies, inserts, and deletes what was one too many.
LEMMA RegisterHolds ==
  ASSUME IInv, NEW now \in Reading, NEW h \in Handle, NEW t \in issued,
         NEW endpoint \in Endpoint, NEW ttl \in 1..Hour,
         Register(h, endpoint, t, ttl, now)
  PROVE  IInv'
<1> DEFINE r == Purged(now)
           e == Least(now + ttl, t.expires)
           l == [endpoint |-> endpoint, expires |-> e]
           w == With(r, h, l)
<1>1. now \in Nat /\ now <= clock /\ clock \in Nat /\ clock <= MaxTime
      /\ ttl \in Nat /\ 1 <= ttl /\ ttl <= Hour /\ Hour \in Nat /\ MaxTime \in Nat
  BY RendezvousAssumption DEF IInv, TypeOK, Reading
<1>2. t \in Capability /\ Grant(t) /\ t.subject = h /\ "register" \in t.scopes
      /\ now < t.expires
  BY PermitsIsGranted DEF Register
<1>3. t.expires \in Nat /\ 1 <= t.expires /\ t.expires <= MaxTime + Hour
      /\ h[2] \in Int
  <2>1. h[2] \in 0..Epoch(MaxTime)
    BY DEF Handle
  <2> QED BY <1>1, <1>2, <2>1 DEF Capability
<1>4. e \in Nat /\ 1 <= e /\ e <= t.expires /\ e <= MaxTime + Hour
  BY <1>1, <1>3 DEF Least
<1>5. clock' = clock /\ issued' = issued /\ answer' = None
  BY DEF Register
<1>6. IF Overfull(w) THEN records' = Without(w, h) /\ lease' = lease
                     ELSE records' = w /\ lease' = [lease EXCEPT ![h] = l]
  BY DEF Register
<1>7. GoodTable(r, lease, issued, clock)
  BY GoodPurged
<1> HIDE DEF r, e
<1>8. l \in Lease /\ l.expires = e
  BY <1>4 DEF Lease
<1> HIDE DEF l
<1>9. lease \in [Handle -> Lease \cup {None}]
  BY DEF IInv, TypeOK
<1>10. \E u \in issued : Grants(u, h, l.expires)
  BY <1>2, <1>4, <1>8 DEF Grants
<1>11. Epoch(l.expires - 1) <= h[2] + 1
  <2> DEFINE k == e - 1
  <2>1. k \in Nat /\ k < t.expires
    BY <1>3, <1>4
  <2> HIDE DEF k
  <2>2. Epoch(k) <= t.subject[2] + 1
    BY <1>2, <2>1, GrantStep
  <2> QED BY <1>2, <1>8, <2>2 DEF k
<1> HIDE DEF w
<1>12. GoodTable(records', lease', issued, clock)
       /\ lease' \in [Handle -> Lease \cup {None}]
  <2>1. CASE Overfull(w)
    <3>1. GoodTable(Without(w, h), lease, issued, clock)
      BY <1>7, <2>1, GoodWithout DEF w
    <3> QED BY <1>6, <1>9, <2>1, <3>1
  <2>2. CASE ~ Overfull(w)
    <3>1. GoodTable(w, [lease EXCEPT ![h] = l], issued, clock)
      BY <1>7, <1>8, <1>9, <1>10, <1>11, <2>2, GoodWith DEF w
    <3>2. [lease EXCEPT ![h] = l] \in [Handle -> Lease \cup {None}]
      BY <1>8, <1>9
    <3> QED BY <1>6, <2>2, <3>1, <3>2
  <2> QED BY <2>1, <2>2
<1>13. GoodTable(records, lease, issued, clock)'
  BY <1>5, <1>12, Zenon
<1>14. DOMAIN records' \subseteq Handle /\ \A k \in DOMAIN records' : records'[k] \in Lease
  BY <1>12 DEF GoodTable
<1>15. TypeOK'
  BY <1>5, <1>12, <1>14 DEF IInv, TypeOK
<1>16. (\A u \in issued : Grant(u))'
  BY <1>5 DEF IInv, Grant
<1>17. AnswersAreCurrent'
  BY <1>5 DEF AnswersAreCurrent
<1> QED BY <1>13, <1>15, <1>16, <1>17 DEF IInv

\* A refused registration has purged.
LEMMA RegisterRefusedHolds ==
  ASSUME IInv, NEW now \in Reading, RegisterRefused(now)
  PROVE  IInv'
<1>1. clock' = clock /\ issued' = issued /\ lease' = lease /\ answer' = None
      /\ records' = Purged(now)
  BY DEF RegisterRefused
<1>2. GoodTable(Purged(now), lease, issued, clock)
  BY GoodPurged
<1>3. GoodTable(records, lease, issued, clock)'
  BY <1>1, <1>2, Zenon
<1>4. TypeOK'
  BY <1>1, <1>2 DEF IInv, TypeOK, GoodTable
<1>5. (\A u \in issued : Grant(u))'
  BY <1>1 DEF IInv, Grant
<1>6. AnswersAreCurrent'
  BY <1>1 DEF AnswersAreCurrent
<1> QED BY <1>3, <1>4, <1>5, <1>6 DEF IInv

\* A lookup purges, and answers from what is left.
LEMMA LookupHolds ==
  ASSUME IInv, NEW now \in Reading, NEW h \in Handle, NEW t \in issued,
         Lookup(h, t, now)
  PROVE  IInv'
<1> DEFINE r == Purged(now)
<1>1. clock' = clock /\ issued' = issued /\ lease' = lease /\ records' = r
      /\ answer' = IF h \in DOMAIN r
                     THEN [handle |-> h, endpoint |-> r[h].endpoint, at |-> now]
                     ELSE None
  BY DEF Lookup
<1>2. GoodTable(r, lease, issued, clock)
  BY GoodPurged
<1>3. \A k \in DOMAIN r : r[k].expires > now
  BY DEF Purged, Live
<1> HIDE DEF r
<1>4. GoodTable(records, lease, issued, clock)'
  BY <1>1, <1>2, Zenon
<1>5. t \in Capability /\ t.subject = h /\ "lookup" \in t.scopes
      /\ now < t.expires
  BY PermitsIsGranted DEF Lookup
<1>6. now \in 0..MaxTime
  BY RendezvousAssumption DEF IInv, TypeOK, Reading
<1>7. CASE h \notin DOMAIN r
  <2>1. answer' = None
    BY <1>1, <1>7
  <2>2. TypeOK'
    BY <1>1, <1>2, <2>1 DEF IInv, TypeOK, GoodTable
  <2>3. AnswersAreCurrent'
    BY <2>1 DEF AnswersAreCurrent
  <2> QED BY <1>1, <1>4, <2>2, <2>3 DEF IInv, Grant
<1>8. CASE h \in DOMAIN r
  <2> DEFINE x == [handle |-> h, endpoint |-> r[h].endpoint, at |-> now]
  <2>1. answer' = x
    BY <1>1, <1>8
  <2>2. r[h] = lease[h] /\ r[h] \in Lease /\ r[h].expires > now
    BY <1>2, <1>3, <1>8 DEF GoodTable
  <2>3. r[h].endpoint \in Endpoint
    BY <2>2 DEF Lease
  <2>4. x \in [handle : Handle, endpoint : Endpoint, at : 0..MaxTime]
    BY <1>6, <2>3
  <2>5. x.handle = h /\ x.endpoint = r[h].endpoint /\ x.at = now
    OBVIOUS
  <2> HIDE DEF x
  <2>6. TypeOK'
    BY <1>1, <1>2, <2>1, <2>4 DEF IInv, TypeOK, GoodTable
  <2>7. lease[h] # None
    BY <2>2, NoneAssumption
  <2>8. AnswersAreCurrent'
    BY <1>1, <1>5, <2>1, <2>2, <2>5, <2>7 DEF AnswersAreCurrent
  <2> QED BY <1>1, <1>4, <2>6, <2>8 DEF IInv, Grant
<1> QED BY <1>7, <1>8

\* The invariant is inductive.
LEMMA NextHolds == IInv /\ [Next]_vars => IInv'
<1> SUFFICES ASSUME IInv, [Next]_vars PROVE IInv'
  OBVIOUS
<1>1. ASSUME NEW now \in Reading, NEW a \in Agent, NEW scopes \in Scopes,
             NEW ttl \in 1..Hour, Issue(a, scopes, ttl, now)
      PROVE  IInv'
  BY <1>1, IssueHolds
<1>2. ASSUME NEW now \in Reading, NEW h \in Handle, NEW t \in issued,
             NEW endpoint \in Endpoint, NEW ttl \in 1..Hour,
             Register(h, endpoint, t, ttl, now)
      PROVE  IInv'
  BY <1>2, RegisterHolds
<1>3. ASSUME NEW now \in Reading, NEW h \in Handle, NEW t \in issued,
             Lookup(h, t, now)
      PROVE  IInv'
  BY <1>3, LookupHolds
<1>4. ASSUME NEW now \in Reading, RegisterRefused(now)
      PROVE  IInv'
  BY <1>4, RegisterRefusedHolds
<1>5. CASE Tick
  BY <1>5, TickHolds
<1>6. CASE UNCHANGED vars
  BY <1>6 DEF vars, IInv, TypeOK, Grant, GoodTable, AnswersAreCurrent
<1> QED BY <1>1, <1>2, <1>3, <1>4, <1>5, <1>6 DEF Next

\* The invariant holds in every state.
LEMMA InvariantHolds == Spec => []IInv
<1>1. Init => IInv
  BY InitHolds
<1>2. IInv /\ [Next]_vars => IInv'
  BY NextHolds
<1> QED BY <1>1, <1>2, PTL DEF Spec

-----------------------------------------------------------------------------
\* Every variable keeps its type (relay.py:33-97).
THEOREM RendezvousIsTyped == Spec => []TypeOK
<1>1. IInv => TypeOK
  BY DEF IInv
<1> QED BY <1>1, InvariantHolds, PTL

\* Neither a purge with a clock reading that is a tick old, nor a refused
\* call, nor a full table ever loses, shortens or revives a registration that
\* is live, and the table never holds more than max_records (relay.py:65-97).
THEOREM RegistrationsStand == Spec => []LastRegistrationStands
<1>1. IInv => LastRegistrationStands
  BY DEF IInv, GoodTable, LastRegistrationStands
<1> QED BY <1>1, InvariantHolds, PTL

\* A lookup answers with the endpoint registered last, under a lease that was
\* live at its clock reading, and to a holder of a capability that was good
\* then (relay.py:85-97).
THEOREM LookupsAreCurrent == Spec => []AnswersAreCurrent
<1>1. IInv => AnswersAreCurrent
  BY DEF IInv
<1> QED BY <1>1, InvariantHolds, PTL

\* Every record in the table was registered with a capability its owner issued
\* for that handle, and lasts no longer than that one or than the hour after
\* the handle's own (relay.py:33-83).
THEOREM NothingUngranted == Spec => []RegistrationsAreGranted
<1>1. IInv => RegistrationsAreGranted
  BY DEF IInv, GoodTable, Grants, RegistrationsAreGranted
<1> QED BY <1>1, InvariantHolds, PTL

\* Wherever in the hour it was issued, and with the handle computed a tick
\* before its expiry, a capability verifies until it expires: the handles of
\* this hour and the last are enough (relay.py:33-53).
THEOREM CapabilitiesLast == Spec => []LiveCapabilityVerifies
<1>1. IInv => LiveCapabilityVerifies
  <2> SUFFICES ASSUME IInv, NEW t \in issued, NEW now \in t.at..(t.expires - 1)
               PROVE  t.subject \in ValidHandles(t.subject[1], now)
    BY DEF LiveCapabilityVerifies
  <2>1. t \in Capability /\ Grant(t)
    BY DEF IInv, TypeOK
  <2>2. t.at \in Nat /\ t.expires \in Nat
    BY <2>1, RendezvousAssumption DEF Capability
  <2>3. now \in Nat /\ now < t.expires /\ now >= t.at
    BY <2>2
  <2>4. Epoch(now) \in {t.subject[2], t.subject[2] + 1}
    BY <2>1, <2>3, GrantStep
  <2>5. t.subject = <<t.subject[1], t.subject[2]>> /\ t.subject[2] \in Int
    <3>1. t.subject \in Agent \X (0..Epoch(MaxTime))
      BY <2>1 DEF Capability, Handle
    <3> QED BY <3>1
  <2>6. t.subject[2] \in {Epoch(now), Epoch(now) - 1}
    BY <2>4, <2>5
  <2> QED BY <2>5, <2>6 DEF ValidHandles
<1> QED BY <1>1, InvariantHolds, PTL
=============================================================================
