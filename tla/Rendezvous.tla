----------------------------- MODULE Rendezvous -----------------------------
(***************************************************************************)
(* Capabilities and the in-process rendezvous service (relay.py:33-97).    *)
(* Agents register an endpoint under a handle that changes every hour, and *)
(* holders of a capability for a handle look its endpoint up.              *)
(*                                                                         *)
(* register and lookup read the clock before they take the lock: the value *)
(* now they work with may be Stall old when they run.  So may the epoch in *)
(* a capability, whose expiry is computed from a second reading.  A        *)
(* signature verifies for what was issued and for nothing else.  The scope *)
(* set of a capability is what it grants to the audience "rendezvous".     *)
(***************************************************************************)
EXTENDS Integers, FiniteSets

CONSTANTS Agent, Endpoint,
          Hour,          \* ticks in an hour, and the longest ttl_seconds
          Scopes,        \* the scope sets agents ask for
          Stall,         \* longest time from reading the clock to using it
          MaxRecords,    \* max_records
          MaxTokens,     \* bound: capabilities issued
          MaxTime,       \* bound of the clock
          None

ASSUME RendezvousAssumption ==
  /\ Hour \in Nat \ {0}
  /\ Scopes \subseteq SUBSET {"register", "lookup"}
  /\ Stall \in {0, 1}
  /\ MaxRecords \in Nat \ {0}
  /\ MaxTokens \in Nat /\ MaxTime \in Nat

VARIABLES clock,
          issued,    \* every capability ever issued
          records,   \* the table: [handles -> endpoint and expiry]
          lease,     \* history: the last registration accepted, per handle
          answer     \* history: what the call that ended last, a lookup,
                     \* returned, or None

vars == <<clock, issued, records, lease, answer>>

Epoch(now) == now \div Hour
Handle == Agent \X (0..Epoch(MaxTime))
Lease == [endpoint : Endpoint, expires : 1..(MaxTime + Hour)]

ASSUME NoneAssumption == None \notin Lease

Capability == [subject : Handle, scopes : Scopes, at : 0..MaxTime,
               expires : 1..(MaxTime + Hour)]

\* Clock readings a call may hold now.
Reading == {now \in 0..clock : clock <= now + Stall}

Init ==
  /\ clock = 0
  /\ issued = {}
  /\ records = [h \in {} |-> None]
  /\ lease = [h \in Handle |-> None]
  /\ answer = None

\* issue_capability: the handle of the hour, read first; the expiry from the
\* clock as it is by then.
Issue(a, scopes, ttl, now) ==
  /\ Cardinality(issued) < MaxTokens
  /\ issued' = issued \cup {[subject |-> <<a, Epoch(now)>>, scopes |-> scopes,
                             at |-> clock, expires |-> clock + ttl]}
  /\ answer' = None
  /\ UNCHANGED <<clock, records, lease>>

\* Mutated form of ValidHandles: the handle of the last hour is not taken.
ValidHandlesNow(a, now) == {<<a, Epoch(now)>>}

ValidHandles(a, now) == {<<a, Epoch(now)>>, <<a, Epoch(now) - 1>>}

\* verify_capability: subject, scope, expiry, signature.
Verifies(t, a, scope, now) ==
  /\ t.subject \in ValidHandles(a, now)
  /\ scope \in t.scopes
  /\ now < t.expires
  /\ t \in issued

\* Mutated form of Permits: the capability may be for another handle.
PermitsOthers(t, scope, h, now) ==
  t.at <= now /\ \E a \in Agent : Verifies(t, a, scope, now)

\* The capability verifies for the identity the caller names, and the handle
\* is its subject.  A caller cannot hold it before it was issued.
Permits(t, scope, h, now) ==
  /\ t.at <= now
  /\ \E a \in Agent : Verifies(t, a, scope, now)
  /\ h = t.subject

Live(h, now) == records[h].expires > now

\* What _purge leaves.
Purged(now) == [h \in {k \in DOMAIN records : Live(k, now)} |-> records[h]]

With(table, h, l) == [k \in DOMAIN table \cup {h} |-> IF k = h THEN l ELSE table[k]]
Without(table, h) == [k \in DOMAIN table \ {h} |-> table[k]]

Least(i, j) == IF i <= j THEN i ELSE j

Overfull(table) == Cardinality(DOMAIN table) > MaxRecords

\* Mutated form of Register: a renewal is counted like a new record.
RegisterCountsRenewals(h, endpoint, t, ttl, now) ==
  /\ Permits(t, "register", h, now)
  /\ LET new == [endpoint |-> endpoint, expires |-> Least(now + ttl, t.expires)]
     IN  IF Cardinality(DOMAIN Purged(now)) >= MaxRecords
           THEN records' = Without(Purged(now), h) /\ lease' = lease
           ELSE /\ records' = With(Purged(now), h, new)
                /\ lease' = [lease EXCEPT ![h] = new]
  /\ answer' = None
  /\ UNCHANGED <<clock, issued>>

\* register: purge, verify, insert, and delete again when that was one too
\* many.  A renewal replaces the record and cannot be one too many.
Register(h, endpoint, t, ttl, now) ==
  /\ Permits(t, "register", h, now)
  /\ LET new == [endpoint |-> endpoint, expires |-> Least(now + ttl, t.expires)]
         table == With(Purged(now), h, new)
     IN  IF Overfull(table)
           THEN records' = Without(table, h) /\ lease' = lease
           ELSE records' = table /\ lease' = [lease EXCEPT ![h] = new]
  /\ answer' = None
  /\ UNCHANGED <<clock, issued>>

\* register raises after the purge: the capability is no good.
RegisterRefused(now) ==
  /\ records' = Purged(now)
  /\ answer' = None
  /\ UNCHANGED <<clock, issued, lease>>

\* Mutated form of Lookup: nothing is purged first.
LookupUnpurged(h, t, now) ==
  /\ Permits(t, "lookup", h, now)
  /\ answer' = IF h \in DOMAIN records
                 THEN [handle |-> h, endpoint |-> records[h].endpoint, at |-> now]
                 ELSE None
  /\ UNCHANGED <<clock, issued, records, lease>>

\* lookup: verify, then purge, then read; a handle that is not there raises.
Lookup(h, t, now) ==
  /\ Permits(t, "lookup", h, now)
  /\ records' = Purged(now)
  /\ answer' = IF h \in DOMAIN records'
                 THEN [handle |-> h, endpoint |-> records'[h].endpoint, at |-> now]
                 ELSE None
  /\ UNCHANGED <<clock, issued, lease>>

Tick ==
  /\ clock < MaxTime
  /\ clock' = clock + 1
  /\ answer' = None
  /\ UNCHANGED <<issued, records, lease>>

Next ==
  \/ \E now \in Reading :
       \/ \E a \in Agent, scopes \in Scopes, ttl \in 1..Hour :
            Issue(a, scopes, ttl, now)
       \/ \E h \in Handle, t \in issued :
            \/ \E endpoint \in Endpoint, ttl \in 1..Hour :
                 Register(h, endpoint, t, ttl, now)
            \/ Lookup(h, t, now)
       \/ RegisterRefused(now)
  \/ Tick

Spec == Init /\ [][Next]_vars

-----------------------------------------------------------------------------
TypeOK ==
  /\ clock \in 0..MaxTime
  /\ issued \subseteq Capability
  /\ DOMAIN records \subseteq Handle
  /\ \A h \in DOMAIN records : records[h] \in Lease
  /\ lease \in [Handle -> Lease \cup {None}]
  /\ answer \in [handle : Handle, endpoint : Endpoint, at : 0..MaxTime] \cup {None}

\* The table, never larger than max_records, holds of every handle the
\* registration accepted last or, when that has expired, perhaps nothing: no
\* purge with an old reading, no refused call and no full table loses, shortens
\* or revives a live one.
LastRegistrationStands ==
  /\ Cardinality(DOMAIN records) <= MaxRecords
  /\ \A h \in Handle :
       IF h \in DOMAIN records
         THEN records[h] = lease[h]
         ELSE lease[h] # None => lease[h].expires <= clock

\* A lookup returns the endpoint registered last, under a lease that had not
\* run out when the call read the clock, to a holder of a capability of the
\* handle's owner that was good then.
AnswersAreCurrent ==
  answer # None =>
    LET l == lease[answer.handle]
    IN  /\ l # None
        /\ l.endpoint = answer.endpoint /\ l.expires > answer.at
        /\ \E t \in issued :
             t.subject = answer.handle /\ "lookup" \in t.scopes
             /\ answer.at < t.expires

\* No handle is registered without a capability its owner issued for it, nor
\* for longer than that lasts, nor for longer than the handle itself is valid.
RegistrationsAreGranted ==
  \A h \in DOMAIN records :
    /\ \E t \in issued : /\ t.subject = h /\ "register" \in t.scopes
                         /\ records[h].expires <= t.expires
    /\ Epoch(records[h].expires - 1) <= h[2] + 1

\* A capability that has not expired is never refused for its subject: the
\* current and the last handle suffice, whenever in the hour it was issued.
LiveCapabilityVerifies ==
  \A t \in issued : \A now \in t.at..(t.expires - 1) :
    t.subject \in ValidHandles(t.subject[1], now)
=============================================================================
