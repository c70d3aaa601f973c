---------------------------- MODULE EnvelopeOpen ----------------------------
(***************************************************************************)
(* Sealed envelopes opened by several workers of one recipient that share  *)
(* a replay cache (protocol.py: seal 346-362, open_envelope 365-400).      *)
(*                                                                         *)
(* open_envelope reads the clock once, checks the validity window with     *)
(* that value, verifies and decrypts outside any lock, and only then calls *)
(* replay.accept with the same value, stale by then.  Stall bounds how     *)
(* long a worker may take in between.  The channel loses, repeats, delays  *)
(* and reorders envelopes: they stay in sent for ever and a worker takes   *)
(* any of them.  Anyone can put an altered copy of an envelope there.      *)
(***************************************************************************)
EXTENDS ReplayCacheOps

CONSTANTS Opener,        \* workers of the recipient
          Message,       \* message_id values (uuid4: never drawn twice)
          Issue,         \* the issued_at values senders use
          Validity,      \* the ttl_seconds values senders use
          Skew,          \* clock_skew
          Stall,         \* longest time from reading the clock to accept
          MaxTime,       \* bound of the clock
          Restarts,      \* TRUE: the recipient may crash and restart
          HookFails,     \* TRUE: the caller's audit or metrics hook may raise
          MaxAltered     \* bound: altered copies on the channel

ASSUME EnvelopeAssumption ==
  /\ Issue \subseteq Int
  /\ Validity \subseteq Nat \ {0}
  /\ Skew \in Nat
  /\ Stall \in Nat
  /\ MaxTime \in Nat
  /\ Restarts \in BOOLEAN
  /\ HookFails \in BOOLEAN
  /\ MaxAltered \in Nat

VARIABLES clock,      \* int(time.time()) at the recipient
          sent,       \* every envelope ever put on the channel
          seen,       \* the replay cache
          job,        \* what each worker is doing
          accepts,    \* history: accept calls that answered True, per message
          delivered,  \* history: payloads returned to the caller, per message
          dropped     \* history: messages whose verified copy a worker let go:
                      \* the file was locked, a hook raised or the process died

vars == <<clock, sent, seen, job, accepts, delivered, dropped>>

Envelope == [id : Message, issued : Int, expires : Int, genuine : BOOLEAN]

Idle == [stage |-> "idle"]
Job == [stage : {"opening", "accepted"}, env : Envelope, at : Nat]

Init ==
  /\ clock = 0
  /\ sent = {}
  /\ seen = EmptyCache
  /\ job = [o \in Opener |-> Idle]
  /\ accepts = [m \in Message |-> 0]
  /\ delivered = [m \in Message |-> 0]
  /\ dropped = {}

Seal(m, issued, validity) ==
  /\ \A e \in sent : e.id # m
  /\ sent' = sent \cup {[id |-> m, issued |-> issued,
                         expires |-> issued + validity, genuine |-> TRUE]}
  /\ UNCHANGED <<clock, seen, job, accepts, delivered, dropped>>

Altered == {e \in sent : ~ e.genuine}

\* A copy whose header was altered: its signature no longer verifies.
Tamper(e, issued, validity) ==
  /\ Cardinality(Altered) < MaxAltered
  /\ sent' = sent \cup {[id |-> e.id, issued |-> issued,
                         expires |-> issued + validity, genuine |-> FALSE]}
  /\ UNCHANGED <<clock, seen, job, accepts, delivered, dropped>>

InWindow(e, now) == e.issued - Skew <= now /\ now <= e.expires + Skew

\* The clock is read, the window checked.  A refusal here changes nothing.
Begin(o, e) ==
  /\ job[o] = Idle
  /\ InWindow(e, clock)
  /\ job' = [job EXCEPT ![o] = [stage |-> "opening", env |-> e, at |-> clock]]
  /\ UNCHANGED <<clock, sent, seen, accepts, delivered, dropped>>

Opening(o) == job[o].stage = "opening"

Remembered(o) == job[o].env.id \in Kept(seen, job[o].at)

\* Mutated form of Verified: the signature is not looked at.
VerifiedAnything(o) == Opening(o)

\* The signature verifies and the ciphertext decrypts.
Verified(o) == Opening(o) /\ job[o].env.genuine

\* An exception leaves open_envelope before it reaches the cache: the
\* signature does not verify, or the SQLite file stays locked for too long.
GiveUp(o) ==
  /\ Opening(o)
  /\ ~ Verified(o) \/ Durable
  /\ job' = [job EXCEPT ![o] = Idle]
  /\ dropped' = IF Verified(o) THEN dropped \cup {job[o].env.id} ELSE dropped
  /\ UNCHANGED <<clock, sent, seen, accepts, delivered>>

\* accept answers False, or raises because the cache is full.
Refuse(o) ==
  /\ Verified(o)
  /\ Remembered(o) \/ Full(seen, job[o].at)
  /\ seen' = AfterRefusal(seen, job[o].at)
  /\ job' = [job EXCEPT ![o] = Idle]
  /\ UNCHANGED <<clock, sent, accepts, delivered, dropped>>

\* Mutated form of Accept: the tests and the insertion are not one step, so
\* another worker's insertion may fall in between and goes unnoticed.
AcceptUnchecked(o) ==
  /\ Verified(o)
  /\ seen' = AfterAccept(seen, job[o].env.id, job[o].at)
  /\ accepts' = [accepts EXCEPT ![job[o].env.id] = @ + 1]
  /\ job' = [job EXCEPT ![o].stage = "accepted"]
  /\ UNCHANGED <<clock, sent, delivered, dropped>>

Accept(o) ==
  /\ Verified(o)
  /\ ~ Remembered(o)
  /\ ~ Full(seen, job[o].at)
  /\ seen' = AfterAccept(seen, job[o].env.id, job[o].at)
  /\ accepts' = [accepts EXCEPT ![job[o].env.id] = @ + 1]
  /\ job' = [job EXCEPT ![o].stage = "accepted"]
  /\ UNCHANGED <<clock, sent, delivered, dropped>>

\* Mutated form of Return: the worker drops the payload it has accepted.
ReturnNothing(o) ==
  /\ job[o].stage = "accepted"
  /\ job' = [job EXCEPT ![o] = Idle]
  /\ UNCHANGED <<clock, sent, seen, accepts, delivered, dropped>>

Return(o) ==
  /\ job[o].stage = "accepted"
  /\ delivered' = [delivered EXCEPT ![job[o].env.id] = @ + 1]
  /\ job' = [job EXCEPT ![o] = Idle]
  /\ UNCHANGED <<clock, sent, seen, accepts, dropped>>

\* The hooks run between accept and the return: when one raises, the message
\* is remembered as opened and its payload is gone.
LoseAccepted(o) ==
  /\ HookFails
  /\ job[o].stage = "accepted"
  /\ job' = [job EXCEPT ![o] = Idle]
  /\ dropped' = dropped \cup {job[o].env.id}
  /\ UNCHANGED <<clock, sent, seen, accepts, delivered>>

\* Messages in the hands of a worker, with a signature that verifies.
InHand == {job[o].env.id : o \in {w \in Opener : job[w] # Idle /\ job[w].env.genuine}}

\* Mutated form of Restart: the cache does not survive whatever its kind.
RestartForgets ==
  /\ Restarts
  /\ job' = [o \in Opener |-> Idle]
  /\ seen' = EmptyCache
  /\ dropped' = dropped \cup InHand
  /\ UNCHANGED <<clock, sent, accepts, delivered>>

\* The recipient process dies and starts again; only the SQLite file stays.
Restart ==
  /\ Restarts
  /\ job' = [o \in Opener |-> Idle]
  /\ seen' = IF Durable THEN seen ELSE EmptyCache
  /\ dropped' = dropped \cup InHand
  /\ UNCHANGED <<clock, sent, accepts, delivered>>

Tick ==
  /\ clock < MaxTime
  /\ \A o \in Opener : Opening(o) => clock < job[o].at + Stall
  /\ clock' = clock + 1
  /\ UNCHANGED <<sent, seen, job, accepts, delivered, dropped>>

Next ==
  \/ \E m \in Message, i \in Issue, v \in Validity : Seal(m, i, v)
  \/ \E e \in sent, i \in Issue, v \in Validity : Tamper(e, i, v)
  \/ \E o \in Opener :
       \/ \E e \in sent : Begin(o, e)
       \/ GiveUp(o) \/ Refuse(o) \/ Accept(o) \/ Return(o) \/ LoseAccepted(o)
  \/ Restart
  \/ Tick

Spec == Init /\ [][Next]_vars

\* A worker thread that has begun runs on until open_envelope ends.
FairSpec ==
  /\ Spec
  /\ \A o \in Opener :
       WF_vars(GiveUp(o) \/ Refuse(o) \/ Accept(o) \/ Return(o))

\* What at-most-once rests on: the cache remembers for longer than the widest
\* window a worker can accept in, and does not die with the process.
RetentionCovers == \A v \in Validity : v + 2 * Skew + Stall <= Ttl
CacheSurvives == Durable \/ ~ Restarts

-----------------------------------------------------------------------------
TypeOK ==
  /\ clock \in 0..MaxTime
  /\ sent \subseteq Envelope
  /\ DOMAIN seen \subseteq Message
  /\ \A m \in DOMAIN seen : seen[m] \in 0..clock
  /\ Cardinality(DOMAIN seen) <= MaxEntries
  /\ job \in [Opener -> Job \cup {Idle}]
  /\ accepts \in [Message -> Nat]
  /\ delivered \in [Message -> Nat]
  /\ dropped \subseteq Message

\* No message is accepted twice, however often it is repeated, by however
\* many workers and across restarts of a durable recipient.
Once == INSTANCE AtMostOnce WITH Item <- Message, taken <- accepts
ImplementsAtMostOnce == Once!Spec

\* No payload is handed to the caller twice, and none is handed over that is
\* still on its way from another worker.
DeliveredAtMostOnce ==
  \A m \in Message :
    /\ delivered[m] <= 1
    /\ \A o \in Opener :
         job[o].stage = "accepted" /\ job[o].env.id = m => delivered[m] = 0

\* What the cache has forgotten can no longer be opened: an accepted message
\* is still remembered, with a stamp no earlier than its window allowed, or no
\* worker can hold it any more, not even one that read the clock long ago.
ForgottenIsDead ==
  \A e \in sent :
    e.genuine /\ accepts[e.id] > 0 =>
      \/ e.id \in DOMAIN seen /\ seen[e.id] >= e.issued - Skew
      \/ clock > e.expires + Skew + Stall

\* An altered copy burns nothing: each remembered identifier is that of a
\* genuine envelope that was accepted inside its own window.
OnlyGenuineRemembered ==
  \A m \in DOMAIN seen :
    /\ accepts[m] > 0
    /\ \E e \in sent : e.id = m /\ e.genuine /\ InWindow(e, seen[m])

\* A genuine envelope that some worker started to open inside its window is
\* delivered, by that worker or by one that overtook it, unless the cache is
\* full of others or some worker let a copy of it go for a reason of its own:
\* neither an altered copy nor a replay refusal can make it disappear.
OpenedIsDelivered ==
  \A m \in Message :
    (\E o \in Opener : Verified(o) /\ job[o].env.id = m)
      ~> \/ delivered[m] = 1
         \/ m \in dropped
         \/ m \notin DOMAIN seen /\ Cardinality(DOMAIN seen) = MaxEntries

\* test_roundtrip_and_replay (tests/test_protocol.py:7-10): a second open of
\* an envelope with the same cache is refused as a replay.
SecondOpenIsRefused == \A m \in Message : accepts[m] <= 1
=============================================================================
