---------------------------- MODULE SecureSession ----------------------------
(***************************************************************************)
(* Two SessionInitiator objects, one per endpoint                          *)
(* (src/src/pqc_a2a/secure_channel.py:91-243), over a channel that loses,  *)
(* repeats, delays and reorders: what was sent stays in hellos, acks and   *)
(* records for ever.  Every method holds the object's lock, so each is one *)
(* action.  Restart replaces an object by a new one: a crash, or the way   *)
(* the documentation asks for a rekey.                                     *)
(*                                                                         *)
(* Random values (session identifiers, ephemeral keys, encapsulated        *)
(* secrets) are draws <<endpoint, number>>, never drawn twice.  The salt   *)
(* and the first ephemeral key of an object are drawn with its session     *)
(* identifier.  A key is the tuple it is derived from; two ends have the   *)
(* same key exactly when they derive it from the same tuple.               *)
(***************************************************************************)
EXTENDS WindowOps, FiniteSets

CONSTANTS Endpoint,      \* the two agents
          Initiator,     \* endpoints that call hello
          Restarter,     \* endpoints whose object may be replaced
          Epochs,        \* handle_epoch values of new objects
          Age,           \* max_age_seconds + clock_skew
          Forgeries,     \* sequence numbers written into altered records
          MaxObjects,    \* bound: objects per restarting endpoint
          MaxHellos,     \* bound: hello calls per object
          MaxSends,      \* bound: encrypt calls of each endpoint
          MaxTime,       \* bound of the clock
          None

ASSUME SessionAssumption ==
  /\ Initiator \subseteq Endpoint /\ Restarter \subseteq Endpoint
  /\ \E a, b \in Endpoint : a # b /\ Endpoint = {a, b}
  /\ Age \in Nat /\ Forgeries \subseteq Int
  /\ {MaxObjects, MaxHellos, MaxTime} \subseteq Nat
  /\ MaxSends \in [Endpoint -> Nat]

VARIABLES clock,     \* int(time.time()), the same at both ends
          draws,     \* how many random values each endpoint has drawn
          objects,   \* how many session objects each endpoint has built
          ses,       \* the session object of each endpoint
          hellos, acks, records,   \* everything ever sent, by kind
          sends,     \* history: encrypt calls per endpoint
          opened     \* history: how often each body was returned by decrypt

vars == <<clock, draws, objects, ses, hellos, acks, records, sends, opened>>

Peer(e) == CHOOSE p \in Endpoint : p # e

Body == UNION {{e} \X (1..MaxSends[e]) : e \in Endpoint}

\* __init__: the draw is the session identifier, the salt and the first
\* ephemeral key; count is how often hello was called (bounds the model).
NewObject(draw, epoch) ==
  [sid |-> draw, eph |-> draw, salt |-> draw, epoch |-> epoch,
   hello |-> None, pqc |-> None, key |-> None, role |-> "initiator",
   send |-> 0, win |-> EmptyWindow, answered |-> {}, count |-> 0]

Init ==
  /\ clock = 0
  /\ draws = [e \in Endpoint |-> 1]
  /\ objects = [e \in Endpoint |-> 1]
  /\ \E epoch \in [Endpoint -> Epochs] :
       ses = [e \in Endpoint |-> NewObject(<<e, 0>>, epoch[e])]
  /\ hellos = {} /\ acks = {} /\ records = {}
  /\ sends = [e \in Endpoint |-> 0]
  /\ opened = [b \in Body |-> 0]

\* Mutated form of Fresh: the age limit is exclusive.
FreshStrictly(issued) == clock - issued < Age

Fresh(issued) == clock - issued <= Age

\* hello: a new encapsulated secret for the peer; the object remembers this
\* hello and this secret and forgets those of an earlier call.
Hello(e) ==
  /\ e \in Initiator
  /\ ses[e].count < MaxHellos
  /\ LET s == ses[e]
         draw == <<e, draws[e]>>
         h == [from |-> e, sid |-> s.sid, epoch |-> s.epoch, eph |-> s.eph,
               kem |-> draw, salt |-> s.salt, issued |-> clock]
     IN  /\ hellos' = hellos \cup {h}
         /\ ses' = [ses EXCEPT ![e].hello = h, ![e].pqc = draw,
                               ![e].count = @ + 1]
  /\ draws' = [draws EXCEPT ![e] = @ + 1]
  /\ UNCHANGED <<clock, objects, acks, records, sends, opened>>

\* The checks of respond: binding to the own handle, one answer per session
\* identifier, freshness, the peer's signature.
Answerable(e, h) ==
  /\ h.from = Peer(e)
  /\ h.epoch = ses[e].epoch
  /\ h.sid \notin ses[e].answered
  /\ Fresh(h.issued)

\* Mutated form of Respond: the receive window of the last session stays.
RespondKeepsWindow(e, h) ==
  /\ Answerable(e, h)
  /\ LET s == ses[e]
         draw == <<e, draws[e]>>
         a == [from |-> e, sid |-> h.sid, epoch |-> s.epoch, eph |-> draw,
               salt |-> h.salt, issued |-> clock]
     IN  /\ acks' = acks \cup {a}
         /\ ses' = [ses EXCEPT ![e] =
              [s EXCEPT !.sid = h.sid, !.eph = draw, !.salt = h.salt,
                        !.role = "responder", !.send = 0,
                        !.answered = @ \cup {h.sid},
                        !.key = [hello |-> h, ack |-> a, pqc |-> h.kem,
                                 x |-> {h.eph, draw}]]]
  /\ draws' = [draws EXCEPT ![e] = @ + 1]
  /\ UNCHANGED <<clock, objects, hellos, records, sends, opened>>

\* respond: the object becomes the responder of the hello's session, whatever
\* it was before, with a new key, a new window and sequence numbers from 0.
Respond(e, h) ==
  /\ Answerable(e, h)
  /\ LET s == ses[e]
         draw == <<e, draws[e]>>
         a == [from |-> e, sid |-> h.sid, epoch |-> s.epoch, eph |-> draw,
               salt |-> h.salt, issued |-> clock]
     IN  /\ acks' = acks \cup {a}
         /\ ses' = [ses EXCEPT ![e] =
              [s EXCEPT !.sid = h.sid, !.eph = draw, !.salt = h.salt,
                        !.role = "responder", !.send = 0,
                        !.win = EmptyWindow,
                        !.answered = @ \cup {h.sid},
                        !.key = [hello |-> h, ack |-> a, pqc |-> h.kem,
                                 x |-> {h.eph, draw}]]]
  /\ draws' = [draws EXCEPT ![e] = @ + 1]
  /\ UNCHANGED <<clock, objects, hellos, records, sends, opened>>

\* Mutated form of Bound: the acknowledgement of an older session passes.
BoundLoosely(e, a) ==
  /\ ses[e].hello # None
  /\ a.from = Peer(e) /\ a.epoch = ses[e].epoch
  /\ Fresh(a.issued) /\ Fresh(ses[e].hello.issued)

\* The checks of accept_ack: binding to the session, freshness of both
\* messages, the peer's signature.  Which hello was answered is not among them.
Bound(e, a) ==
  /\ ses[e].hello # None
  /\ a.from = Peer(e) /\ a.epoch = ses[e].epoch
  /\ a.sid = ses[e].sid /\ a.salt = ses[e].hello.salt
  /\ Fresh(a.issued) /\ Fresh(ses[e].hello.issued)

\* accept_ack: a new key from the remembered hello and secret; role, window
\* and sequence number stay as they are.
AcceptAck(e, a) ==
  /\ Bound(e, a)
  /\ ses' = [ses EXCEPT ![e].key = [hello |-> ses[e].hello, ack |-> a,
                                    pqc |-> ses[e].pqc,
                                    x |-> {ses[e].eph, a.eph}]]
  /\ UNCHANGED <<clock, draws, objects, hellos, acks, records, sends, opened>>

\* The direction label of what an object sends and of what it takes: it picks
\* the directional key and is authenticated with every record.
Outward(role) == IF role = "responder" THEN "r2i" ELSE "i2r"
Inward(role) == IF role = "responder" THEN "i2r" ELSE "r2i"

\* Mutated form of CanSend: the sequence number is never exhausted.
CanAlwaysSend(e) == ses[e].key # None /\ sends[e] < MaxSends[e]

CanSend(e) ==
  /\ ses[e].key # None
  /\ ses[e].send <= MaxSequence
  /\ sends[e] < MaxSends[e]

\* Mutated form of Encrypt: the sequence number is not consumed.
EncryptKeepsSequence(e) ==
  /\ CanSend(e)
  /\ LET s == ses[e]
     IN  records' = records \cup
           {[to |-> Peer(e), epoch |-> s.epoch, sid |-> s.sid, seq |-> s.send,
             salt |-> s.salt, key |-> s.key, dir |-> Outward(s.role),
             body |-> <<e, sends[e] + 1>>, intact |-> TRUE]}
  /\ sends' = [sends EXCEPT ![e] = @ + 1]
  /\ UNCHANGED <<clock, draws, objects, ses, hellos, acks, opened>>

\* encrypt: the nonce is the salt and the sequence number.  Its last check, of
\* the finished record's size, cannot fail: payload and padding were bounded.
Encrypt(e) ==
  /\ CanSend(e)
  /\ LET s == ses[e]
     IN  records' = records \cup
           {[to |-> Peer(e), epoch |-> s.epoch, sid |-> s.sid, seq |-> s.send,
             salt |-> s.salt, key |-> s.key, dir |-> Outward(s.role),
             body |-> <<e, sends[e] + 1>>, intact |-> TRUE]}
  /\ ses' = [ses EXCEPT ![e].send = @ + 1]
  /\ sends' = [sends EXCEPT ![e] = @ + 1]
  /\ UNCHANGED <<clock, draws, objects, hellos, acks, opened>>

\* A record on the channel gets another sequence number, and the nonce to
\* match: it no longer authenticates.
Forge(r, seq) ==
  /\ records' = records \cup {[r EXCEPT !.seq = seq, !.intact = FALSE]}
  /\ UNCHANGED <<clock, draws, objects, ses, hellos, acks, sends, opened>>

\* AES-GCM opens the record under this end's receive key with the header as
\* associated data.
Authentic(e, r) ==
  /\ r.intact
  /\ r.salt = ses[e].salt
  /\ r.key = ses[e].key
  /\ r.dir = Inward(ses[e].role)

\* Mutated form of Addressed: the window is not asked.
AddressedAgain(e, r) ==
  /\ ses[e].key # None
  /\ r.to = e /\ r.sid = ses[e].sid /\ r.epoch = ses[e].epoch

\* The checks of decrypt before it decrypts.
Addressed(e, r) ==
  /\ ses[e].key # None
  /\ r.to = e /\ r.sid = ses[e].sid /\ r.epoch = ses[e].epoch
  /\ CanAccept(ses[e].win, r.seq)

\* decrypt: only an authentic record moves the window.
Decrypt(e, r) ==
  /\ Addressed(e, r)
  /\ Authentic(e, r)
  /\ ses' = [ses EXCEPT ![e].win = Advance(@, r.seq)]
  /\ opened' = [opened EXCEPT ![r.body] = @ + 1]
  /\ UNCHANGED <<clock, draws, objects, hellos, acks, records, sends>>

Restart(e, epoch) ==
  /\ e \in Restarter
  /\ objects[e] < MaxObjects
  /\ ses' = [ses EXCEPT ![e] = NewObject(<<e, draws[e]>>, epoch)]
  /\ draws' = [draws EXCEPT ![e] = @ + 1]
  /\ objects' = [objects EXCEPT ![e] = @ + 1]
  /\ UNCHANGED <<clock, hellos, acks, records, sends, opened>>

Tick ==
  /\ clock < MaxTime
  /\ clock' = clock + 1
  /\ UNCHANGED <<draws, objects, ses, hellos, acks, records, sends, opened>>

Next ==
  \/ \E e \in Endpoint :
       \/ Hello(e)
       \/ \E h \in hellos : Respond(e, h)
       \/ \E a \in acks : AcceptAck(e, a)
       \/ Encrypt(e)
       \/ \E r \in records : Decrypt(e, r)
       \/ \E epoch \in Epochs : Restart(e, epoch)
  \/ \E r \in records, seq \in Forgeries : Forge(r, seq)
  \/ Tick

Spec == Init /\ [][Next]_vars

\* The channel delivers in the end what both ends can still take.
FairSpec ==
  /\ Spec
  /\ \A e \in Endpoint : /\ WF_vars(\E h \in hellos : Respond(e, h))
                         /\ WF_vars(\E a \in acks : AcceptAck(e, a))

-----------------------------------------------------------------------------
Draw == Endpoint \X Nat
HelloMessage == [from : Endpoint, sid : Draw, epoch : Epochs, eph : Draw,
                 kem : Draw, salt : Draw, issued : Nat]
AckMessage == [from : Endpoint, sid : Draw, epoch : Epochs, eph : Draw,
               salt : Draw, issued : Nat]
Key == [hello : HelloMessage, ack : AckMessage, pqc : Draw, x : SUBSET Draw]
Record == [to : Endpoint, epoch : Epochs, sid : Draw, seq : Int, salt : Draw, key : Key,
           dir : {"i2r", "r2i"}, body : Body, intact : BOOLEAN]
Object == [sid : Draw, eph : Draw, salt : Draw, epoch : Epochs,
           hello : HelloMessage \cup {None}, pqc : Draw \cup {None},
           key : Key \cup {None}, role : {"initiator", "responder"},
           send : 0..(MaxSequence + 1), win : WindowType, answered : SUBSET Draw,
           count : 0..MaxHellos]

TypeOK ==
  /\ clock \in 0..MaxTime
  /\ draws \in [Endpoint -> Nat] /\ objects \in [Endpoint -> Nat]
  /\ ses \in [Endpoint -> Object]
  /\ \A e \in Endpoint : Cardinality(ses[e].win.seen) <= Window
  /\ hellos \subseteq HelloMessage /\ acks \subseteq AckMessage
  /\ records \subseteq Record
  /\ DOMAIN sends = Endpoint /\ \A e \in Endpoint : sends[e] \in 0..MaxSends[e]
  /\ opened \in [Body -> Nat]

\* No two records are ever encrypted under one directional key with one
\* nonce, by either end and in any generation of the session.
NonceNeverReused ==
  \A r, q \in records :
    /\ r.intact /\ q.intact
    /\ r.key = q.key /\ r.dir = q.dir /\ r.salt = q.salt /\ r.seq = q.seq
    => r = q

\* Ends established in one session hold one key and opposite roles.
SameSessionSameKey ==
  \A e \in Endpoint :
    LET s == ses[e]
        t == ses[Peer(e)]
    IN  s.key # None /\ t.key # None /\ s.sid = t.sid =>
          s.key = t.key /\ s.salt = t.salt /\ s.role # t.role

\* Ends that share a key: the receiver takes the number the sender will use
\* next, whatever was lost, repeated, reordered or forged before.
NextRecordAcceptable ==
  \A e \in Endpoint :
    LET s == ses[e]
        t == ses[Peer(e)]
    IN  s.key # None /\ s.key = t.key /\ s.send <= MaxSequence =>
          CanAccept(t.win, s.send)

\* No body is returned twice, by this object or by one that replaced it.
Once == INSTANCE AtMostOnce WITH Item <- Body, taken <- opened
ImplementsAtMostOnce == Once!Spec

\* A hello leads to one key at both ends unless it or its answer grows too
\* old on the way, the objects are of different epochs, the object that sent
\* it is replaced, or its peer goes on to answer an earlier object's hello.
HandshakeCompletes ==
  \A e \in Initiator :
    ses[e].hello # None
      ~> \/ ses[e].key # None /\ ses[e].key = ses[Peer(e)].key
         \/ ses[e].hello = None
         \/ clock > ses[e].hello.issued + Age
         \/ ses[e].epoch # ses[Peer(e)].epoch
         \/ LET t == ses[Peer(e)] IN ses[e].sid \in t.answered /\ t.sid # ses[e].sid
=============================================================================
