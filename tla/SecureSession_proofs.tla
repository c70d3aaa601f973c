------------------------ MODULE SecureSession_proofs ------------------------
(***************************************************************************)
(* What is proved of the replay window, for any size, any MAX_SEQUENCE and *)
(* any arguments, and of the sessions that keep one each, for any bounds,  *)
(* any window, any age and any number of restarts, hellos, records and     *)
(* repetitions on the channel.                                             *)
(***************************************************************************)
EXTENDS SecureSession, ReplayWindow, FiniteSetTheorems, TLAPS

\* Only one of the two agents initiates, as in the repository's examples: if
\* both do, MCSessionBothHello shows what goes wrong.
OneInitiates == \A e \in Initiator : Peer(e) \notin Initiator

\* There are two endpoints, each the other's peer.
LEMMA Peers ==
  ASSUME NEW e \in Endpoint
  PROVE  /\ Peer(e) \in Endpoint /\ Peer(e) # e /\ Peer(Peer(e)) = e
         /\ Endpoint = {e, Peer(e)}
<1>1. PICK a, b \in Endpoint : a # b /\ Endpoint = {a, b}
  BY SessionAssumption
<1>2. Peer(a) = b /\ Peer(b) = a
  BY <1>1 DEF Peer
<1> QED
  BY <1>1, <1>2

\* What a window remembers lies inside it.
WindowsFit ==
  \A e \in Endpoint :
    ses[e].win.seen \subseteq (ses[e].win.highest - Window + 1)..ses[e].win.highest


\* Whoever sent a hello holds the secret it encapsulated.
HellosHaveSecrets ==
  \A e \in Endpoint : ses[e].hello # None => ses[e].pqc \in Draw

Typed == TypeOK /\ WindowsFit /\ HellosHaveSecrets

-----------------------------------------------------------------------------
(***************************************************************************)
(* Each action as what it does to the fields of the objects.               *)
(***************************************************************************)
Same(e) == \A f \in Endpoint \ {e} : ses'[f] = ses[f]

\* A new object has drawn its identifiers, and has no key.
LEMMA NewObjectType ==
  ASSUME NEW d \in Draw, NEW epoch \in Epochs
  PROVE  LET n == NewObject(d, epoch)
         IN  /\ n \in Object
             /\ n.sid = d /\ n.eph = d /\ n.salt = d
             /\ n.hello = None /\ n.pqc = None /\ n.key = None
             /\ n.role = "initiator" /\ n.send = 0
             /\ n.win = EmptyWindow /\ n.answered = {} /\ n.count = 0
<1>1. /\ EmptyWindow \in WindowType /\ 0 \in 0..(MaxSequence + 1) /\ 0 \in 0..MaxHellos
      /\ {} \in SUBSET Draw
  BY MaxSequenceAssumption, SessionAssumption DEF EmptyWindow, WindowType
<1> QED
  BY <1>1 DEF NewObject, Object

\* hello draws a secret and sends it, and changes nothing else of the object.
LEMMA HelloDoes ==
  ASSUME TypeOK, NEW e \in Endpoint, Hello(e)
  PROVE  \E h \in HelloMessage, d \in Draw :
           /\ e \in Initiator /\ ses[e].count < MaxHellos
           /\ d = <<e, draws[e]>>
           /\ h.from = e /\ h.sid = ses[e].sid /\ h.eph = ses[e].eph
           /\ h.salt = ses[e].salt /\ h.kem = d
           /\ hellos' = hellos \cup {h}
           /\ draws' = [draws EXCEPT ![e] = @ + 1]
           /\ ses' \in [Endpoint -> Object] /\ Same(e)
           /\ ses'[e].hello = h /\ ses'[e].pqc = d
           /\ ses'[e].count = ses[e].count + 1
           /\ ses'[e].sid = ses[e].sid /\ ses'[e].eph = ses[e].eph
           /\ ses'[e].salt = ses[e].salt /\ ses'[e].key = ses[e].key
           /\ ses'[e].role = ses[e].role /\ ses'[e].send = ses[e].send
           /\ ses'[e].win = ses[e].win /\ ses'[e].answered = ses[e].answered
           /\ UNCHANGED <<clock, objects, acks, records, sends, opened>>
<1> DEFINE c == ses[e].count + 1
           d == <<e, draws[e]>>
           h == [from |-> e, sid |-> ses[e].sid, epoch |-> ses[e].epoch,
                 eph |-> ses[e].eph, kem |-> d, salt |-> ses[e].salt, issued |-> clock]
           n == [ses[e] EXCEPT !.hello = h, !.pqc = d, !.count = c]
<1>1. ses[e] \in Object /\ draws[e] \in Nat /\ clock \in Nat /\ d \in Draw
  BY SessionAssumption DEF TypeOK, Draw
<1>2. h \in HelloMessage
  BY <1>1 DEF HelloMessage, Object
<1>3. /\ e \in Initiator /\ ses[e].count < MaxHellos
      /\ hellos' = hellos \cup {h}
      /\ ses' = [ses EXCEPT ![e] = n]
      /\ draws' = [draws EXCEPT ![e] = @ + 1]
      /\ UNCHANGED <<clock, objects, acks, records, sends, opened>>
  BY DEF Hello
<1>0. c \in 0..MaxHellos /\ d \in Draw \cup {None} /\ h \in HelloMessage \cup {None}
  BY <1>1, <1>2, <1>3, SessionAssumption DEF Object
<1> HIDE DEF h, d, c
<1>4. /\ n \in Object
      /\ n.hello = h /\ n.pqc = d /\ n.count = c
      /\ n.sid = ses[e].sid /\ n.eph = ses[e].eph
      /\ n.salt = ses[e].salt /\ n.key = ses[e].key
      /\ n.role = ses[e].role /\ n.send = ses[e].send
      /\ n.win = ses[e].win /\ n.answered = ses[e].answered
  BY <1>0, <1>1 DEF Object
<1> HIDE DEF n
<1>5. ses' \in [Endpoint -> Object] /\ Same(e) /\ ses'[e] = n
  BY <1>3, <1>4 DEF TypeOK, Same
<1>6. /\ h.from = e /\ h.sid = ses[e].sid /\ h.eph = ses[e].eph
      /\ h.salt = ses[e].salt /\ h.kem = d
  BY DEF h
<1> QED
  BY <1>1, <1>2, <1>3, <1>4, <1>5, <1>6 DEF d, c

\* respond takes the session over from the hello and starts its numbers afresh.
LEMMA RespondDoes ==
  ASSUME TypeOK, NEW e \in Endpoint, NEW h \in hellos, Respond(e, h)
  PROVE  \E a \in AckMessage, k \in Key :
           /\ h \in HelloMessage /\ h.from = Peer(e) /\ h.sid \notin ses[e].answered
           /\ a.from = e /\ a.sid = h.sid /\ a.eph = <<e, draws[e]>>
           /\ k = [hello |-> h, ack |-> a, pqc |-> h.kem, x |-> {h.eph, a.eph}]
           /\ k.hello = h /\ k.ack = a
           /\ acks' = acks \cup {a}
           /\ draws' = [draws EXCEPT ![e] = @ + 1]
           /\ ses' \in [Endpoint -> Object] /\ Same(e)
           /\ ses'[e].sid = h.sid /\ ses'[e].eph = a.eph /\ ses'[e].salt = h.salt
           /\ ses'[e].key = k /\ ses'[e].role = "responder" /\ ses'[e].send = 0
           /\ ses'[e].win = EmptyWindow
           /\ ses'[e].answered = ses[e].answered \cup {h.sid}
           /\ ses'[e].hello = ses[e].hello /\ ses'[e].pqc = ses[e].pqc
           /\ ses'[e].count = ses[e].count
           /\ UNCHANGED <<clock, objects, hellos, records, sends, opened>>
<1> DEFINE s == ses[e]
           d == <<e, draws[e]>>
           a == [from |-> e, sid |-> h.sid, epoch |-> s.epoch, eph |-> d,
                 salt |-> h.salt, issued |-> clock]
           k == [hello |-> h, ack |-> a, pqc |-> h.kem, x |-> {h.eph, d}]
           ans == s.answered \cup {h.sid}
           n == [s EXCEPT !.sid = h.sid, !.eph = d, !.salt = h.salt,
                          !.role = "responder", !.send = 0, !.win = EmptyWindow,
                          !.answered = ans, !.key = k]
<1>1. /\ s \in Object /\ draws[e] \in Nat /\ clock \in Nat /\ d \in Draw
      /\ h \in HelloMessage
  BY SessionAssumption DEF TypeOK, Draw
<1>2. /\ h.sid \in Draw /\ h.eph \in Draw /\ h.kem \in Draw /\ h.salt \in Draw
      /\ s.epoch \in Epochs /\ s.answered \in SUBSET Draw
  BY <1>1 DEF HelloMessage, Object
<1>3. /\ Answerable(e, h)
      /\ acks' = acks \cup {a}
      /\ ses' = [ses EXCEPT ![e] = n]
      /\ draws' = [draws EXCEPT ![e] = @ + 1]
      /\ UNCHANGED <<clock, objects, hellos, records, sends, opened>>
  BY DEF Respond
<1> HIDE DEF s, d
<1>4. a \in AckMessage
  BY <1>1, <1>2 DEF AckMessage
<1>5. a.from = e /\ a.sid = h.sid /\ a.eph = d
  OBVIOUS
<1> HIDE DEF a
<1>6. k \in Key /\ k.hello = h /\ k.ack = a
  BY <1>1, <1>2, <1>4 DEF Key
<1>7. k = [hello |-> h, ack |-> a, pqc |-> h.kem, x |-> {h.eph, a.eph}]
  BY <1>5
<1> HIDE DEF k
<1>8. /\ ans \in SUBSET Draw /\ EmptyWindow \in WindowType
      /\ k \in Key \cup {None} /\ 0 \in 0..(MaxSequence + 1)
  BY <1>2, <1>6, MaxSequenceAssumption DEF EmptyWindow, WindowType
<1> HIDE DEF ans
<1>9. /\ n \in Object
      /\ n.sid = h.sid /\ n.eph = d /\ n.salt = h.salt
      /\ n.key = k /\ n.role = "responder" /\ n.send = 0
      /\ n.win = EmptyWindow /\ n.answered = ans
      /\ n.hello = s.hello /\ n.pqc = s.pqc /\ n.count = s.count
  BY <1>1, <1>2, <1>8 DEF Object
<1> HIDE DEF n
<1>10. ses' \in [Endpoint -> Object] /\ Same(e) /\ ses'[e] = n
  BY <1>3, <1>9 DEF TypeOK, Same
<1>11. h.from = Peer(e) /\ h.sid \notin s.answered
  BY <1>3 DEF Answerable, s
<1> QED
  BY <1>1, <1>3, <1>4, <1>5, <1>6, <1>7, <1>9, <1>10, <1>11 DEF s, d, ans

\* accept_ack derives the key and leaves number and window as they are.
LEMMA AcceptAckDoes ==
  ASSUME Typed, NEW e \in Endpoint, NEW a \in acks, AcceptAck(e, a)
  PROVE  \E k \in Key :
           /\ ses[e].hello # None /\ a.from = Peer(e) /\ a.sid = ses[e].sid
           /\ k = [hello |-> ses[e].hello, ack |-> a, pqc |-> ses[e].pqc,
                   x |-> {ses[e].eph, a.eph}]
           /\ k.hello = ses[e].hello /\ k.ack = a
           /\ ses' \in [Endpoint -> Object] /\ Same(e)
           /\ ses'[e].key = k
           /\ ses'[e].sid = ses[e].sid /\ ses'[e].eph = ses[e].eph
           /\ ses'[e].salt = ses[e].salt /\ ses'[e].hello = ses[e].hello
           /\ ses'[e].pqc = ses[e].pqc /\ ses'[e].count = ses[e].count
           /\ ses'[e].role = ses[e].role /\ ses'[e].send = ses[e].send
           /\ ses'[e].win = ses[e].win /\ ses'[e].answered = ses[e].answered
           /\ UNCHANGED <<clock, draws, objects, hellos, acks, records, sends, opened>>
<1> DEFINE s == ses[e]
           k == [hello |-> s.hello, ack |-> a, pqc |-> s.pqc, x |-> {s.eph, a.eph}]
           n == [s EXCEPT !.key = k]
<1>1. s \in Object /\ a \in AckMessage
  BY DEF Typed, TypeOK
<1>2. /\ Bound(e, a)
      /\ ses' = [ses EXCEPT ![e] = n]
      /\ UNCHANGED <<clock, draws, objects, hellos, acks, records, sends, opened>>
  BY DEF AcceptAck
<1>3. /\ s.hello # None /\ a.from = Peer(e) /\ a.sid = s.sid
      /\ s.pqc \in Draw
  BY <1>2 DEF Bound, Typed, HellosHaveSecrets
<1> HIDE DEF s
<1>4. s.hello \in HelloMessage /\ s.eph \in Draw /\ a.eph \in Draw
  BY <1>1, <1>3 DEF Object, AckMessage
<1>5. k \in Key /\ k.hello = s.hello /\ k.ack = a
  BY <1>1, <1>3, <1>4 DEF Key
<1>6. k = [hello |-> s.hello, ack |-> a, pqc |-> s.pqc, x |-> {s.eph, a.eph}]
  OBVIOUS
<1> HIDE DEF k
<1>7. /\ n \in Object
      /\ n.key = k
      /\ n.sid = s.sid /\ n.eph = s.eph /\ n.salt = s.salt /\ n.hello = s.hello
      /\ n.pqc = s.pqc /\ n.count = s.count /\ n.role = s.role
      /\ n.send = s.send /\ n.win = s.win /\ n.answered = s.answered
  BY <1>1, <1>5 DEF Object
<1> HIDE DEF n
<1>8. ses' \in [Endpoint -> Object] /\ Same(e) /\ ses'[e] = n
  BY <1>2, <1>7 DEF Typed, TypeOK, Same
<1> QED
  BY <1>2, <1>3, <1>5, <1>6, <1>7, <1>8 DEF s

\* encrypt, whether or not its record leaves the object.
Consumes(e) ==
  /\ ses[e].key # None /\ ses[e].send <= MaxSequence /\ sends[e] < MaxSends[e]
  /\ ses' \in [Endpoint -> Object] /\ Same(e)
  /\ ses'[e].send = ses[e].send + 1
  /\ ses'[e].key = ses[e].key
  /\ ses'[e].sid = ses[e].sid /\ ses'[e].eph = ses[e].eph
  /\ ses'[e].salt = ses[e].salt /\ ses'[e].hello = ses[e].hello
  /\ ses'[e].pqc = ses[e].pqc /\ ses'[e].count = ses[e].count
  /\ ses'[e].role = ses[e].role
  /\ ses'[e].win = ses[e].win /\ ses'[e].answered = ses[e].answered
  /\ sends' = [sends EXCEPT ![e] = @ + 1]
  /\ UNCHANGED <<clock, draws, objects, hellos, acks, opened>>

\* encrypt uses a number up.
LEMMA EncryptConsumes ==
  ASSUME TypeOK, NEW e \in Endpoint, Encrypt(e)
  PROVE  Consumes(e)
<1> DEFINE s == ses[e]
           m == s.send + 1
           n == [s EXCEPT !.send = m]
<1>1. s \in Object
  BY DEF TypeOK
<1>2. /\ CanSend(e)
      /\ ses' = [ses EXCEPT ![e] = n]
      /\ sends' = [sends EXCEPT ![e] = @ + 1]
      /\ UNCHANGED <<clock, draws, objects, hellos, acks, opened>>
  BY DEF Encrypt
<1>3. s.key # None /\ s.send <= MaxSequence /\ sends[e] < MaxSends[e]
  BY <1>2 DEF CanSend
<1> HIDE DEF s
<1>4. m \in 0..(MaxSequence + 1)
  BY <1>1, <1>3, MaxSequenceAssumption DEF Object
<1> HIDE DEF m
<1>5. /\ n \in Object
      /\ n.send = m
      /\ n.sid = s.sid /\ n.eph = s.eph /\ n.salt = s.salt /\ n.hello = s.hello
      /\ n.pqc = s.pqc /\ n.count = s.count /\ n.role = s.role
      /\ n.key = s.key /\ n.win = s.win /\ n.answered = s.answered
  BY <1>1, <1>4 DEF Object
<1> HIDE DEF n
<1>6. ses' \in [Endpoint -> Object] /\ Same(e) /\ ses'[e] = n
  BY <1>2, <1>5 DEF TypeOK, Same
<1> QED
  BY <1>2, <1>3, <1>5, <1>6 DEF s, m, Consumes

\* encrypt puts a record with that number on the channel.
LEMMA EncryptDoes ==
  ASSUME TypeOK, NEW e \in Endpoint, Encrypt(e)
  PROVE  \E r \in Record :
           /\ r.to = Peer(e) /\ r.seq = ses[e].send /\ r.key = ses[e].key
           /\ r.salt = ses[e].salt
           /\ r.dir = Outward(ses[e].role) /\ r.body = <<e, sends[e] + 1>> /\ r.intact
           /\ records' = records \cup {r}
<1> DEFINE s == ses[e]
           b == <<e, sends[e] + 1>>
           r == [to |-> Peer(e), epoch |-> s.epoch, sid |-> s.sid, seq |-> s.send,
                 salt |-> s.salt, key |-> s.key, dir |-> Outward(s.role),
                 body |-> b, intact |-> TRUE]
<1>1. s \in Object
  BY DEF TypeOK
<1>2. records' = records \cup {r} /\ CanSend(e)
  BY DEF Encrypt
<1>3. b \in Body
  <2>1. sends[e] + 1 \in 1..MaxSends[e]
    BY <1>2, SessionAssumption DEF TypeOK, CanSend
  <2> QED
    BY <2>1 DEF Body
<1>4. s.key \in Key /\ s.sid \in Draw /\ s.salt \in Draw /\ s.epoch \in Epochs /\ s.send \in Int
  BY <1>1, <1>2, MaxSequenceAssumption DEF Object, CanSend
<1>5. Outward(s.role) \in {"i2r", "r2i"} /\ Peer(e) \in Endpoint
  BY Peers DEF Outward
<1> HIDE DEF s, b
<1>6. r \in Record
  BY <1>3, <1>4, <1>5 DEF Record
<1> QED
  BY <1>2, <1>6 DEF s, b

\* decrypt takes an intact record of its key whose number the window accepts.
LEMMA DecryptDoes ==
  ASSUME TypeOK, NEW e \in Endpoint, NEW r \in records, Decrypt(e, r)
  PROVE  /\ r \in Record /\ ses[e].key # None /\ r.to = e
         /\ CanAccept(ses[e].win, r.seq)
         /\ r.intact /\ r.key = ses[e].key /\ r.dir = Inward(ses[e].role)
         /\ opened' = [opened EXCEPT ![r.body] = @ + 1]
         /\ ses' \in [Endpoint -> Object] /\ Same(e)
         /\ ses'[e].win = Advance(ses[e].win, r.seq)
         /\ ses'[e].key = ses[e].key
         /\ ses'[e].sid = ses[e].sid /\ ses'[e].eph = ses[e].eph
         /\ ses'[e].salt = ses[e].salt /\ ses'[e].hello = ses[e].hello
         /\ ses'[e].pqc = ses[e].pqc /\ ses'[e].count = ses[e].count
         /\ ses'[e].role = ses[e].role /\ ses'[e].send = ses[e].send
         /\ ses'[e].answered = ses[e].answered
         /\ UNCHANGED <<clock, draws, objects, hellos, acks, records, sends>>
<1> DEFINE s == ses[e]
           w == Advance(s.win, r.seq)
           n == [s EXCEPT !.win = w]
<1>1. s \in Object /\ r \in Record
  BY DEF TypeOK
<1>2. /\ Addressed(e, r) /\ Authentic(e, r)
      /\ opened' = [opened EXCEPT ![r.body] = @ + 1]
      /\ ses' = [ses EXCEPT ![e] = n]
      /\ UNCHANGED <<clock, draws, objects, hellos, acks, records, sends>>
  BY DEF Decrypt
<1>3. /\ s.key # None /\ r.to = e /\ CanAccept(s.win, r.seq)
      /\ r.intact /\ r.key = s.key /\ r.dir = Inward(s.role)
  BY <1>2 DEF Addressed, Authentic
<1> HIDE DEF s
<1>4. w \in WindowType
  <2>1. s.win \in WindowType /\ r.seq \in Int
    BY <1>1 DEF Object, Record
  <2> QED
    BY <2>1 DEF WindowType, Advance
<1> HIDE DEF w
<1>5. /\ n \in Object
      /\ n.win = w
      /\ n.sid = s.sid /\ n.eph = s.eph /\ n.salt = s.salt /\ n.hello = s.hello
      /\ n.pqc = s.pqc /\ n.count = s.count /\ n.role = s.role
      /\ n.key = s.key /\ n.send = s.send /\ n.answered = s.answered
  BY <1>1, <1>4 DEF Object
<1> HIDE DEF n
<1>6. ses' \in [Endpoint -> Object] /\ Same(e) /\ ses'[e] = n
  BY <1>2, <1>5 DEF TypeOK, Same
<1> QED
  BY <1>1, <1>2, <1>3, <1>5, <1>6 DEF s, w

\* A new object in the place of the old one has drawn new identifiers.
LEMMA RestartDoes ==
  ASSUME TypeOK, NEW e \in Endpoint, NEW epoch \in Epochs, Restart(e, epoch)
  PROVE  \E d \in Draw :
             /\ e \in Restarter /\ d = <<e, draws[e]>>
             /\ ses' \in [Endpoint -> Object] /\ Same(e)
             /\ ses'[e].sid = d /\ ses'[e].eph = d /\ ses'[e].salt = d
             /\ ses'[e].hello = None /\ ses'[e].pqc = None /\ ses'[e].key = None
             /\ ses'[e].role = "initiator" /\ ses'[e].send = 0
             /\ ses'[e].win = EmptyWindow /\ ses'[e].answered = {} /\ ses'[e].count = 0
             /\ draws' = [draws EXCEPT ![e] = @ + 1]
             /\ objects' = [objects EXCEPT ![e] = @ + 1]
             /\ UNCHANGED <<clock, hellos, acks, records, sends, opened>>
<1> DEFINE d == <<e, draws[e]>>
           n == NewObject(d, epoch)
<1>1. d \in Draw
  BY DEF TypeOK, Draw
<1>2. /\ ses' = [ses EXCEPT ![e] = n] /\ e \in Restarter
      /\ draws' = [draws EXCEPT ![e] = @ + 1]
      /\ objects' = [objects EXCEPT ![e] = @ + 1]
      /\ UNCHANGED <<clock, hellos, acks, records, sends, opened>>
  BY DEF Restart
<1> HIDE DEF d
<1>3. /\ n \in Object
      /\ n.sid = d /\ n.eph = d /\ n.salt = d
      /\ n.hello = None /\ n.pqc = None /\ n.key = None
      /\ n.role = "initiator" /\ n.send = 0
      /\ n.win = EmptyWindow /\ n.answered = {} /\ n.count = 0
  BY <1>1, NewObjectType
<1> HIDE DEF n
<1>4. ses' \in [Endpoint -> Object] /\ Same(e) /\ ses'[e] = n
  BY <1>2, <1>3 DEF TypeOK, Same
<1> QED
  BY <1>1, <1>2, <1>3, <1>4 DEF d

\* A forged record is not intact.
LEMMA ForgeDoes ==
  ASSUME TypeOK, NEW r \in records, NEW seq \in Forgeries, Forge(r, seq)
  PROVE  \E q \in Record :
           /\ ~ q.intact /\ q.key = r.key
           /\ records' = records \cup {q}
           /\ UNCHANGED <<clock, draws, objects, ses, hellos, acks, sends, opened>>
<1> DEFINE q == [r EXCEPT !.seq = seq, !.intact = FALSE]
<1>1. r \in Record /\ seq \in Int
  BY SessionAssumption DEF TypeOK
<1>2. q \in Record /\ q.intact = FALSE /\ q.key = r.key
  BY <1>1 DEF Record
<1>3. /\ records' = records \cup {q}
      /\ UNCHANGED <<clock, draws, objects, ses, hellos, acks, sends, opened>>
  BY DEF Forge
<1> QED
  BY <1>2, <1>3

-----------------------------------------------------------------------------
(***************************************************************************)
(* Types.                                                                  *)
(***************************************************************************)
\* A window that holds only numbers inside it holds at most Window of them.
LEMMA FittingIsSmall ==
  ASSUME NEW w \in WindowType,
         w.seen \subseteq (w.highest - Window + 1)..w.highest
  PROVE  Cardinality(w.seen) <= Window
<1>1. w.highest \in Int /\ Window \in Nat \ {0}
  BY WindowAssumption DEF WindowType
<1> DEFINE a == w.highest - Window + 1
<1>2. a \in Int /\ ~ (a > w.highest) /\ w.highest - a + 1 = Window
  BY <1>1
<1> HIDE DEF a
<1>3. IsFiniteSet(a..w.highest) /\ Cardinality(a..w.highest) = Window
  BY <1>1, <1>2, FS_Interval
<1> QED
  BY <1>3, FS_Subset DEF a

\* A window that moves prunes what falls out of it.
LEMMA AdvanceFits ==
  ASSUME NEW w \in WindowType, NEW n \in Int,
         w.seen \subseteq (w.highest - Window + 1)..w.highest
  PROVE  LET v == Advance(w, n)
         IN  v.seen \subseteq (v.highest - Window + 1)..v.highest
BY WindowAssumption DEF Advance, WindowType

\* The types hold at first.
LEMMA InitTyped == Init => Typed
<1> SUFFICES ASSUME Init PROVE Typed
  OBVIOUS
<1>1. \A e \in Endpoint : <<e, 0>> \in Draw
  BY DEF Draw
<1>2. PICK epoch \in [Endpoint -> Epochs] :
             ses = [e \in Endpoint |-> NewObject(<<e, 0>>, epoch[e])]
  BY DEF Init
<1>3. /\ ses \in [Endpoint -> Object]
      /\ \A e \in Endpoint : ses[e].hello = None /\ ses[e].win = EmptyWindow
  BY <1>1, <1>2, NewObjectType
<1>4. Cardinality({}) = 0
  BY FS_EmptySet
<1>5. \A e \in Endpoint : Cardinality(ses[e].win.seen) <= Window
  <2>1. EmptyWindow.seen = {}
    BY DEF EmptyWindow
  <2>2. \A e \in Endpoint : ses[e].win.seen = {}
    BY <1>3, <2>1
  <2>3. \A e \in Endpoint : Cardinality(ses[e].win.seen) = 0
    BY <1>4, <2>2, Zenon
  <2> QED
    BY <2>3, WindowAssumption
<1>6. \A e \in Endpoint : 0 \in 0..MaxSends[e]
  BY SessionAssumption
<1>7. TypeOK
  BY <1>3, <1>5, <1>6, SessionAssumption DEF Init, TypeOK
<1> QED
  BY <1>3, <1>7 DEF Typed, WindowsFit, HellosHaveSecrets, EmptyWindow

\* Every step keeps the types.
LEMMA NextTyped == Typed /\ [Next]_vars => Typed'
<1> SUFFICES ASSUME Typed, [Next]_vars PROVE Typed'
  OBVIOUS
<1> DEFINE Windowed == \A e \in Endpoint : ses'[e].win.seen \subseteq
                          (ses'[e].win.highest - Window + 1)..ses'[e].win.highest
<1>0. /\ TypeOK /\ HellosHaveSecrets
      /\ \A e \in Endpoint : ses[e].win.seen \subseteq
                          (ses[e].win.highest - Window + 1)..ses[e].win.highest
  BY DEF Typed, WindowsFit
<1>1. ASSUME ses' \in [Endpoint -> Object], Windowed, HellosHaveSecrets',
             clock' \in 0..MaxTime, draws' \in [Endpoint -> Nat],
             objects' \in [Endpoint -> Nat], hellos' \subseteq HelloMessage,
             acks' \subseteq AckMessage, records' \subseteq Record,
             DOMAIN sends' = Endpoint, \A e \in Endpoint : sends'[e] \in 0..MaxSends[e],
             opened' \in [Body -> Nat]
      PROVE  Typed'
  <2>1. \A e \in Endpoint : Cardinality(ses'[e].win.seen) <= Window
    <3>1. \A e \in Endpoint : ses'[e].win \in WindowType
      BY <1>1 DEF Object
    <3> QED
      BY <1>1, <3>1, FittingIsSmall
  <2> QED
    BY <1>1, <2>1 DEF Typed, TypeOK, WindowsFit
<1>2. ASSUME NEW e \in Endpoint, Hello(e)
      PROVE  Typed'
  <2>1. Windowed /\ HellosHaveSecrets'
    BY <1>0, <1>2, HelloDoes DEF Same, HellosHaveSecrets
  <2> QED
    BY <1>0, <1>1, <1>2, <2>1, HelloDoes, SMTT(40) DEF TypeOK
<1>3. ASSUME NEW e \in Endpoint, NEW h \in hellos, Respond(e, h)
      PROVE  Typed'
  <2>1. Windowed /\ HellosHaveSecrets'
    BY <1>0, <1>3, RespondDoes DEF Same, HellosHaveSecrets, EmptyWindow
  <2> QED
    BY <1>0, <1>1, <1>3, <2>1, RespondDoes DEF TypeOK
<1>4. ASSUME NEW e \in Endpoint, NEW a \in acks, AcceptAck(e, a)
      PROVE  Typed'
  <2>1. Windowed /\ HellosHaveSecrets'
    BY <1>0, <1>4, AcceptAckDoes DEF Same, HellosHaveSecrets
  <2> QED
    BY <1>0, <1>1, <1>4, <2>1, AcceptAckDoes DEF TypeOK
<1>5. ASSUME NEW e \in Endpoint, Encrypt(e)
      PROVE  Typed'
  <2>1. Consumes(e)
    BY <1>0, <1>5, EncryptConsumes
  <2>2. Windowed /\ HellosHaveSecrets'
    BY <1>0, <2>1 DEF Consumes, Same, HellosHaveSecrets
  <2>3. records' \subseteq Record
    BY <1>0, <1>5, EncryptDoes DEF TypeOK
  <2>4. \A f \in Endpoint : sends'[f] \in 0..MaxSends[f]
    BY <1>0, <2>1, SessionAssumption DEF Consumes, TypeOK
  <2> QED
    BY <1>0, <1>1, <2>1, <2>2, <2>3, <2>4 DEF Consumes, TypeOK
<1>6. ASSUME NEW e \in Endpoint, NEW r \in records, Decrypt(e, r)
      PROVE  Typed'
  <2>1. /\ r \in Record /\ ses[e] \in Object
        /\ Same(e) /\ ses'[e].win = Advance(ses[e].win, r.seq)
        /\ ses'[e].hello = ses[e].hello /\ ses'[e].pqc = ses[e].pqc
    BY <1>0, <1>6, DecryptDoes DEF TypeOK
  <2>2. Windowed /\ HellosHaveSecrets'
    <3>1. r.seq \in Int /\ ses[e].win \in WindowType
      BY <2>1 DEF Record, Object
    <3> QED
      BY <1>0, <2>1, <3>1, AdvanceFits DEF Same, HellosHaveSecrets
  <2>3. opened' \in [Body -> Nat]
    BY <1>0, <1>6, DecryptDoes DEF TypeOK, Record
  <2> QED
    BY <1>0, <1>1, <1>6, <2>2, <2>3, DecryptDoes DEF TypeOK
<1>7. ASSUME NEW e \in Endpoint, NEW epoch \in Epochs, Restart(e, epoch)
      PROVE  Typed'
  <2>1. Windowed /\ HellosHaveSecrets'
    BY <1>0, <1>7, RestartDoes DEF Same, HellosHaveSecrets, EmptyWindow
  <2> QED
    <3>1. /\ ses' \in [Endpoint -> Object]
          /\ draws' = [draws EXCEPT ![e] = @ + 1] /\ objects' = [objects EXCEPT ![e] = @ + 1]
          /\ UNCHANGED <<clock, hellos, acks, records, sends, opened>>
      BY <1>0, <1>7, RestartDoes
    <3>2. draws' \in [Endpoint -> Nat] /\ objects' \in [Endpoint -> Nat]
      BY <1>0, <3>1 DEF TypeOK
    <3> QED
      BY <1>0, <1>1, <2>1, <3>1, <3>2 DEF TypeOK
<1>8. ASSUME NEW r \in records, NEW seq \in Forgeries, Forge(r, seq)
      PROVE  Typed'
  <2>1. Windowed /\ HellosHaveSecrets'
    BY <1>0, <1>8, ForgeDoes DEF HellosHaveSecrets
  <2> QED
    BY <1>0, <1>1, <1>8, <2>1, ForgeDoes DEF TypeOK
<1>9. CASE Tick
  BY <1>0, <1>1, <1>9, SessionAssumption DEF Tick, TypeOK, HellosHaveSecrets
<1>10. CASE UNCHANGED vars
  BY <1>0, <1>1, <1>10 DEF vars, TypeOK, HellosHaveSecrets
<1> QED
  BY <1>2, <1>3, <1>4, <1>5, <1>6, <1>7, <1>8, <1>9, <1>10 DEF Next

\* Every object, message and counter of the sessions stays within its type, a
\* window within its size (secure_channel.py:91-243).
THEOREM SessionsAreTyped == Spec => []TypeOK
<1>1. Typed => TypeOK
  BY DEF Typed
<1> QED
  BY <1>1, InitTyped, NextTyped, PTL DEF Spec

-----------------------------------------------------------------------------
(***************************************************************************)
(* At most once, whichever of the two agents initiates.                    *)
(***************************************************************************)
\* No two draws give the same value.
Drawn(d) == d[2] < draws[d[1]]

\* Every ephemeral key on the channel, in an object and under a key was drawn,
\* and an object is keyed with its own.
EphemeralsAreDrawn ==
  /\ \A h \in hellos : Drawn(h.eph)
  /\ \A a \in acks : Drawn(a.eph)
  /\ \A e \in Endpoint :
       /\ Drawn(ses[e].eph)
       /\ ses[e].key # None =>
            ses[e].eph \in ses[e].key.x /\ \A d \in ses[e].key.x : Drawn(d)
  /\ \A r \in records : \A d \in r.key.x : Drawn(d)

\* A body is in one record, made by a call of encrypt.
BodiesAreNew ==
  /\ \A r \in records : r.intact => r.body[2] <= sends[r.body[1]]
  /\ \A r, q \in records : r.intact /\ q.intact /\ r.body = q.body => r = q
  /\ \A b \in Body : opened[b] # 0 => b[2] <= sends[b[1]]

\* A record that was opened is refused for as long as its receiver keeps the
\* ephemeral key under it: the window is emptied only where that key is drawn
\* anew.
TakenStayTaken ==
  \A r \in records :
    r.intact /\ opened[r.body] # 0 /\ ses[r.to].eph \in r.key.x
      => ~ CanAccept(ses[r.to].win, r.seq)

OInv == Typed /\ EphemeralsAreDrawn /\ BodiesAreNew /\ TakenStayTaken

\* A window refuses for good what it took or refused.
LEMMA AdvanceRefuses ==
  ASSUME NEW w \in WindowType, NEW n \in Int, NEW m \in Int,
         m = n \/ ~ CanAccept(w, m)
  PROVE  ~ CanAccept(Advance(w, n), m)
BY WindowAssumption DEF Advance, CanAccept, WindowType

\* A body is the pair of its sender and the sender's count.
LEMMA Bodies ==
  ASSUME TypeOK, NEW b \in Body
  PROVE  /\ b = <<b[1], b[2]>> /\ b[1] \in Endpoint /\ b[2] \in Nat
         /\ sends[b[1]] \in Nat
         /\ \A e \in Endpoint : sends' = [sends EXCEPT ![e] = @ + 1]
              => sends'[b[1]] = IF b[1] = e THEN sends[e] + 1 ELSE sends[b[1]]
<1>1. \A e \in Endpoint : sends[e] \in Nat
  BY SessionAssumption DEF TypeOK
<1>2. b[1] \in Endpoint /\ b[2] \in Nat /\ b = <<b[1], b[2]>>
  BY SessionAssumption DEF Body
<1> QED
  BY <1>1, <1>2 DEF TypeOK

\* Time draws nothing back.
LEMMA DrawnStay ==
  ASSUME TypeOK, NEW e \in Endpoint, draws' = [draws EXCEPT ![e] = @ + 1],
         NEW d \in Draw
  PROVE  /\ Drawn(d) => Drawn(d)'
         /\ d = <<e, draws[e]>> => ~ Drawn(d) /\ Drawn(d)'
<1>1. d[1] \in Endpoint /\ d[2] \in Nat
  BY DEF Draw
<1>2. draws \in [Endpoint -> Nat]
  BY DEF TypeOK
<1> QED
  BY <1>1, <1>2 DEF Drawn

\* All that may be an ephemeral key is a draw.
LEMMA EphemeralsAreDraws ==
  ASSUME TypeOK
  PROVE  /\ \A h \in hellos : h.eph \in Draw
         /\ \A a \in acks : a.eph \in Draw
         /\ \A e \in Endpoint :
              /\ ses[e].eph \in Draw
              /\ ses[e].key # None => \A d \in ses[e].key.x : d \in Draw
         /\ \A r \in records :
              r.to \in Endpoint /\ r.seq \in Int /\ r.body \in Body
                /\ \A d \in r.key.x : d \in Draw
<1>1. \A k \in Key : \A d \in k.x : d \in Draw
  BY DEF Key
<1> QED
  BY <1>1 DEF TypeOK, HelloMessage, AckMessage, Object, Record

\* Nothing is sent and nothing opened at first.
LEMMA InitOInv == Init => OInv
<1> SUFFICES ASSUME Init PROVE OInv
  OBVIOUS
<1>1. PICK epoch \in [Endpoint -> Epochs] :
             ses = [e \in Endpoint |-> NewObject(<<e, 0>>, epoch[e])]
  BY DEF Init
<1>2. \A e \in Endpoint : ses[e].eph = <<e, 0>> /\ ses[e].key = None
  BY <1>1 DEF NewObject
<1>3. EphemeralsAreDrawn
  BY <1>2 DEF Init, EphemeralsAreDrawn, Drawn
<1> QED
  BY <1>3, InitTyped DEF Init, OInv, BodiesAreNew, TakenStayTaken

\* A hello carries the ephemeral key its object has.
LEMMA HelloTakesNone ==
  ASSUME OInv, Typed', NEW e \in Endpoint, Hello(e)
  PROVE  OInv'
<1>0. TypeOK
  BY DEF OInv, Typed
<1>1. PICK h \in HelloMessage, d \in Draw :
           /\ h.eph = ses[e].eph
           /\ hellos' = hellos \cup {h}
           /\ draws' = [draws EXCEPT ![e] = @ + 1]
           /\ Same(e)
           /\ ses'[e].eph = ses[e].eph /\ ses'[e].key = ses[e].key
           /\ ses'[e].win = ses[e].win
           /\ UNCHANGED <<acks, records, sends, opened>>
  BY <1>0, HelloDoes
<1>2. \A f \in Endpoint :
        ses'[f].eph = ses[f].eph /\ ses'[f].key = ses[f].key /\ ses'[f].win = ses[f].win
  BY <1>1 DEF Same
<1>3. \A b \in Draw : Drawn(b) => Drawn(b)'
  BY <1>0, <1>1, DrawnStay
<1>4. EphemeralsAreDrawn'
  BY <1>0, <1>1, <1>2, <1>3, EphemeralsAreDraws DEF OInv, EphemeralsAreDrawn
<1>5. TakenStayTaken'
  BY <1>0, <1>1, <1>2, EphemeralsAreDraws DEF OInv, TakenStayTaken
<1> QED
  BY <1>1, <1>4, <1>5 DEF OInv, BodiesAreNew

\* An object that gets an empty window has an ephemeral key that no record on
\* the channel was made under.
LEMMA NewEphemeralTakesNone ==
  ASSUME OInv, NEW e \in Endpoint, Same(e), UNCHANGED <<records, opened>>,
         ses'[e].eph = <<e, draws[e]>>, <<e, draws[e]>> \in Draw,
         draws' = [draws EXCEPT ![e] = @ + 1]
  PROVE  TakenStayTaken'
<1>0. TypeOK
  BY DEF OInv, Typed
<1>1. ~ Drawn(ses'[e].eph)
  BY <1>0, DrawnStay
<1>2. \A r \in records : ses'[e].eph \notin r.key.x
  BY <1>1 DEF OInv, EphemeralsAreDrawn
<1> QED
  BY <1>0, <1>2, EphemeralsAreDraws DEF OInv, TakenStayTaken, Same

\* An answer draws the ephemeral key its object is keyed with.
LEMMA RespondTakesNone ==
  ASSUME OInv, Typed', NEW e \in Endpoint, NEW h \in hellos, Respond(e, h)
  PROVE  OInv'
<1>0. TypeOK
  BY DEF OInv, Typed
<1>1. PICK a \in AckMessage, k \in Key :
           /\ a.eph = <<e, draws[e]>>
           /\ k = [hello |-> h, ack |-> a, pqc |-> h.kem, x |-> {h.eph, a.eph}]
           /\ acks' = acks \cup {a}
           /\ draws' = [draws EXCEPT ![e] = @ + 1]
           /\ Same(e)
           /\ ses'[e].eph = a.eph /\ ses'[e].key = k
           /\ UNCHANGED <<hellos, records, sends, opened>>
  BY <1>0, RespondDoes, SMTT(40)
<1>2. a.eph \in Draw /\ k.x = {h.eph, a.eph}
  BY <1>1 DEF AckMessage
<1>3. (\A b \in Draw : Drawn(b) => Drawn(b)') /\ Drawn(a.eph)'
  BY <1>0, <1>1, <1>2, DrawnStay
<1>4. Drawn(h.eph)'
  BY <1>0, <1>3, EphemeralsAreDraws DEF OInv, EphemeralsAreDrawn
<1>5. EphemeralsAreDrawn'
  BY <1>0, <1>1, <1>2, <1>3, <1>4, EphemeralsAreDraws DEF OInv, EphemeralsAreDrawn, Same
<1>6. TakenStayTaken'
  BY <1>1, <1>2, NewEphemeralTakesNone
<1> QED
  BY <1>1, <1>5, <1>6 DEF OInv, BodiesAreNew

\* A rekey keeps the ephemeral key and with it the window.
LEMMA AcceptAckTakesNone ==
  ASSUME OInv, Typed', NEW e \in Endpoint, NEW a \in acks, AcceptAck(e, a)
  PROVE  OInv'
<1>0. Typed /\ TypeOK
  BY DEF OInv, Typed
<1>1. PICK k \in Key :
           /\ k = [hello |-> ses[e].hello, ack |-> a, pqc |-> ses[e].pqc,
                   x |-> {ses[e].eph, a.eph}]
           /\ Same(e)
           /\ ses'[e].key = k
           /\ ses'[e].eph = ses[e].eph /\ ses'[e].win = ses[e].win
           /\ UNCHANGED <<draws, hellos, acks, records, sends, opened>>
  BY <1>0, AcceptAckDoes
<1>2. k.x = {ses[e].eph, a.eph}
  BY <1>1
<1>3. EphemeralsAreDrawn'
  BY <1>1, <1>2 DEF OInv, EphemeralsAreDrawn, Drawn, Same
<1>4. TakenStayTaken'
  BY <1>0, <1>1, EphemeralsAreDraws DEF OInv, TakenStayTaken, Same
<1> QED
  BY <1>1, <1>3, <1>4 DEF OInv, BodiesAreNew

\* encrypt moves no window; what it sends was never opened.
LEMMA ConsumeTakesNone ==
  ASSUME OInv, Typed', NEW e \in Endpoint, Encrypt(e)
  PROVE  OInv'
<1>0. TypeOK
  BY DEF OInv, Typed
<1>1. /\ Consumes(e)
      /\ sends' = [sends EXCEPT ![e] = @ + 1] /\ ses[e].key # None
      /\ UNCHANGED <<draws, hellos, acks, opened>>
  BY <1>0, EncryptConsumes DEF Consumes
<1>2. \A f \in Endpoint :
        ses'[f].eph = ses[f].eph /\ ses'[f].key = ses[f].key /\ ses'[f].win = ses[f].win
  BY <1>1 DEF Consumes, Same
<1>3. sends[e] \in Nat
  BY <1>0, SessionAssumption DEF TypeOK
<1>4. ASSUME NEW r \in records' \ records
      PROVE  /\ r.key = ses[e].key /\ r.body = <<e, sends[e] + 1>> /\ r.body \in Body
             /\ records' = records \cup {r}
  BY <1>0, <1>4, EncryptDoes DEF Record
<1>5. EphemeralsAreDrawn'
  <2>1. \A r \in records' : \A d \in r.key.x : Drawn(d)
    BY <1>1, <1>4 DEF OInv, EphemeralsAreDrawn
  <2> QED
    BY <1>1, <1>2, <2>1 DEF OInv, EphemeralsAreDrawn, Drawn
<1>6. ASSUME NEW r \in records' \ records
      PROVE  opened[r.body] = 0 /\ \A q \in records : q.intact => q.body # r.body
  BY <1>0, <1>3, <1>4, EphemeralsAreDraws DEF OInv, BodiesAreNew
<1>7. BodiesAreNew'
  <2>1. ASSUME NEW q \in records', q.intact PROVE q.body[2] <= sends'[q.body[1]]
    <3>1. CASE q \in records
      BY <1>0, <1>1, <1>3, <2>1, <3>1, Bodies, EphemeralsAreDraws DEF OInv, BodiesAreNew
    <3>2. CASE q \notin records
      BY <1>0, <1>1, <1>3, <1>4, <3>2 DEF TypeOK
    <3> QED
      BY <3>1, <3>2
  <2>2. \A b \in Body : opened'[b] # 0 => b[2] <= sends'[b[1]]
    BY <1>0, <1>1, Bodies DEF OInv, BodiesAreNew
  <2>3. ASSUME NEW r \in records', NEW q \in records', r.intact, q.intact, r.body = q.body
        PROVE  r = q
    BY <1>4, <1>6, <2>3 DEF OInv, BodiesAreNew
  <2> QED
    BY <2>1, <2>2, <2>3 DEF BodiesAreNew
<1>8. TakenStayTaken'
  <2>1. \A r \in records' : opened'[r.body] # 0 => r \in records
    BY <1>1, <1>6
  <2> QED
    BY <1>0, <1>2, <1>1, <2>1, EphemeralsAreDraws DEF OInv, TakenStayTaken
<1> QED
  BY <1>5, <1>7, <1>8 DEF OInv

\* A record is opened for the first time.
LEMMA DecryptIsFirst ==
  ASSUME OInv, NEW e \in Endpoint, NEW r \in records, Decrypt(e, r)
  PROVE  r.body \in Body /\ opened[r.body] = 0
<1>0. TypeOK
  BY DEF OInv, Typed
<1>1. /\ r.body \in Body /\ r.to = e /\ r.intact /\ ses[e].key # None
      /\ CanAccept(ses[e].win, r.seq)
      /\ r.key = ses[e].key
  BY <1>0, DecryptDoes DEF Record
<1> QED
  BY <1>1 DEF OInv, EphemeralsAreDrawn, TakenStayTaken

\* A body returned is refused from then on.
LEMMA DecryptTakesOnce ==
  ASSUME OInv, Typed', NEW e \in Endpoint, NEW r \in records, Decrypt(e, r)
  PROVE  OInv'
<1>0. TypeOK
  BY DEF OInv, Typed
<1>1. /\ r.body \in Body /\ r.intact /\ r.to = e
      /\ opened' = [opened EXCEPT ![r.body] = @ + 1]
      /\ Same(e)
      /\ ses'[e].win = Advance(ses[e].win, r.seq)
      /\ ses'[e].eph = ses[e].eph /\ ses'[e].key = ses[e].key
      /\ UNCHANGED <<draws, hellos, acks, records, sends>>
  BY <1>0, DecryptDoes DEF Record
<1>2. \A f \in Endpoint :
        /\ ses'[f].eph = ses[f].eph /\ ses'[f].key = ses[f].key
        /\ f # e => ses'[f].win = ses[f].win
  BY <1>1 DEF Same
<1>3. \A q \in records : q.seq \in Int /\ q.to \in Endpoint /\ q.body \in Body
  BY <1>0, EphemeralsAreDraws
<1>4. \A b \in Body : b # r.body => opened'[b] = opened[b]
  BY <1>0, <1>1 DEF TypeOK
<1>5. EphemeralsAreDrawn'
  BY <1>1, <1>2 DEF OInv, EphemeralsAreDrawn, Drawn
<1>6. BodiesAreNew'
  BY <1>1, <1>4 DEF OInv, BodiesAreNew
<1>7. ASSUME NEW q \in records, q.intact, opened'[q.body] # 0, ses'[q.to].eph \in q.key.x
      PROVE  ~ CanAccept(ses'[q.to].win, q.seq)
  <2>1. ses[e].win \in WindowType
    BY <1>0 DEF TypeOK, Object
  <2>2. CASE q.body = r.body
    <3>1. q = r
      BY <1>1, <1>7, <2>2 DEF OInv, BodiesAreNew
    <3> QED
      BY <1>1, <1>3, <2>1, <3>1, AdvanceRefuses
  <2>3. CASE q.body # r.body
    <3>1. ~ CanAccept(ses[q.to].win, q.seq)
      BY <1>2, <1>3, <1>4, <1>7, <2>3 DEF OInv, TakenStayTaken
    <3>2. q.to = e => ~ CanAccept(ses'[e].win, q.seq)
      BY <1>1, <1>3, <2>1, <3>1, AdvanceRefuses
    <3> QED
      BY <1>2, <1>3, <3>1, <3>2
  <2> QED
    BY <2>2, <2>3
<1>8. TakenStayTaken'
  BY <1>1, <1>7 DEF TakenStayTaken
<1> QED
  BY <1>5, <1>6, <1>8 DEF OInv

\* A new object has drawn a new ephemeral key.
LEMMA RestartTakesNone ==
  ASSUME OInv, Typed', NEW e \in Endpoint, NEW epoch \in Epochs, Restart(e, epoch)
  PROVE  OInv'
<1>0. TypeOK
  BY DEF OInv, Typed
<1>1. PICK d \in Draw :
             /\ d = <<e, draws[e]>>
             /\ Same(e)
             /\ ses'[e].eph = d /\ ses'[e].key = None
             /\ draws' = [draws EXCEPT ![e] = @ + 1]
             /\ UNCHANGED <<hellos, acks, records, sends, opened>>
  BY <1>0, RestartDoes
<1>2. Drawn(d)' /\ (\A b \in Draw : Drawn(b) => Drawn(b)')
  BY <1>0, <1>1, DrawnStay
<1>3. EphemeralsAreDrawn'
  BY <1>0, <1>1, <1>2, EphemeralsAreDraws DEF OInv, EphemeralsAreDrawn, Same
<1>4. TakenStayTaken'
  BY <1>1, NewEphemeralTakesNone
<1> QED
  BY <1>1, <1>3, <1>4 DEF OInv, BodiesAreNew

\* The invariant is inductive, whoever initiates.
LEMMA NextOInv == OInv /\ [Next]_vars => OInv'
<1> SUFFICES ASSUME OInv, [Next]_vars PROVE OInv'
  OBVIOUS
<1>0. Typed' /\ TypeOK
  BY NextTyped DEF OInv, Typed
<1>1. ASSUME NEW r \in records, NEW seq \in Forgeries, Forge(r, seq)
      PROVE  OInv'
  <2>1. PICK q \in Record :
             /\ ~ q.intact /\ q.key = r.key
             /\ records' = records \cup {q}
             /\ UNCHANGED <<draws, ses, hellos, acks, sends, opened>>
    BY <1>0, <1>1, ForgeDoes
  <2>2. EphemeralsAreDrawn'
    BY <2>1 DEF OInv, EphemeralsAreDrawn, Drawn
  <2> QED
    BY <1>0, <2>1, <2>2 DEF OInv, BodiesAreNew, TakenStayTaken
<1>2. CASE Tick
  BY <1>0, <1>2 DEF Tick, OInv, EphemeralsAreDrawn, Drawn, BodiesAreNew, TakenStayTaken
<1>3. CASE UNCHANGED vars
  BY <1>0, <1>3 DEF vars, OInv, EphemeralsAreDrawn, Drawn, BodiesAreNew, TakenStayTaken
<1> QED
  BY <1>0, <1>1, <1>2, <1>3, HelloTakesNone, RespondTakesNone, AcceptAckTakesNone,
     ConsumeTakesNone, DecryptTakesOnce, RestartTakesNone DEF Next

\* decrypt returns no body twice, whatever the channel repeats, whichever
\* objects are replaced and whoever initiates (secure_channel.py:179-207).
THEOREM SessionsImplementAtMostOnce == Spec => ImplementsAtMostOnce
<1>1. Init => Once!Init
  BY DEF Init, Once!Init
<1>2. OInv /\ [Next]_vars => [Once!Next]_opened
  <2> SUFFICES ASSUME OInv, [Next]_vars PROVE [Once!Next]_opened
    OBVIOUS
  <2>1. ASSUME NEW e \in Endpoint, NEW r \in records, Decrypt(e, r)
        PROVE  Once!Next
    <3>1. r.body \in Body /\ opened[r.body] = 0
      BY <2>1, DecryptIsFirst
    <3>2. opened' = [opened EXCEPT ![r.body] = opened[r.body] + 1]
      BY <2>1 DEF Decrypt
    <3>3. opened' = [opened EXCEPT ![r.body] = 1]
      BY <3>1, <3>2
    <3> QED
      BY <3>1, <3>3 DEF Once!Next, Once!Take
  <2>2. ASSUME ~ (\E e \in Endpoint, r \in records : Decrypt(e, r))
        PROVE  UNCHANGED opened
    BY <2>2, ZenonT(40) DEF Next, vars, Hello, Respond, AcceptAck, Encrypt,
                Restart, Forge, Tick
  <2> QED
    BY <2>1, <2>2
<1> QED
  BY <1>1, <1>2, InitOInv, NextOInv, PTL DEF Spec, ImplementsAtMostOnce, Once!Spec

-----------------------------------------------------------------------------
(***************************************************************************)
(* Safety, where one of the two agents initiates.                          *)
(***************************************************************************)
\* What an object remembers, is keyed with and puts into records was sent.
MessagesWereSent ==
  /\ \A h \in hellos : h.from \in Initiator /\ Drawn(h.sid)
  /\ \A a \in acks : Drawn(a.eph)
  /\ \A e \in Endpoint :
       /\ Drawn(ses[e].sid)
       /\ ses[e].hello # None => ses[e].hello \in hellos
       /\ ses[e].key # None => ses[e].key.hello \in hellos /\ ses[e].key.ack \in acks
  /\ \A r \in records : r.key.hello \in hellos /\ r.key.ack \in acks

\* An object that called hello stays the initiator of its own session, and one
\* that answered is keyed with its own answer.
RolesStay ==
  \A e \in Endpoint :
    /\ ses[e].hello # None => e \in Initiator /\ ses[e].hello.sid = ses[e].sid
    /\ ses[e].role = "initiator" =>
         /\ ses[e].sid[1] = e
         /\ ses[e].key # None => ses[e].key.hello.sid = ses[e].sid
    /\ ses[e].role = "responder" =>
         e \notin Initiator /\ ses[e].key.ack.from = e

\* The records an object may have made are numbered below its next number: an
\* initiator's are those of its session identifier, a responder's those of its
\* key.
NumbersAreSpent ==
  \A e \in Endpoint : \A r \in records :
    r.intact =>
      /\ ses[e].role = "initiator" /\ r.dir = "i2r" /\ r.key.hello.sid = ses[e].sid
           => r.seq < ses[e].send
      /\ ses[e].role = "responder" /\ r.dir = "r2i" /\ r.key = ses[e].key
           => r.seq < ses[e].send

SInv ==
  /\ Typed /\ MessagesWereSent /\ RolesStay /\ NumbersAreSpent
  /\ NonceNeverReused

\* A record made by an object that has a key is new in its session.
LEMMA EncryptIsNew ==
  ASSUME SInv, NEW e \in Endpoint, ses[e].key # None, NEW q \in records, q.intact,
         q.key = ses[e].key, q.dir = Outward(ses[e].role)
  PROVE  q.seq < ses[e].send
<1>1. ses[e].role \in {"initiator", "responder"}
  BY DEF SInv, Typed, TypeOK, Object
<1> QED
  BY <1>1 DEF SInv, RolesStay, NumbersAreSpent, Outward

\* Nothing is sent at first.
LEMMA InitSInv == Init => SInv
<1> SUFFICES ASSUME Init PROVE SInv
  OBVIOUS
<1>1. PICK epoch \in [Endpoint -> Epochs] :
             ses = [e \in Endpoint |-> NewObject(<<e, 0>>, epoch[e])]
  BY DEF Init
<1>2. \A e \in Endpoint :
        /\ ses[e].sid = <<e, 0>> /\ ses[e].role = "initiator"
        /\ ses[e].hello = None /\ ses[e].key = None
  BY <1>1 DEF NewObject
<1>3. MessagesWereSent
  BY <1>2 DEF Init, MessagesWereSent, Drawn
<1>4. RolesStay
  BY <1>2 DEF RolesStay
<1> QED
  BY <1>3, <1>4, InitTyped
     DEF Init, SInv, NumbersAreSpent, NonceNeverReused

\* A hello is sent with what was just drawn.
LEMMA HelloKeeps ==
  ASSUME SInv, Typed', NEW e \in Endpoint, Hello(e)
  PROVE  SInv'
<1>0. Typed /\ TypeOK
  BY DEF SInv, Typed
<1>1. PICK h \in HelloMessage, d \in Draw :
           /\ e \in Initiator
           /\ h.from = e /\ h.sid = ses[e].sid
           /\ hellos' = hellos \cup {h}
           /\ draws' = [draws EXCEPT ![e] = @ + 1]
           /\ Same(e)
           /\ ses'[e].hello = h
           /\ ses'[e].sid = ses[e].sid /\ ses'[e].key = ses[e].key
           /\ ses'[e].role = ses[e].role /\ ses'[e].send = ses[e].send
           /\ UNCHANGED <<acks, records, sends, opened>>
  BY <1>0, HelloDoes
<1>2. \A f \in Endpoint :
        /\ ses'[f].sid = ses[f].sid /\ ses'[f].key = ses[f].key
        /\ ses'[f].role = ses[f].role /\ ses'[f].send = ses[f].send
        /\ f # e => ses'[f].hello = ses[f].hello
  BY <1>1 DEF Same
<1>3. MessagesWereSent'
  <2>1. /\ \A f \in Endpoint : ses[f].sid \in Draw
        /\ \A g \in hellos : g.sid \in Draw
        /\ \A a \in acks : a.eph \in Draw
    BY <1>0 DEF TypeOK, Object, HelloMessage, AckMessage
  <2>2. \A b \in Draw : Drawn(b) => Drawn(b)'
    BY <1>0, <1>1, DrawnStay
  <2> QED
    BY <1>1, <1>2, <2>1, <2>2 DEF SInv, MessagesWereSent
<1>4. RolesStay'
  BY <1>1, <1>2 DEF SInv, RolesStay
<1>5. NumbersAreSpent'
  BY <1>1, <1>2 DEF SInv, NumbersAreSpent
<1> QED
  BY <1>1, <1>3, <1>4, <1>5 DEF SInv, NonceNeverReused

\* The answer is new, and so is every key derived with it.
LEMMA RespondKeeps ==
  ASSUME OneInitiates, SInv, Typed', NEW e \in Endpoint, NEW h \in hellos, Respond(e, h)
  PROVE  SInv'
<1>0. Typed /\ TypeOK
  BY DEF SInv, Typed
<1>1. PICK a \in AckMessage, k \in Key :
           /\ h \in HelloMessage /\ h.from = Peer(e)
           /\ a.from = e /\ a.eph = <<e, draws[e]>>
           /\ k.hello = h /\ k.ack = a
           /\ acks' = acks \cup {a}
           /\ draws' = [draws EXCEPT ![e] = @ + 1]
           /\ ses' \in [Endpoint -> Object] /\ Same(e)
           /\ ses'[e].sid = h.sid
           /\ ses'[e].key = k /\ ses'[e].role = "responder"
           /\ ses'[e].hello = ses[e].hello
           /\ UNCHANGED <<hellos, records, sends, opened>>
  BY <1>0, RespondDoes
<1>2. e \notin Initiator
  BY <1>1, Peers DEF OneInitiates, SInv, MessagesWereSent
<1>3. \A r \in records : r.key # k
  <2>1. \A r \in records : Drawn(r.key.ack.eph)
    BY DEF SInv, MessagesWereSent
  <2>2. a.eph \in Draw /\ ~ Drawn(a.eph)
    BY <1>0, <1>1, DrawnStay DEF AckMessage
  <2> QED
    BY <1>1, <2>1, <2>2
<1>4. MessagesWereSent'
  <2>1. /\ \A f \in Endpoint : ses[f].sid \in Draw
        /\ \A g \in hellos : g.sid \in Draw
        /\ \A b \in acks : b.eph \in Draw
        /\ a.eph \in Draw
    BY <1>0 DEF TypeOK, Object, HelloMessage, AckMessage
  <2>2. (\A b \in Draw : Drawn(b) => Drawn(b)') /\ Drawn(a.eph)'
    BY <1>0, <1>1, <2>1, DrawnStay
  <2> QED
    BY <1>1, <2>1, <2>2 DEF SInv, MessagesWereSent, Same
<1>5. RolesStay'
  BY <1>1, <1>2 DEF SInv, RolesStay, Same
<1>6. NumbersAreSpent'
  BY <1>1, <1>3 DEF SInv, NumbersAreSpent, Same
<1> QED
  BY <1>1, <1>4, <1>5, <1>6 DEF SInv, NonceNeverReused

\* An initiator that is rekeyed keeps its number.
LEMMA AcceptAckKeeps ==
  ASSUME SInv, Typed', NEW e \in Endpoint, NEW a \in acks, AcceptAck(e, a)
  PROVE  SInv'
<1>0. Typed /\ TypeOK
  BY DEF SInv, Typed
<1>1. PICK k \in Key :
           /\ ses[e].hello # None
           /\ k.hello = ses[e].hello /\ k.ack = a
           /\ Same(e) /\ ses'[e].key = k
           /\ ses'[e].sid = ses[e].sid /\ ses'[e].hello = ses[e].hello
           /\ ses'[e].role = ses[e].role /\ ses'[e].send = ses[e].send
           /\ UNCHANGED <<draws, hellos, acks, records, sends, opened>>
  BY <1>0, AcceptAckDoes
<1>2. ses[e].role = "initiator"
  BY <1>0, <1>1 DEF SInv, RolesStay, TypeOK, Object
<1>3. MessagesWereSent'
  BY <1>1 DEF SInv, MessagesWereSent, Same, Drawn
<1>4. RolesStay'
  BY <1>1, <1>2 DEF SInv, RolesStay, Same
<1>5. NumbersAreSpent'
  BY <1>1, <1>2 DEF SInv, NumbersAreSpent, Same
<1> QED
  BY <1>1, <1>3, <1>4, <1>5 DEF SInv, NonceNeverReused

\* The number of a record is new under its key.
LEMMA EncryptKeeps ==
  ASSUME SInv, Typed', NEW e \in Endpoint, Encrypt(e)
  PROVE  SInv'
<1>0. Typed /\ TypeOK
  BY DEF SInv, Typed
<1>1. PICK r \in Record :
           /\ r.seq = ses[e].send /\ r.key = ses[e].key
           /\ r.dir = Outward(ses[e].role) /\ r.intact
           /\ records' = records \cup {r}
  BY <1>0, EncryptDoes
<1>2. Consumes(e)
  BY <1>0, EncryptConsumes
<1>3. \A f \in Endpoint :
        /\ ses'[f].sid = ses[f].sid /\ ses'[f].key = ses[f].key
        /\ ses'[f].role = ses[f].role /\ ses'[f].hello = ses[f].hello
        /\ ses'[f].send \in Int /\ ses[f].send \in Int /\ ses'[f].send >= ses[f].send
  <2>1. \A f \in Endpoint : ses[f].send \in Int
    BY <1>0, MaxSequenceAssumption DEF TypeOK, Object
  <2> QED
    BY <1>2, <2>1 DEF Consumes, Same
<1>4. \A q \in records : q.seq \in Int
  BY <1>0 DEF TypeOK, Record
<1>5. ses[e].key # None /\ ses'[e].send = ses[e].send + 1
  BY <1>2 DEF Consumes
<1>6. MessagesWereSent'
  BY <1>1, <1>2, <1>3, <1>5 DEF Consumes, SInv, MessagesWereSent, Drawn
<1>7. RolesStay'
  BY <1>3 DEF SInv, RolesStay
<1>8. NumbersAreSpent'
  <2>1. \A f \in Endpoint : f # e /\ ses[f].role = "initiator" /\ r.dir = "i2r"
          => r.key.hello.sid # ses[f].sid
    BY <1>0, <1>1, <1>5 DEF SInv, RolesStay, Outward, TypeOK, Object
  <2>2. \A f \in Endpoint : f # e /\ ses[f].role = "responder" /\ r.dir = "r2i"
          => r.key # ses[f].key
    BY <1>0, <1>1, <1>5 DEF SInv, RolesStay, Outward, TypeOK, Object
  <2>3. \A f \in Endpoint :
          /\ ses[f].role = "initiator" /\ r.dir = "i2r" /\ r.key.hello.sid = ses[f].sid
               => r.seq < ses'[f].send
          /\ ses[f].role = "responder" /\ r.dir = "r2i" /\ r.key = ses[f].key
               => r.seq < ses'[f].send
    BY <1>1, <1>3, <1>5, <2>1, <2>2
  <2> QED
    BY <1>1, <1>3, <1>4, <2>3 DEF SInv, NumbersAreSpent
<1>9. NonceNeverReused'
  <2>1. \A q \in records :
          q.intact /\ q.key = r.key /\ q.dir = r.dir => q.seq # r.seq
    BY <1>1, <1>3, <1>4, <1>5, EncryptIsNew
  <2> QED
    BY <1>1, <2>1 DEF SInv, NonceNeverReused
<1> QED
  BY <1>6, <1>7, <1>8, <1>9 DEF SInv

\* A window that moves changes no key and no number.
LEMMA DecryptKeeps ==
  ASSUME SInv, Typed', NEW e \in Endpoint, NEW r \in records, Decrypt(e, r)
  PROVE  SInv'
<1>0. TypeOK
  BY DEF SInv, Typed
<1>1. /\ Same(e)
      /\ ses'[e].sid = ses[e].sid /\ ses'[e].key = ses[e].key
      /\ ses'[e].role = ses[e].role /\ ses'[e].hello = ses[e].hello
      /\ ses'[e].send = ses[e].send
      /\ UNCHANGED <<draws, hellos, acks, records>>
  BY <1>0, DecryptDoes
<1>2. \A f \in Endpoint :
        /\ ses'[f].sid = ses[f].sid /\ ses'[f].key = ses[f].key
        /\ ses'[f].role = ses[f].role /\ ses'[f].hello = ses[f].hello
        /\ ses'[f].send = ses[f].send
  BY <1>1 DEF Same
<1> QED
  BY <1>1, <1>2 DEF SInv, MessagesWereSent, Drawn, RolesStay, NumbersAreSpent,
                    NonceNeverReused

\* A new object has no key, so what it knew cannot be used again.
LEMMA RestartKeeps ==
  ASSUME SInv, Typed', NEW e \in Endpoint, NEW epoch \in Epochs, Restart(e, epoch)
  PROVE  SInv'
<1>0. Typed /\ TypeOK
  BY DEF SInv, Typed
<1>1. PICK d \in Draw :
             /\ d = <<e, draws[e]>>
             /\ Same(e)
             /\ ses'[e].sid = d /\ ses'[e].hello = None /\ ses'[e].key = None
             /\ ses'[e].role = "initiator"
             /\ draws' = [draws EXCEPT ![e] = @ + 1]
             /\ UNCHANGED <<hellos, acks, records, sends, opened>>
  BY <1>0, RestartDoes
<1>2. ~ Drawn(d) /\ Drawn(d)' /\ (\A b \in Draw : Drawn(b) => Drawn(b)')
  BY <1>0, <1>1, DrawnStay
<1>3. MessagesWereSent'
  <2>1. /\ \A f \in Endpoint : ses[f].sid \in Draw
        /\ \A g \in hellos : g.sid \in Draw
        /\ \A b \in acks : b.eph \in Draw
    BY <1>0 DEF TypeOK, Object, HelloMessage, AckMessage
  <2> QED
    BY <1>1, <1>2, <2>1 DEF SInv, MessagesWereSent, Same
<1>4. RolesStay'
  BY <1>1 DEF SInv, RolesStay, Same
<1>5. \A r \in records : r.key.hello.sid # d
  BY <1>2 DEF SInv, MessagesWereSent
<1>6. NumbersAreSpent'
  BY <1>1, <1>5 DEF SInv, NumbersAreSpent, Same
<1> QED
  BY <1>1, <1>3, <1>4, <1>6 DEF SInv, NonceNeverReused

\* A forged record is under no number of its own.
LEMMA ForgeKeeps ==
  ASSUME SInv, Typed', NEW r \in records, NEW seq \in Forgeries, Forge(r, seq)
  PROVE  SInv'
<1>0. Typed /\ TypeOK
  BY DEF SInv, Typed
<1>1. PICK q \in Record :
           /\ ~ q.intact /\ q.key = r.key
           /\ records' = records \cup {q}
           /\ UNCHANGED <<draws, ses, hellos, acks, sends, opened>>
  BY <1>0, ForgeDoes
<1>2. MessagesWereSent' /\ RolesStay'
  BY <1>1 DEF SInv, MessagesWereSent, Drawn, RolesStay
<1> QED
  BY <1>1, <1>2 DEF SInv, NumbersAreSpent, NonceNeverReused

\* The invariant is inductive when one endpoint initiates.
LEMMA NextSInv == OneInitiates /\ SInv /\ [Next]_vars => SInv'
<1> SUFFICES ASSUME OneInitiates, SInv, [Next]_vars PROVE SInv'
  OBVIOUS
<1>0. Typed'
  BY NextTyped DEF SInv
<1>1. CASE Tick
  BY <1>0, <1>1 DEF Tick, SInv, MessagesWereSent, Drawn, RolesStay, NumbersAreSpent,
                    NonceNeverReused
<1>2. CASE UNCHANGED vars
  BY <1>0, <1>2 DEF vars, SInv, MessagesWereSent, Drawn, RolesStay, NumbersAreSpent,
                    NonceNeverReused
<1> QED
  BY <1>0, <1>1, <1>2, HelloKeeps, RespondKeeps, AcceptAckKeeps, EncryptKeeps,
     DecryptKeeps, RestartKeeps, ForgeKeeps DEF Next

\* Where one agent initiates, no directional key meets one nonce twice, through
\* rekeys, second answers, restarts and retried hellos (secure_channel.py:158-177).
THEOREM NoncesAreNew == OneInitiates => (Spec => []NonceNeverReused)
<1> SUFFICES ASSUME OneInitiates PROVE Spec => []NonceNeverReused
  OBVIOUS
<1>1. SInv /\ [Next]_vars => SInv'
  BY NextSInv
<1>2. SInv => NonceNeverReused
  BY DEF SInv
<1> QED
  BY <1>1, <1>2, InitSInv, PTL DEF Spec

-----------------------------------------------------------------------------
(***************************************************************************)
(* Safety, where moreover an object calls hello once and an object that    *)
(* answers is kept: its memory of what it answered is all that stops a     *)
(* second answer.                                                          *)
(***************************************************************************)
OneHelloOneAnswer == OneInitiates /\ MaxHellos <= 1 /\ Restarter \subseteq Initiator

\* A session identifier names one hello and one answer.
HellosAreOne ==
  /\ \A h, g \in hellos : h.sid = g.sid => h = g
  /\ \A e \in Initiator : ses[e].count = 0 =>
       ses[e].hello = None /\ \A h \in hellos : h.sid # ses[e].sid

AnswersAreOne ==
  /\ \A a, b \in acks : a.sid = b.sid => a = b
  /\ \A a \in acks : a.from \notin Initiator /\ a.sid \in ses[a.from].answered

\* A key is derived from its hello and its answer and nothing else.
KeysAreDerived ==
  \A e \in Endpoint :
    LET s == ses[e] IN
    /\ s.hello # None =>
         s.pqc = s.hello.kem /\ s.eph = s.hello.eph /\ s.salt = s.hello.salt
    /\ s.key # None =>
         /\ s.key.hello.sid = s.sid /\ s.key.ack.sid = s.sid
         /\ s.key.pqc = s.key.hello.kem /\ s.key.x = {s.key.hello.eph, s.key.ack.eph}
         /\ s.salt = s.key.hello.salt

\* What moved a window: a record made under the key it is held with.
MovedBy(e, n) ==
  \E r \in records :
    r.intact /\ r.key = ses[e].key /\ r.dir = Inward(ses[e].role) /\ r.seq = n

WindowsHoldTaken ==
  \A e \in Endpoint :
    \/ ses[e].win = EmptyWindow
    \/ /\ ses[e].key # None
       /\ \A n \in ses[e].win.seen \cup {ses[e].win.highest} : MovedBy(e, n)

PInv == SInv /\ HellosAreOne /\ AnswersAreOne /\ KeysAreDerived /\ WindowsHoldTaken

\* A key is the four inputs it is derived from.
LEMMA KeysMatch ==
  ASSUME NEW k \in Key, NEW l \in Key,
         k.hello = l.hello, k.ack = l.ack, k.pqc = l.pqc, k.x = l.x
  PROVE  k = l
BY DEF Key

\* An initiator stays one, and only an initiator's object is replaced.
LEMMA InitiatorsInitiate ==
  ASSUME PInv, NEW e \in Endpoint
  PROVE  /\ e \in Initiator => ses[e].role = "initiator"
         /\ ses[e].hello # None => e \in Initiator
         /\ ses[e].role \in {"initiator", "responder"}
BY DEF PInv, SInv, RolesStay, Typed, TypeOK, Object

\* No keys are derived at first.
LEMMA InitPInv == Init => PInv
<1> SUFFICES ASSUME Init PROVE PInv
  OBVIOUS
<1>1. PICK epoch \in [Endpoint -> Epochs] :
             ses = [e \in Endpoint |-> NewObject(<<e, 0>>, epoch[e])]
  BY DEF Init
<1>2. \A e \in Endpoint :
        /\ ses[e].hello = None /\ ses[e].key = None /\ ses[e].win = EmptyWindow
  BY <1>1 DEF NewObject
<1>3. hellos = {} /\ acks = {}
  BY DEF Init
<1>4. HellosAreOne /\ AnswersAreOne
  BY <1>2, <1>3, SessionAssumption DEF HellosAreOne, AnswersAreOne
<1>5. KeysAreDerived
  BY <1>2 DEF KeysAreDerived
<1>6. WindowsHoldTaken
  BY <1>2 DEF WindowsHoldTaken, EmptyWindow
<1> QED
  BY <1>4, <1>5, <1>6, InitSInv DEF PInv

\* While records only grow, a window keeps what moved it.
LEMMA WindowsKeep ==
  ASSUME PInv, records \subseteq records',
         \A e \in Endpoint :
           \/ ses'[e].win = EmptyWindow
           \/ /\ ses'[e].win = ses[e].win /\ ses'[e].role = ses[e].role
              /\ ses[e].key # None => ses'[e].key = ses[e].key
  PROVE  WindowsHoldTaken'
BY SMTT(40) DEF PInv, WindowsHoldTaken, MovedBy

\* One hello per object: its secret is that of its only hello.
LEMMA HelloPairs ==
  ASSUME OneHelloOneAnswer, PInv, SInv', NEW e \in Endpoint, Hello(e)
  PROVE  PInv'
<1>0. TypeOK
  BY DEF PInv, SInv, Typed
<1>1. PICK h \in HelloMessage, d \in Draw :
           /\ e \in Initiator /\ ses[e].count < MaxHellos
           /\ h.sid = ses[e].sid /\ h.eph = ses[e].eph
           /\ h.salt = ses[e].salt /\ h.kem = d
           /\ hellos' = hellos \cup {h}
           /\ Same(e)
           /\ ses'[e].hello = h /\ ses'[e].pqc = d
           /\ ses'[e].count = ses[e].count + 1
           /\ ses'[e].sid = ses[e].sid /\ ses'[e].eph = ses[e].eph
           /\ ses'[e].salt = ses[e].salt /\ ses'[e].key = ses[e].key
           /\ ses'[e].role = ses[e].role
           /\ ses'[e].win = ses[e].win /\ ses'[e].answered = ses[e].answered
           /\ UNCHANGED <<acks, records>>
  BY <1>0, HelloDoes
<1>2. ses[e].count = 0 /\ ses'[e].count # 0
  <2>1. ses[e].count \in 0..MaxHellos /\ MaxHellos \in Nat
    BY <1>0, SessionAssumption DEF TypeOK, Object
  <2> QED
    BY <1>1, <2>1 DEF OneHelloOneAnswer
<1>3. HellosAreOne'
  <2>1. \A g \in hellos : g.sid # h.sid
    BY <1>1, <1>2 DEF PInv, HellosAreOne
  <2>2. \A f \in Initiator : f # e => f \in Endpoint /\ f = Peer(e)
    BY Peers, SessionAssumption
  <2>3. \A f \in Initiator : f = e
    BY <1>1, <2>2, Peers DEF OneHelloOneAnswer, OneInitiates
  <2> QED
    BY <1>1, <1>2, <2>1, <2>3 DEF PInv, HellosAreOne
<1>4. AnswersAreOne'
  BY <1>0, <1>1 DEF PInv, AnswersAreOne, Same, TypeOK, AckMessage
<1>5. KeysAreDerived'
  BY <1>1 DEF PInv, KeysAreDerived, Same
<1>6. WindowsHoldTaken'
  BY <1>1, WindowsKeep DEF Same
<1> QED
  BY <1>3, <1>4, <1>5, <1>6 DEF PInv

\* One answer per hello: the responder's key is that of the only answer.
LEMMA RespondPairs ==
  ASSUME OneHelloOneAnswer, PInv, SInv', NEW e \in Endpoint, NEW h \in hellos,
         Respond(e, h)
  PROVE  PInv'
<1>0. TypeOK
  BY DEF PInv, SInv, Typed
<1>1. PICK a \in AckMessage, k \in Key :
           /\ h.from = Peer(e) /\ h.sid \notin ses[e].answered
           /\ a.from = e /\ a.sid = h.sid
           /\ k = [hello |-> h, ack |-> a, pqc |-> h.kem, x |-> {h.eph, a.eph}]
           /\ acks' = acks \cup {a}
           /\ Same(e)
           /\ ses'[e].sid = h.sid /\ ses'[e].salt = h.salt
           /\ ses'[e].key = k
           /\ ses'[e].win = EmptyWindow
           /\ ses'[e].answered = ses[e].answered \cup {h.sid}
           /\ ses'[e].hello = ses[e].hello
           /\ UNCHANGED <<hellos, records>>
  BY <1>0, RespondDoes
<1>2. e \notin Initiator /\ Peer(e) \in Initiator /\ ses[e].hello = None
  BY <1>1, Peers DEF OneHelloOneAnswer, OneInitiates, PInv, SInv, MessagesWereSent, RolesStay
<1>3. \A f \in Endpoint : f \notin Initiator => f = e
  BY <1>2, Peers
<1>4. \A b \in acks : b.from \in Endpoint
  BY <1>0 DEF TypeOK, AckMessage
<1>5. HellosAreOne'
  BY <1>1, <1>2, SessionAssumption DEF PInv, HellosAreOne, Same
<1>6. AnswersAreOne'
  <2>1. \A b \in acks : b.sid # a.sid
    BY <1>1, <1>3, <1>4 DEF PInv, AnswersAreOne
  <2>2. \A b \in acks' : b.from \notin Initiator /\ b.sid \in ses'[b.from].answered
    BY <1>1, <1>2, <1>4 DEF PInv, AnswersAreOne, Same
  <2> QED
    BY <1>1, <2>1, <2>2 DEF PInv, AnswersAreOne
<1>7. KeysAreDerived'
  <2>1. k.hello = h /\ k.ack = a /\ k.pqc = h.kem /\ k.x = {h.eph, a.eph}
    BY <1>1
  <2> QED
    BY <1>1, <1>2, <2>1 DEF PInv, KeysAreDerived, Same
<1>8. WindowsHoldTaken'
  <2>1. records \subseteq records'
    BY <1>1
  <2>2. \A f \in Endpoint :
          \/ ses'[f].win = EmptyWindow
          \/ ses'[f] = ses[f]
    BY <1>1 DEF Same
  <2> QED
    BY <2>1, <2>2, WindowsKeep
<1> QED
  BY <1>5, <1>6, <1>7, <1>8 DEF PInv

\* The only answer to an initiator's hello gives the responder's key.
LEMMA AcceptAckPairs ==
  ASSUME PInv, SInv', NEW e \in Endpoint, NEW a \in acks, AcceptAck(e, a)
  PROVE  PInv'
<1>0. Typed /\ TypeOK
  BY DEF PInv, SInv, Typed
<1>1. PICK k \in Key :
           /\ ses[e].hello # None /\ a.sid = ses[e].sid
           /\ k = [hello |-> ses[e].hello, ack |-> a, pqc |-> ses[e].pqc,
                   x |-> {ses[e].eph, a.eph}]
           /\ Same(e)
           /\ ses'[e].key = k
           /\ ses'[e].sid = ses[e].sid /\ ses'[e].eph = ses[e].eph
           /\ ses'[e].salt = ses[e].salt /\ ses'[e].hello = ses[e].hello
           /\ ses'[e].pqc = ses[e].pqc /\ ses'[e].count = ses[e].count
           /\ ses'[e].role = ses[e].role
           /\ ses'[e].win = ses[e].win /\ ses'[e].answered = ses[e].answered
           /\ UNCHANGED <<hellos, acks, records>>
  BY <1>0, AcceptAckDoes
<1>2. /\ k.hello = ses[e].hello /\ k.ack = a /\ k.pqc = ses[e].pqc
      /\ k.x = {ses[e].eph, a.eph}
  BY <1>1
<1>3. /\ ses[e].hello \in hellos /\ ses[e].hello.sid = ses[e].sid
      /\ ses[e].pqc = ses[e].hello.kem /\ ses[e].eph = ses[e].hello.eph
      /\ ses[e].salt = ses[e].hello.salt
  BY <1>1 DEF PInv, SInv, MessagesWereSent, RolesStay, KeysAreDerived
<1>4. ses[e].key # None => k = ses[e].key
  <2> SUFFICES ASSUME ses[e].key # None PROVE k = ses[e].key
    OBVIOUS
  <2>1. ses[e].key \in Key
    BY <1>0 DEF TypeOK, Object
  <2>2. ses[e].key.hello \in hellos /\ ses[e].key.ack \in acks
    BY DEF PInv, SInv, MessagesWereSent
  <2>3. /\ ses[e].key.hello.sid = ses[e].sid /\ ses[e].key.ack.sid = ses[e].sid
        /\ ses[e].key.pqc = ses[e].key.hello.kem
        /\ ses[e].key.x = {ses[e].key.hello.eph, ses[e].key.ack.eph}
    BY DEF PInv, KeysAreDerived
  <2>4. ses[e].key.hello = ses[e].hello /\ ses[e].key.ack = a
    BY <1>1, <1>3, <2>2, <2>3 DEF PInv, HellosAreOne, AnswersAreOne
  <2>5. k.hello = ses[e].key.hello /\ k.ack = ses[e].key.ack
    BY <1>2, <2>4
  <2>6. k.pqc = ses[e].key.pqc /\ k.x = ses[e].key.x
    BY <1>2, <1>3, <2>3, <2>4
  <2> QED
    BY <2>1, <2>5, <2>6, KeysMatch
<1>6. HellosAreOne' /\ AnswersAreOne'
  BY <1>0, <1>1, SessionAssumption
     DEF PInv, HellosAreOne, AnswersAreOne, Same, TypeOK, AckMessage
<1>7. KeysAreDerived'
  BY <1>1, <1>2, <1>3 DEF PInv, KeysAreDerived, Same
<1>8. WindowsHoldTaken'
  <2>1. \A f \in Endpoint :
          /\ ses'[f].win = ses[f].win /\ ses'[f].role = ses[f].role
          /\ ses[f].key # None => ses'[f].key = ses[f].key
    BY <1>1, <1>4 DEF Same
  <2>2. records \subseteq records'
    BY <1>1
  <2> QED
    BY <2>1, <2>2, WindowsKeep
<1> QED
  BY <1>6, <1>7, <1>8 DEF PInv

\* Sending moves no window.
LEMMA ConsumePairs ==
  ASSUME PInv, SInv', NEW e \in Endpoint, Encrypt(e)
  PROVE  PInv'
<1>0. TypeOK
  BY DEF PInv, SInv, Typed
<1>1. /\ Same(e)
      /\ ses'[e].key = ses[e].key
      /\ ses'[e].sid = ses[e].sid /\ ses'[e].eph = ses[e].eph
      /\ ses'[e].salt = ses[e].salt /\ ses'[e].hello = ses[e].hello
      /\ ses'[e].pqc = ses[e].pqc /\ ses'[e].count = ses[e].count
      /\ ses'[e].role = ses[e].role
      /\ ses'[e].win = ses[e].win /\ ses'[e].answered = ses[e].answered
      /\ UNCHANGED <<hellos, acks>>
  BY <1>0, EncryptConsumes DEF Consumes
<1>2. records \subseteq records'
  BY DEF Encrypt
<1>3. HellosAreOne' /\ AnswersAreOne'
  BY <1>0, <1>1, SessionAssumption
     DEF PInv, HellosAreOne, AnswersAreOne, Same, TypeOK, AckMessage
<1>4. KeysAreDerived'
  BY <1>1 DEF PInv, KeysAreDerived, Same
<1>5. WindowsHoldTaken'
  BY <1>1, <1>2, WindowsKeep DEF Same
<1> QED
  BY <1>3, <1>4, <1>5 DEF PInv

\* A window moves to the number of a record it took.
LEMMA DecryptPairs ==
  ASSUME PInv, SInv', NEW e \in Endpoint, NEW r \in records, Decrypt(e, r)
  PROVE  PInv'
<1>0. TypeOK
  BY DEF PInv, SInv, Typed
<1>1. /\ ses[e].key # None
      /\ r.intact /\ r.key = ses[e].key /\ r.dir = Inward(ses[e].role)
      /\ Same(e)
      /\ ses'[e].win = Advance(ses[e].win, r.seq)
      /\ ses'[e].key = ses[e].key
      /\ ses'[e].sid = ses[e].sid /\ ses'[e].eph = ses[e].eph
      /\ ses'[e].salt = ses[e].salt /\ ses'[e].hello = ses[e].hello
      /\ ses'[e].pqc = ses[e].pqc /\ ses'[e].count = ses[e].count
      /\ ses'[e].role = ses[e].role
      /\ ses'[e].answered = ses[e].answered
      /\ UNCHANGED <<hellos, acks, records>>
      /\ CanAccept(ses[e].win, r.seq)
  BY <1>0, DecryptDoes
<1>2. HellosAreOne' /\ AnswersAreOne'
  BY <1>0, <1>1, SessionAssumption
     DEF PInv, HellosAreOne, AnswersAreOne, Same, TypeOK, AckMessage
<1>3. KeysAreDerived'
  BY <1>1 DEF PInv, KeysAreDerived, Same
<1>4. WindowsHoldTaken'
  <2>1. MovedBy(e, r.seq)
    BY <1>1 DEF MovedBy
  <2>2. \A n \in ses'[e].win.seen \cup {ses'[e].win.highest} :
          n = r.seq \/ n \in ses[e].win.seen \cup {ses[e].win.highest}
    BY <1>1 DEF Advance
  <2>3. ses[e].win = EmptyWindow =>
          \A n \in ses'[e].win.seen \cup {ses'[e].win.highest} : n = r.seq
    BY <1>1 DEF Advance, EmptyWindow, CanAccept
  <2>4. \A n \in ses'[e].win.seen \cup {ses'[e].win.highest} : MovedBy(e, n)
    BY <2>1, <2>2, <2>3 DEF PInv, WindowsHoldTaken
  <2>5. \A n : MovedBy(e, n) => MovedBy(e, n)'
    BY <1>1 DEF MovedBy
  <2>6. \A f \in Endpoint, n \in Int : f # e /\ MovedBy(f, n) => MovedBy(f, n)'
    BY <1>1 DEF MovedBy, Same
  <2>7. \A f \in Endpoint : f # e => ses'[f] = ses[f]
    BY <1>1 DEF Same
  <2>8. \A f \in Endpoint : ses[f].win.seen \cup {ses[f].win.highest} \subseteq Int
    BY <1>0 DEF TypeOK, Object, WindowType
  <2>9. ses'[e].key # None /\ \A n \in ses'[e].win.seen \cup {ses'[e].win.highest} : MovedBy(e, n)'
    BY <1>1, <2>4, <2>5
  <2> QED
    BY <2>6, <2>7, <2>8, <2>9 DEF PInv, WindowsHoldTaken
<1> QED
  BY <1>2, <1>3, <1>4 DEF PInv

\* Only the initiator is replaced, by an object that has sent no hello yet.
LEMMA RestartPairs ==
  ASSUME OneHelloOneAnswer, PInv, SInv', NEW e \in Endpoint, NEW epoch \in Epochs,
         Restart(e, epoch)
  PROVE  PInv'
<1>0. TypeOK
  BY DEF PInv, SInv, Typed
<1>1. PICK d \in Draw :
             /\ e \in Restarter /\ d = <<e, draws[e]>>
             /\ Same(e)
             /\ ses'[e].sid = d
             /\ ses'[e].hello = None /\ ses'[e].key = None
             /\ ses'[e].win = EmptyWindow
             /\ draws' = [draws EXCEPT ![e] = @ + 1]
             /\ UNCHANGED <<hellos, acks, records>>
  BY <1>0, RestartDoes
<1>2. e \in Initiator
  BY <1>1 DEF OneHelloOneAnswer
<1>3. \A h \in hellos : h.sid # d
  BY <1>0, <1>1, DrawnStay DEF PInv, SInv, MessagesWereSent
<1>4. HellosAreOne'
  BY <1>1, <1>3, SessionAssumption DEF PInv, HellosAreOne, Same
<1>5. AnswersAreOne'
  BY <1>0, <1>1, <1>2 DEF PInv, AnswersAreOne, Same, TypeOK, AckMessage
<1>6. KeysAreDerived'
  BY <1>1 DEF PInv, KeysAreDerived, Same
<1>7. WindowsHoldTaken'
  <2>1. \A f \in Endpoint : ses'[f].win = EmptyWindow \/ ses'[f] = ses[f]
    BY <1>1 DEF Same
  <2>2. records \subseteq records'
    BY <1>1
  <2> QED
    BY <2>1, <2>2, WindowsKeep
<1> QED
  BY <1>4, <1>5, <1>6, <1>7 DEF PInv

\* The invariant is inductive when hellos and answers are one to one.
LEMMA NextPInv == OneHelloOneAnswer /\ PInv /\ [Next]_vars => PInv'
<1> SUFFICES ASSUME OneHelloOneAnswer, PInv, [Next]_vars PROVE PInv'
  OBVIOUS
<1>0. SInv'
  BY NextSInv DEF PInv, OneHelloOneAnswer
<1>1. ASSUME UNCHANGED <<ses, hellos, acks>>, records \subseteq records'
      PROVE  PInv'
  <2>1. WindowsHoldTaken'
    BY <1>1, WindowsKeep
  <2> QED
    BY <1>0, <1>1, <2>1 DEF PInv, HellosAreOne, AnswersAreOne, KeysAreDerived
<1>2. ASSUME NEW r \in records, NEW seq \in Forgeries, Forge(r, seq)
      PROVE  PInv'
  BY <1>1, <1>2 DEF Forge
<1>3. CASE Tick
  BY <1>1, <1>3 DEF Tick
<1>4. CASE UNCHANGED vars
  BY <1>1, <1>4 DEF vars
<1> QED
  BY <1>0, <1>2, <1>3, <1>4, HelloPairs, RespondPairs, AcceptAckPairs, ConsumePairs,
     DecryptPairs, RestartPairs DEF Next

\* One hello and one answer per session make one key.
LEMMA SameKey == PInv => SameSessionSameKey
<1> SUFFICES ASSUME PInv, NEW e \in Endpoint,
                    ses[e].key # None, ses[Peer(e)].key # None,
                    ses[e].sid = ses[Peer(e)].sid
             PROVE  /\ ses[e].key = ses[Peer(e)].key /\ ses[e].salt = ses[Peer(e)].salt
                    /\ ses[e].role # ses[Peer(e)].role
  BY DEF SameSessionSameKey
<1> DEFINE f == Peer(e)
           k == ses[e].key
           l == ses[f].key
<1>0. TypeOK
  BY DEF PInv, SInv, Typed
<1>1. f \in Endpoint /\ f # e
  BY Peers
<1>2. k \in Key /\ l \in Key
  BY <1>0, <1>1 DEF TypeOK, Object
<1>3. k.hello \in hellos /\ k.ack \in acks /\ l.hello \in hellos /\ l.ack \in acks
  BY <1>1 DEF PInv, SInv, MessagesWereSent
<1>4. /\ k.hello.sid = ses[e].sid /\ k.ack.sid = ses[e].sid
      /\ k.pqc = k.hello.kem /\ k.x = {k.hello.eph, k.ack.eph}
      /\ ses[e].salt = k.hello.salt
      /\ l.hello.sid = ses[f].sid /\ l.ack.sid = ses[f].sid
      /\ l.pqc = l.hello.kem /\ l.x = {l.hello.eph, l.ack.eph}
      /\ ses[f].salt = l.hello.salt
  BY <1>1 DEF PInv, KeysAreDerived
<1>5. k.hello = l.hello /\ k.ack = l.ack
  BY <1>3, <1>4 DEF PInv, HellosAreOne, AnswersAreOne
<1>6. k = l
  <2>1. k.pqc = l.pqc /\ k.x = l.x
    BY <1>4, <1>5
  <2> HIDE DEF k, l
  <2> QED
    BY <1>2, <1>5, <2>1, KeysMatch
<1>7. ses[e].role # ses[f].role
  BY <1>0, <1>1, <1>6 DEF PInv, SInv, RolesStay, TypeOK, Object
<1> QED
  BY <1>4, <1>6, <1>7

\* A window that holds what it took is behind every record that is new.
LEMMA NextAcceptable == PInv => NextRecordAcceptable
<1> SUFFICES ASSUME PInv, NEW e \in Endpoint,
                    ses[e].key # None, ses[e].key = ses[Peer(e)].key,
                    ses[e].send <= MaxSequence
             PROVE  CanAccept(ses[Peer(e)].win, ses[e].send)
  BY DEF NextRecordAcceptable
<1> DEFINE f == Peer(e)
           w == ses[f].win
           n == ses[e].send
<1>0. TypeOK
  BY DEF PInv, SInv, Typed
<1>1. f \in Endpoint /\ Peer(f) = e
  BY Peers
<1>2. n \in 0..MaxSequence /\ w \in WindowType
  BY <1>0, <1>1, MaxSequenceAssumption DEF TypeOK, Object
<1>3. Inward(ses[f].role) = Outward(ses[e].role)
  <2>1. ses[e].sid = ses[f].sid
    BY <1>1 DEF PInv, KeysAreDerived
  <2>2. ses[e].role # ses[f].role
    BY <1>1, <2>1, SameKey DEF SameSessionSameKey
  <2> QED
    BY <1>0, <1>1, <2>2 DEF TypeOK, Object, Inward, Outward
<1>4. \A m \in Int : MovedBy(f, m) => m < n
  BY <1>1, <1>3, EncryptIsNew DEF MovedBy, PInv
<1>5. w = EmptyWindow \/ \A m \in w.seen \cup {w.highest} : m < n
  BY <1>1, <1>2, <1>4 DEF PInv, WindowsHoldTaken, WindowType
<1>6. w.highest < n /\ n \notin w.seen
  BY <1>2, <1>5 DEF EmptyWindow
<1> QED
  BY <1>2, <1>6, WindowAssumption DEF CanAccept, WindowType

\* Where one agent initiates with one hello per object and the other keeps its
\* object, ends established in one session hold one key, one salt and opposite
\* roles (secure_channel.py:118-150, 209-243).
THEOREM EndsAgree == OneHelloOneAnswer => (Spec => []SameSessionSameKey)
<1> SUFFICES ASSUME OneHelloOneAnswer PROVE Spec => []SameSessionSameKey
  OBVIOUS
<1>1. PInv /\ [Next]_vars => PInv'
  BY NextPInv
<1> QED
  BY <1>1, InitPInv, SameKey, PTL DEF Spec

\* There too the receiver takes the number its peer uses next, whatever was
\* lost, repeated, reordered or altered before (secure_channel.py:70-89, 158-207).
THEOREM NextRecordIsTaken == OneHelloOneAnswer => (Spec => []NextRecordAcceptable)
<1> SUFFICES ASSUME OneHelloOneAnswer PROVE Spec => []NextRecordAcceptable
  OBVIOUS
<1>1. PInv /\ [Next]_vars => PInv'
  BY NextPInv
<1> QED
  BY <1>1, InitPInv, NextAcceptable, PTL DEF Spec

-----------------------------------------------------------------------------
(***************************************************************************)
(* One window object under any calls (ReplayWindow): types, the inductive  *)
(* fact that the pruned window summarises the whole history, and the       *)
(* refinement of IdealWindow.                                              *)
(***************************************************************************)
WindowInv == WindowTypeOK /\ WindowSummarisesHistory

\* The probe decrypt makes before it authenticates and the refusals of accept
\* are exact complements: what passed the probe is not refused afterwards.
LEMMA ProbeIsComplement ==
  ASSUME NEW w \in WindowType, NEW s \in Int
  PROVE  CanAccept(w, s) <=> ~ Refuses(w, s)
BY WindowAssumption, MaxSequenceAssumption DEF CanAccept, Refuses, WindowType

\* Under the invariant, what the window refuses is what the history forbids.
LEMMA WindowDecidesAsIdeal ==
  ASSUME WindowInv, NEW s \in Int
  PROVE  /\ Ideal!Acceptable(s) <=> ~ Refuses(window, s)
         /\ Ideal!Acceptable(s) <=> CanAccept(window, s)
<1> USE WindowAssumption, MaxSequenceAssumption
<1>1. /\ window.highest \in Int
      /\ accepted \subseteq 0..MaxSequence
      /\ window \in WindowType
  BY DEF WindowInv, WindowTypeOK, WindowType
<1>2. ASSUME s \in 0..MaxSequence
      PROVE  (s \notin accepted /\ \A a \in accepted : s > a - Window)
               <=> (s > window.highest - Window /\ s \notin window.seen)
  <2>1. CASE accepted = {}
    BY <1>2, <2>1 DEF WindowInv, WindowSummarisesHistory
  <2>2. CASE accepted # {}
    <3>1. /\ window.highest \in accepted
          /\ window.seen = {a \in accepted : a > window.highest - Window}
          /\ \A a \in accepted : a <= window.highest
      BY <2>2 DEF WindowInv, WindowSummarisesHistory
    <3>2. (\A a \in accepted : s > a - Window) <=> s > window.highest - Window
      BY <1>1, <1>2, <3>1
    <3> QED BY <1>1, <1>2, <3>1, <3>2
  <2> QED BY <2>1, <2>2
<1>3. Ideal!Acceptable(s) <=> CanAccept(window, s)
  BY <1>2 DEF Ideal!Acceptable, CanAccept
<1> QED BY <1>1, <1>3, ProbeIsComplement

\* An empty window summarises an empty history.
LEMMA InitWindowInv == WindowInit => WindowInv
<1> SUFFICES ASSUME WindowInit PROVE WindowInv
  OBVIOUS
<1>1. /\ window.highest = -1
      /\ window.seen = {}
      /\ window \in WindowType
  BY DEF WindowInit, EmptyWindow, WindowType
<1> QED BY <1>1 DEF WindowInit, WindowInv, WindowTypeOK, WindowSummarisesHistory

\* Whatever the argument, the window goes on summarising the history.
LEMMA NextWindowInv == WindowInv /\ [WindowNext]_windowVars => WindowInv'
<1> SUFFICES ASSUME WindowInv, [WindowNext]_windowVars PROVE WindowInv'
  OBVIOUS
<1> USE WindowAssumption, MaxSequenceAssumption
<1>1. ASSUME NEW s \in Input, Accept(s)
      PROVE  WindowInv'
  <2>0. s \in Int
    BY InputAssumption
  <2>1. CASE Refuses(window, s) /\ reply' = FALSE /\ UNCHANGED <<window, accepted>>
    BY <2>1 DEF WindowInv, WindowTypeOK, WindowSummarisesHistory
  <2>2. CASE /\ ~ Refuses(window, s)
             /\ reply' = TRUE
             /\ window' = Advance(window, s)
             /\ accepted' = accepted \cup {s}
    <3>1. /\ s \in 0..MaxSequence
          /\ s > window.highest - Window
          /\ window.highest \in Int
          /\ window.seen \subseteq Int
          /\ accepted \subseteq Int
          /\ window.seen = {a \in accepted : a > window.highest - Window}
          /\ \A a \in accepted : a <= window.highest
      BY <2>0, <2>2 DEF Refuses, WindowInv, WindowTypeOK, WindowType, WindowSummarisesHistory
    <3> DEFINE top == IF s > window.highest THEN s ELSE window.highest
    <3>2. /\ top \in Int /\ top >= s /\ top >= window.highest
          /\ window'.highest = top
          /\ window'.seen = {x \in window.seen \cup {s} : x > top - Window}
          /\ window' \in WindowType
      BY <2>0, <2>2, <3>1 DEF Advance, WindowType
    <3>3. WindowTypeOK'
      BY <2>2, <3>1, <3>2 DEF WindowInv, WindowTypeOK
    <3>4. {x \in window.seen \cup {s} : x > top - Window}
            = {a \in accepted \cup {s} : a > top - Window}
      <4> HIDE DEF top
      <4>1. ASSUME NEW x \in Int, x > top - Window
            PROVE  x > window.highest - Window
        BY <3>1, <3>2, <4>1
      <4>2. ASSUME NEW x
            PROVE  (x \in window.seen \cup {s} /\ x > top - Window)
                     <=> (x \in accepted \cup {s} /\ x > top - Window)
        BY <2>0, <3>1, <4>1
      <4> QED BY <4>2
    <3>5. \A a \in accepted' : a <= window'.highest
      BY <2>0, <2>2, <3>1, <3>2
    <3>6. window'.highest \in accepted'
      <4>1. CASE s > window.highest
        BY <2>2, <3>2, <4>1
      <4>2. CASE ~ (s > window.highest)
        <5>1. window.highest # -1
          BY <2>0, <3>1, <4>2
        <5> QED BY <2>2, <3>2, <4>2, <5>1 DEF WindowInv, WindowSummarisesHistory
      <4> QED BY <4>1, <4>2
    <3> QED BY <2>2, <3>2, <3>3, <3>4, <3>5, <3>6 DEF WindowInv, WindowSummarisesHistory
  <2> QED BY <1>1, <2>1, <2>2 DEF Accept
<1>2. ASSUME NEW s \in Input, Probe(s)
      PROVE  WindowInv'
  BY <1>2 DEF Probe, CanAccept, WindowInv, WindowTypeOK, WindowSummarisesHistory
<1>3. CASE UNCHANGED windowVars
  BY <1>3 DEF windowVars, WindowInv, WindowTypeOK, WindowSummarisesHistory
<1> QED BY <1>1, <1>2, <1>3 DEF WindowNext

\* For every window size the variables keep their types and the pruned set
\* with its highest number is exactly what the history of accepted numbers
\* leaves inside the window (accept, secure_channel.py:76-85).
THEOREM WindowInvariant == WindowSpec => [](WindowTypeOK /\ WindowSummarisesHistory)
<1>1. WindowInit => WindowInv
  BY InitWindowInv
<1>2. WindowInv /\ [WindowNext]_windowVars => WindowInv'
  BY NextWindowInv
<1> QED BY <1>1, <1>2, PTL DEF WindowSpec, WindowInv

\* A ReplayWindow object answers every call as a window that remembers every
\* number it ever accepted: the refinement of IdealWindow, for every Window,
\* MaxSequence and Input.
THEOREM ReplayWindowImplementsIdeal == WindowSpec => ImplementsIdeal
<1>1. WindowInit => Ideal!Init
  BY DEF WindowInit, Ideal!Init
<1>2. WindowInv /\ [WindowNext]_windowVars => [Ideal!Next]_<<accepted, reply>>
  <2> SUFFICES ASSUME WindowInv, [WindowNext]_windowVars
               PROVE  [Ideal!Next]_<<accepted, reply>>
    OBVIOUS
  <2>1. ASSUME NEW s \in Input, Accept(s)
        PROVE  Ideal!Accept(s)
    <3>1. Ideal!Acceptable(s) <=> ~ Refuses(window, s)
      BY WindowDecidesAsIdeal, InputAssumption
    <3>2. Ideal!Acceptable(s) \in BOOLEAN
      BY DEF Ideal!Acceptable
    <3>3. CASE Ideal!Acceptable(s)
      <4>1. reply' = TRUE /\ accepted' = accepted \cup {s}
        BY <2>1, <3>1, <3>3, Zenon DEF Accept
      <4> QED BY <3>2, <3>3, <4>1 DEF Ideal!Accept
    <3>4. CASE ~ Ideal!Acceptable(s)
      <4>1. reply' = FALSE /\ accepted' = accepted
        BY <2>1, <3>1, <3>4, Zenon DEF Accept
      <4> QED BY <3>2, <3>4, <4>1 DEF Ideal!Accept
    <3> QED BY <3>3, <3>4
  <2>2. ASSUME NEW s \in Input, Probe(s)
        PROVE  Ideal!Probe(s)
    <3>1. Ideal!Acceptable(s) <=> CanAccept(window, s)
      BY WindowDecidesAsIdeal, InputAssumption
    <3>2. Ideal!Acceptable(s) \in BOOLEAN /\ CanAccept(window, s) \in BOOLEAN
      BY DEF Ideal!Acceptable, CanAccept
    <3> QED BY <2>2, <3>1, <3>2 DEF Probe, Ideal!Probe
  <2>3. CASE UNCHANGED windowVars
    BY <2>3 DEF windowVars
  <2> QED BY <2>1, <2>2, <2>3 DEF WindowNext, Ideal!Next
<1>3. WindowSpec => []WindowInv
  BY InitWindowInv, NextWindowInv, PTL DEF WindowSpec
<1> QED BY <1>1, <1>2, <1>3, PTL DEF WindowSpec, ImplementsIdeal, Ideal!Spec
=============================================================================
