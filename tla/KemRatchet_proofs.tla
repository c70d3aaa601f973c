-------------------------- MODULE KemRatchet_proofs --------------------------
(***************************************************************************)
(* What is proved of the ratchet, for any limits, any number of tokens,    *)
(* messages, saves and loads, and either or both ends sealing.             *)
(***************************************************************************)
EXTENDS KemRatchet, FiniteSetTheorems, TLAPS

\* load_state gives an object the default limits (protocol.py:510).  Those of
\* the constructor are no larger; else an object may come back over its limit.
LoadsHaveRoom == QueueLimit <= LoadedQueueLimit /\ UsedLimit <= LoadedUsedLimit

Elems(s) == {s[i] : i \in 1..Len(s)}

\* TypeOK but for the limits.
Shapes ==
  /\ rat \in [Party -> Ratchet] /\ disk \in [Party -> SUBSET Ratchet]
  /\ tokens \in [Party -> 0..MaxTokens]
  /\ net \subseteq Message
  /\ sealed \in [Party -> Seq(Id)] /\ opened \in [Party -> Seq(Id)]
  /\ clock \in 0..MaxTime
  /\ when \in [Party -> Seq(0..clock)]
  /\ DOMAIN ledger = Party
  /\ \A p \in Party : Len(when[p]) = Len(opened[p]) /\ CacheFits(ledger[p], clock)
  /\ rolled \subseteq Party

\* An object in memory is within its limits, and no object, in memory or in a
\* file, holds more than it may after a load.
StatesFit ==
  /\ \A p \in Party : /\ Cardinality(rat[p].queue) <= rat[p].queueLimit
                      /\ Cardinality(rat[p].used) <= rat[p].usedLimit
                      /\ rat[p].queueLimit <= LoadedQueueLimit
                      /\ rat[p].usedLimit <= LoadedUsedLimit
  /\ \A p \in Party : \A s \in disk[p] :
       /\ Cardinality(s.queue) <= LoadedQueueLimit
       /\ Cardinality(s.used) <= LoadedUsedLimit

\* An end's n-th message is numbered n and carries a token of the other end.
MessagesAreNumbered ==
  /\ \A p \in Party : \A i \in 1..Len(sealed[p]) : sealed[p][i] = <<p, i>>
  /\ \A m \in net :
       /\ m.id[2] <= Len(sealed[m.id[1]])
       /\ m.token[1] = Peer(m.id[1]) /\ m.token[2] <= tokens[m.token[1]]
  /\ \A m, k \in net : m.id = k.id => m.token = k.token /\ m.chain = k.chain

\* What an end opened was sealed by the other, and its replay cache remembers
\* nothing else.
OpenedWereSealed ==
  /\ \A p \in Party : \A d \in Elems(opened[p]) :
       d[1] = Peer(p) /\ d[2] <= Len(sealed[Peer(p)])
  /\ \A p \in Party : DOMAIN ledger[p] \subseteq Elems(opened[p])

\* An end that kept its state remembers every token it used ...
UsedAreKnown ==
  \A m \in net : m.id[1] \notin rolled => m.token \in rat[m.id[1]].used

\* ... and holds, of the tokens it generated, those no opened message carried.
TokensAreKept ==
  \A p \in Party \ rolled, t \in Token :
    t[1] = p /\ t[2] <= tokens[p] /\ t \notin rat[p].queue =>
      \E m \in net : m.intact /\ m.token = t /\ m.id \in Elems(opened[p])

\* What a chain holds, of its own end's secrets and of the other's.
ChainsAreComplete ==
  /\ \A p \in Party, d \in Id :
       d \in Elems(rat[p].chain) <=>
         d[2] <= Len(IF d[1] = p THEN sealed[p] ELSE opened[p])
  /\ \A m \in net : \A d \in Id : d[1] = m.id[1] =>
       (d \in {m.chain[i] : i \in 1..(Len(m.chain) - 1)} <=> d[2] < m.id[2])
  /\ \A p \in Party : \A i \in 1..Len(opened[p]) : opened[p][i] = <<Peer(p), i>>

\* While one end has sealed nothing, the chains hold the other's secrets only,
\* and every message of the other is on the channel.
OneWay ==
  \A p \in Party :
    sealed[Peer(p)] = <<>> =>
      /\ rat[p].chain = sealed[p] /\ rat[Peer(p)].chain = opened[Peer(p)]
      /\ \A m \in net : m.id[1] = p =>
           Len(m.chain) = m.id[2] /\ \A i \in 1..m.id[2] : m.chain[i] = <<p, i>>

AllAreSent ==
  \A p \in Party : \A n \in 1..Len(sealed[p]) :
    \E m \in net : m.id = <<p, n>> /\ m.intact

InStep == rolled = {} => ChainsAreComplete /\ OneWay

RInv ==
  /\ Shapes /\ MessagesAreNumbered /\ OpenedWereSealed
  /\ TokenCarriesOneMessage /\ UsedAreKnown /\ SpentTokensAreGone
  /\ TokensAreKept /\ AllAreSent

-----------------------------------------------------------------------------
(***************************************************************************)
(* Ends, sequences and sets of tokens.                                     *)
(***************************************************************************)
\* There are two ends, each the other's peer.
LEMMA Peers ==
  ASSUME NEW p \in Party
  PROVE  Peer(p) \in Party /\ Peer(p) # p /\ Peer(Peer(p)) = p /\ Party = {p, Peer(p)}
<1>1. PICK a, b \in Party : a # b /\ Party = {a, b}
  BY RatchetAssumption
<1>2. Peer(a) = b /\ Peer(b) = a
  BY <1>1 DEF Peer
<1> QED
  BY <1>1, <1>2

\* A sequence with one identifier more.
LEMMA AppendFacts ==
  ASSUME NEW s \in Seq(Id), NEW x \in Id, NEW u, u = Append(s, x)
  PROVE  /\ u \in Seq(Id) /\ Len(s) \in Nat /\ Len(u) = Len(s) + 1
         /\ u[Len(s) + 1] = x
         /\ \A i \in 1..Len(s) : u[i] = s[i]
         /\ Elems(u) = Elems(s) \cup {x}
BY DEF Elems

\* A message identifier is the pair of its end and its number.
LEMMA Ids ==
  ASSUME NEW d \in Id
  PROVE  d[1] \in Party /\ d[2] \in 1..MaxSeals /\ d[2] \in Nat /\ d = <<d[1], d[2]>>
BY RatchetAssumption DEF Id

\* There are two ends.
LEMMA PartyIsFinite == IsFiniteSet(Party)
<1>1. PICK a, b \in Party : Party = {a, b}
  BY RatchetAssumption
<1>2. IsFiniteSet({a})
  BY FS_Singleton
<1>3. IsFiniteSet({a} \cup {b})
  BY <1>2, FS_AddElement
<1>4. {a, b} = {a} \cup {b}
  OBVIOUS
<1> QED
  BY <1>1, <1>3, <1>4

\* The tokens are finitely many, so queues can be counted.
LEMMA TokensAreFinite ==
  ASSUME NEW S \in SUBSET Token
  PROVE  IsFiniteSet(S) /\ Cardinality(S) \in Nat
<1>1. IsFiniteSet(1..MaxTokens)
  BY RatchetAssumption, FS_Interval
<1>2. IsFiniteSet(Token)
  BY <1>1, PartyIsFinite, FS_Product DEF Token
<1>3. IsFiniteSet(S)
  BY <1>2, FS_Subset
<1> QED
  BY <1>3, FS_CardinalityType

\* So are the identifiers, and what a replay cache holds.
LEMMA IdsAreFinite ==
  ASSUME NEW S \in SUBSET Id
  PROVE  IsFiniteSet(S) /\ Cardinality(S) \in Nat
<1>1. IsFiniteSet(1..MaxSeals)
  BY RatchetAssumption, FS_Interval
<1>2. IsFiniteSet(Id)
  BY <1>1, PartyIsFinite, FS_Product DEF Id
<1>3. IsFiniteSet(S)
  BY <1>2, FS_Subset
<1> QED
  BY <1>3, FS_CardinalityType

\* The tokens a refill of count adds are count tokens at most.
NewTokens(p, n, count) == {<<p, i>> : i \in (n + 1)..(n + count)}

\* A refill of count adds count tokens at most.
LEMMA NewTokensAreFew ==
  ASSUME NEW S \in SUBSET Token, NEW p \in Party, NEW n \in Nat, NEW count \in Nat,
         n + count <= MaxTokens
  PROVE  /\ S \cup NewTokens(p, n, count) \in SUBSET Token
         /\ Cardinality(S \cup NewTokens(p, n, count)) <= Cardinality(S) + count
<1> DEFINE I == (n + 1)..(n + count)
           T == NewTokens(p, n, count)
           f == [i \in I |-> <<p, i>>]
<1>1. T \in SUBSET Token
  BY RatchetAssumption DEF NewTokens, Token
<1>2. IsFiniteSet(I) /\ Cardinality(I) = count
  BY FS_Interval
<1>3. f \in Surjection(I, T)
  BY DEF Surjection, NewTokens
<1> HIDE DEF f, I, T
<1>4. Cardinality(T) <= count
  BY <1>2, <1>3, FS_Surjection
<1>5. /\ IsFiniteSet(S) /\ Cardinality(S) \in Nat
      /\ IsFiniteSet(T) /\ Cardinality(T) \in Nat
      /\ Cardinality(S \cap T) \in Nat
  BY <1>1, TokensAreFinite
<1>6. Cardinality(S \cup T) = Cardinality(S) + Cardinality(T) - Cardinality(S \cap T)
  BY <1>5, FS_Union
<1>7. Cardinality(S \cup T) <= Cardinality(S) + count
  BY <1>4, <1>5, <1>6
<1> QED
  BY <1>1, <1>7 DEF T

-----------------------------------------------------------------------------
(***************************************************************************)
(* Each action as what it does to the fields of the objects.               *)
(***************************************************************************)
Same(p) == \A q \in Party \ {p} : rat'[q] = rat[q]

\* refill adds tokens never used before and keeps the rest of the object.
LEMMA RefillDoes ==
  ASSUME Shapes, NEW p \in Party, NEW count \in 1..MaxTokens, Refill(p, count)
  PROVE  \E T \in SUBSET Token :
           /\ \A t \in T : t[1] = p /\ t[2] > tokens[p]
           /\ \A t \in Token : t[1] = p /\ t[2] <= tokens'[p] /\ t \notin T => t[2] <= tokens[p]
           /\ tokens' = [tokens EXCEPT ![p] = @ + count]
           /\ tokens' \in [Party -> 0..MaxTokens]
           /\ rat' \in [Party -> Ratchet] /\ Same(p)
           /\ rat'[p].queue = rat[p].queue \cup T
           /\ Cardinality(rat'[p].queue) <= rat'[p].queueLimit
           /\ rat'[p].chain = rat[p].chain /\ rat'[p].used = rat[p].used
           /\ rat'[p].queueLimit = rat[p].queueLimit
           /\ rat'[p].usedLimit = rat[p].usedLimit
           /\ UNCHANGED <<disk, net, clock, ledger, sealed, opened, when, rolled>>
<1> DEFINE T == NewTokens(p, tokens[p], count)
           r == rat[p]
           q == r.queue \cup T
           n == [r EXCEPT !.queue = q]
<1>1. r \in Ratchet /\ tokens[p] \in Nat /\ count \in Nat /\ count > 0
  BY RatchetAssumption DEF Shapes
<1>2. /\ rat' = [rat EXCEPT ![p] = n]
      /\ tokens' = [tokens EXCEPT ![p] = @ + count]
      /\ tokens[p] + count <= MaxTokens
      /\ Cardinality(r.queue) + count <= r.queueLimit
      /\ UNCHANGED <<disk, net, clock, ledger, sealed, opened, when, rolled>>
  BY DEF Refill, Room, NewTokens
<1>3. q \in SUBSET Token /\ Cardinality(q) <= Cardinality(r.queue) + count
  BY <1>1, <1>2, NewTokensAreFew DEF Ratchet
<1>4. Cardinality(q) \in Nat /\ Cardinality(r.queue) \in Nat /\ r.queueLimit \in Nat
  BY <1>1, <1>3, TokensAreFinite DEF Ratchet
<1>5. T \in SUBSET Token /\ \A t \in T : t[1] = p /\ t[2] > tokens[p]
  BY <1>1, <1>3 DEF NewTokens
<1>6. \A t \in Token : t[1] = p /\ t[2] <= tokens[p] + count /\ t \notin T => t[2] <= tokens[p]
  BY <1>1, RatchetAssumption DEF NewTokens, Token
<1> HIDE DEF T, r, q
<1>7. /\ n \in Ratchet /\ n.queue = q /\ n.chain = r.chain /\ n.used = r.used
      /\ n.queueLimit = r.queueLimit /\ n.usedLimit = r.usedLimit
  BY <1>1, <1>3 DEF Ratchet
<1> HIDE DEF n
<1>8. rat' \in [Party -> Ratchet] /\ Same(p) /\ rat'[p] = n
  BY <1>2, <1>7 DEF Shapes, Same
<1>9. tokens' \in [Party -> 0..MaxTokens] /\ tokens'[p] = tokens[p] + count
  BY <1>1, <1>2 DEF Shapes
<1>10. Cardinality(n.queue) <= n.queueLimit
  BY <1>2, <1>3, <1>4, <1>7
<1> QED
  BY <1>2, <1>5, <1>6, <1>7, <1>8, <1>9, <1>10 DEF r, q

\* seal mixes one secret more into the chain and burns one token of the peer.
LEMMA SealDoes ==
  ASSUME Shapes, NEW p \in Party, NEW t \in HandedTo(p), Seal(p, t)
  PROVE  \E m \in Message :
           /\ p \in Sealers
           /\ m.id = <<p, Len(sealed[p]) + 1>> /\ m.token = t /\ m.intact
           /\ m.chain = Append(rat[p].chain, m.id)
           /\ net' = net \cup {m}
           /\ sealed' = [sealed EXCEPT ![p] = Append(sealed[p], m.id)]
           /\ t[1] = Peer(p) /\ t[2] <= tokens[Peer(p)] /\ t \notin rat[p].used
           /\ rat' \in [Party -> Ratchet] /\ Same(p)
           /\ rat'[p].chain = m.chain
           /\ rat'[p].used = rat[p].used \cup {t}
           /\ Cardinality(rat'[p].used) <= rat'[p].usedLimit
           /\ rat'[p].queue = rat[p].queue
           /\ rat'[p].queueLimit = rat[p].queueLimit
           /\ rat'[p].usedLimit = rat[p].usedLimit
           /\ UNCHANGED <<tokens, disk, clock, ledger, opened, when, rolled>>
<1> DEFINE r == rat[p]
           id == <<p, Len(sealed[p]) + 1>>
           c == Append(r.chain, id)
           u == r.used \cup {t}
           m == [id |-> id, token |-> t, chain |-> c, intact |-> TRUE]
           n == [r EXCEPT !.chain = c, !.used = u]
<1>1. r \in Ratchet /\ sealed[p] \in Seq(Id) /\ tokens[Peer(p)] \in 0..MaxTokens
  BY Peers DEF Shapes
<1>2. /\ p \in Sealers /\ Len(sealed[p]) < MaxSeals
      /\ rat' = [rat EXCEPT ![p] = n]
      /\ net' = net \cup {m}
      /\ sealed' = [sealed EXCEPT ![p] = Append(sealed[p], id)]
      /\ t \notin r.used /\ Cardinality(u) <= r.usedLimit
      /\ UNCHANGED <<tokens, disk, clock, ledger, opened, when, rolled>>
  BY DEF Seal, Sealable
<1>3. id \in Id
  BY <1>1, <1>2, RatchetAssumption, SMTT(40) DEF Id
<1>4. t \in Token /\ t[1] = Peer(p) /\ t[2] <= tokens[Peer(p)]
  BY <1>1, Peers, RatchetAssumption DEF HandedTo, Token
<1> HIDE DEF r, id
<1>5. c \in Seq(Id) /\ u \in SUBSET Token
  BY <1>1, <1>3, <1>4 DEF Ratchet
<1> HIDE DEF c, u
<1>6. m \in Message /\ m.id = id /\ m.token = t /\ m.intact /\ m.chain = c
  BY <1>3, <1>4, <1>5 DEF Message
<1>7. /\ n \in Ratchet /\ n.chain = c /\ n.used = u /\ n.queue = r.queue
      /\ n.queueLimit = r.queueLimit /\ n.usedLimit = r.usedLimit
  BY <1>1, <1>5 DEF Ratchet
<1> HIDE DEF m, n
<1>8. rat' \in [Party -> Ratchet] /\ Same(p) /\ rat'[p] = n
  BY <1>2, <1>7 DEF Shapes, Same
<1> QED
  BY <1>2, <1>4, <1>6, <1>7, <1>8 DEF r, id, c, u

\* An altered copy of a message differs in nothing but that it is not intact.
LEMMA TamperDoes ==
  ASSUME Shapes, NEW m \in net, Tamper(m)
  PROVE  \E k \in Message :
           /\ k.id = m.id /\ k.token = m.token /\ k.chain = m.chain /\ ~ k.intact
           /\ net' = net \cup {k}
           /\ UNCHANGED <<rat, tokens, disk, clock, ledger, sealed, opened, when, rolled>>
<1> DEFINE k == [m EXCEPT !.intact = FALSE]
<1>1. m \in Message
  BY DEF Shapes
<1>2. k \in Message /\ k.id = m.id /\ k.token = m.token /\ k.chain = m.chain /\ k.intact = FALSE
  BY <1>1 DEF Message
<1>3. /\ net' = net \cup {k}
      /\ UNCHANGED <<rat, tokens, disk, clock, ledger, sealed, opened, when, rolled>>
  BY DEF Tamper
<1> QED
  BY <1>2, <1>3

\* open takes an intact message that extends its chain, and its token with it.
LEMMA OpenDoes ==
  ASSUME Shapes, NEW p \in Party, NEW m \in net, Open(p, m)
  PROVE  /\ m \in Message /\ m.id[1] = Peer(p) /\ m.intact
         /\ m.token \in rat[p].queue /\ m.chain = Append(rat[p].chain, m.id)
         /\ rat' \in [Party -> Ratchet] /\ Same(p)
         /\ rat'[p].chain = m.chain
         /\ rat'[p].queue = rat[p].queue \ {m.token}
         /\ rat'[p].used = rat[p].used
         /\ rat'[p].queueLimit = rat[p].queueLimit
         /\ rat'[p].usedLimit = rat[p].usedLimit
         /\ opened' = [opened EXCEPT ![p] = Append(opened[p], m.id)]
         /\ UNCHANGED <<tokens, disk, net, clock, sealed, rolled>>
<1> DEFINE r == rat[p]
           c == Append(r.chain, m.id)
           q == r.queue \ {m.token}
           n == [r EXCEPT !.chain = c, !.queue = q]
<1>1. r \in Ratchet /\ m \in Message
  BY DEF Shapes
<1>2. /\ Verified(p, m) /\ Decrypts(p, m)
      /\ rat' = [rat EXCEPT ![p] = n]
      /\ opened' = [opened EXCEPT ![p] = Append(opened[p], m.id)]
      /\ UNCHANGED <<tokens, disk, net, clock, sealed, rolled>>
  BY DEF Open, Opens, Stamp
<1>3. m.id[1] = Peer(p) /\ m.intact /\ m.token \in r.queue /\ m.chain = c
  BY <1>2 DEF Verified, Decrypts
<1>4. c \in Seq(Id) /\ q \in SUBSET Token
  BY <1>1 DEF Ratchet, Message
<1> HIDE DEF r, c, q
<1>5. /\ n \in Ratchet /\ n.chain = c /\ n.queue = q /\ n.used = r.used
      /\ n.queueLimit = r.queueLimit /\ n.usedLimit = r.usedLimit
  BY <1>1, <1>4 DEF Ratchet
<1> HIDE DEF n
<1>6. rat' \in [Party -> Ratchet] /\ Same(p) /\ rat'[p] = n
  BY <1>2, <1>5 DEF Shapes, Same
<1> QED
  BY <1>1, <1>2, <1>3, <1>5, <1>6 DEF r, c, q

\* Cache a is cache c after it accepted d.
Accepts(a, c, d, now) ==
  /\ CacheFits(a, now)
  /\ DOMAIN a = Kept(c, now) \cup {d} /\ Kept(c, now) \subseteq DOMAIN c
  /\ a[d] = now /\ \A k \in Kept(c, now) : k # d => a[k] = c[k]

\* A cache that has room accepts an identifier.
LEMMA AcceptFits ==
  ASSUME NEW now \in Nat, NEW c, CacheFits(c, now), NEW d \in Id, ~ Full(c, now),
         NEW a, a = AfterAccept(c, d, now)
  PROVE  Accepts(a, c, d, now)
<1> DEFINE K == Kept(c, now)
<1>1. K \subseteq DOMAIN c /\ K \in SUBSET Id
  BY DEF Kept, CacheFits
<1>2. /\ DOMAIN a = K \cup {d}
      /\ a[d] = now /\ \A k \in K : k # d => a[k] = c[k]
      /\ a = [k \in K \cup {d} |-> IF k = d THEN now ELSE c[k]]
  BY DEF AfterAccept
<1>3. \A k \in K : c[k] \in 0..now
  BY <1>1 DEF CacheFits
<1>4. a \in [K \cup {d} -> 0..now]
  BY <1>2, <1>3
<1>5. IsFiniteSet(K) /\ Cardinality(K) \in Nat
  BY <1>1, IdsAreFinite
<1>6. Cardinality(K) < MaxEntries
  BY <1>5, CacheAssumption DEF Full
<1>7. Cardinality(K \cup {d}) = Cardinality(K) \/ Cardinality(K \cup {d}) = Cardinality(K) + 1
  BY <1>5, FS_AddElement
<1> HIDE DEF K
<1>8. Cardinality(K \cup {d}) <= MaxEntries
  BY <1>5, <1>6, <1>7, CacheAssumption
<1> QED
  BY <1>1, <1>2, <1>4, <1>8 DEF Accepts, CacheFits, K

\* A cache that refuses forgets only what it would forget anyway.
LEMMA RefusalFits ==
  ASSUME NEW now \in Nat, NEW c, CacheFits(c, now), NEW a, a = AfterRefusal(c, now)
  PROVE  /\ CacheFits(a, now)
         /\ Kept(c, now) \subseteq DOMAIN a /\ DOMAIN a \subseteq DOMAIN c
         /\ \A k \in DOMAIN a : a[k] = c[k]
<1> DEFINE K == Kept(c, now)
<1>1. K \subseteq DOMAIN c /\ DOMAIN c \in SUBSET Id /\ K \in SUBSET Id
  BY DEF Kept, CacheFits
<1>2. CASE Durable
  BY <1>1, <1>2 DEF AfterRefusal
<1>3. CASE ~ Durable
  <2>1. a = [k \in K |-> c[k]]
    BY <1>3 DEF AfterRefusal, Purged
  <2>2. DOMAIN a = K /\ \A k \in K : a[k] = c[k]
    BY <2>1
  <2>3. a \in [K -> 0..now]
    BY <1>1, <2>1 DEF CacheFits
  <2>4. /\ IsFiniteSet(DOMAIN c) /\ Cardinality(K) <= Cardinality(DOMAIN c)
        /\ Cardinality(K) \in Nat /\ Cardinality(DOMAIN c) \in Nat
    BY <1>1, IdsAreFinite, FS_Subset
  <2> HIDE DEF K
  <2>5. Cardinality(K) <= MaxEntries
    BY <2>4, CacheAssumption DEF CacheFits
  <2> QED
    BY <1>1, <2>2, <2>3, <2>5 DEF CacheFits, K
<1> QED
  BY <1>2, <1>3

\* What open does to the replay cache and to the record of its openings.
LEMMA StampDoes ==
  ASSUME Shapes, NEW p \in Party, NEW m \in net, Open(p, m)
  PROVE  /\ DOMAIN ledger' = Party /\ \A q \in Party : q # p => ledger'[q] = ledger[q]
         /\ when' = [when EXCEPT ![p] = Append(when[p], clock)]
         /\ CacheFits(ledger'[p], clock)
         /\ ~ Ledger => ledger'[p] = ledger[p]
         /\ Ledger =>
              /\ m.id \notin Kept(ledger[p], clock) /\ Kept(ledger[p], clock) \subseteq DOMAIN ledger[p]
              /\ DOMAIN ledger'[p] = Kept(ledger[p], clock) \cup {m.id}
              /\ ledger'[p][m.id] = clock
              /\ \A k \in Kept(ledger[p], clock) : k # m.id => ledger'[p][k] = ledger[p][k]
<1>1. /\ Unseen(p, m) /\ HasRoom(p)
      /\ ledger' = IF Ledger THEN [ledger EXCEPT ![p] = AfterAccept(@, m.id, clock)]
                             ELSE ledger
      /\ when' = [when EXCEPT ![p] = Append(when[p], clock)]
  BY DEF Open, Opens, Stamp
<1>2. clock \in Nat /\ m.id \in Id /\ CacheFits(ledger[p], clock) /\ DOMAIN ledger = Party
  BY RatchetAssumption, SMTT(40) DEF Shapes, Message
<1>3. CASE Ledger
  <2>1. ~ Full(ledger[p], clock) /\ m.id \notin Kept(ledger[p], clock)
    BY <1>1, <1>3 DEF Unseen, HasRoom
  <2>2. ledger' = [ledger EXCEPT ![p] = AfterAccept(ledger[p], m.id, clock)]
    BY <1>1, <1>3
  <2>3. /\ ledger'[p] = AfterAccept(ledger[p], m.id, clock) /\ DOMAIN ledger' = Party
        /\ \A q \in Party : q # p => ledger'[q] = ledger[q]
    BY <1>2, <2>2
  <2>4. PICK now \in Nat, d \in Id : now = clock /\ d = m.id
    BY <1>2
  <2>5. PICK c, a : c = ledger[p] /\ a = AfterAccept(c, d, now)
    OBVIOUS
  <2>6. CacheFits(c, now) /\ ~ Full(c, now)
    BY <1>2, <2>1, <2>4, <2>5
  <2>7. Accepts(a, c, d, now)
    BY <2>4, <2>5, <2>6, AcceptFits
  <2>8. ledger'[p] = a
    BY <2>3, <2>4, <2>5
  <2> QED
    BY <1>1, <1>3, <2>1, <2>3, <2>4, <2>5, <2>7, <2>8 DEF Accepts
<1>4. CASE ~ Ledger
  BY <1>1, <1>2, <1>4
<1> QED
  BY <1>3, <1>4

\* A call the replay cache refuses changes no more than what the cache holds.
LEMMA RefusedDoes ==
  ASSUME Shapes, NEW p \in Party, NEW m \in net, RefusedByCache(p, m)
  PROVE  /\ DOMAIN ledger' = Party /\ \A q \in Party : q # p => ledger'[q] = ledger[q]
         /\ CacheFits(ledger'[p], clock)
         /\ Kept(ledger[p], clock) \subseteq DOMAIN ledger'[p]
         /\ DOMAIN ledger'[p] \subseteq DOMAIN ledger[p]
         /\ \A k \in DOMAIN ledger'[p] : ledger'[p][k] = ledger[p][k]
         /\ UNCHANGED <<rat, tokens, disk, net, clock, sealed, opened, when, rolled>>
<1>1. clock \in Nat /\ CacheFits(ledger[p], clock) /\ DOMAIN ledger = Party
  BY RatchetAssumption, SMTT(40) DEF Shapes
<1>2. /\ ledger' = [ledger EXCEPT ![p] = AfterRefusal(ledger[p], clock)]
      /\ UNCHANGED <<rat, tokens, disk, net, clock, sealed, opened, when, rolled>>
  BY DEF RefusedByCache
<1>3. /\ ledger'[p] = AfterRefusal(ledger[p], clock) /\ DOMAIN ledger' = Party
      /\ \A q \in Party : q # p => ledger'[q] = ledger[q]
  BY <1>1, <1>2
<1> QED
  BY <1>1, <1>2, <1>3, RefusalFits

\* load_state brings back the chain, queue and used tokens of some saved state.
LEMMA LoadDoes ==
  ASSUME Shapes, NEW p \in Party, LoadState(p)
  PROVE  \E s \in disk[p] :
           /\ s \in Ratchet
           /\ ~ Stale => SameState(s, rat[p])
           /\ rolled' = IF SameState(s, rat[p]) THEN rolled ELSE rolled \cup {p}
           /\ rat' \in [Party -> Ratchet] /\ Same(p)
           /\ rat'[p].chain = s.chain /\ rat'[p].queue = s.queue /\ rat'[p].used = s.used
           /\ rat'[p].queueLimit = LoadedQueueLimit
           /\ rat'[p].usedLimit = LoadedUsedLimit
           /\ UNCHANGED <<tokens, disk, net, clock, ledger, sealed, opened, when>>
<1>1. PICK s \in disk[p] :
        /\ Stale \/ SameState(s, rat[p])
        /\ rat' = [rat EXCEPT ![p] = Loaded(s)]
        /\ rolled' = IF SameState(s, rat[p]) THEN rolled ELSE rolled \cup {p}
  BY DEF LoadState
<1>2. s \in Ratchet
  BY DEF Shapes
<1>3. /\ Loaded(s) \in Ratchet
      /\ Loaded(s).chain = s.chain /\ Loaded(s).queue = s.queue /\ Loaded(s).used = s.used
      /\ Loaded(s).queueLimit = LoadedQueueLimit
      /\ Loaded(s).usedLimit = LoadedUsedLimit
  BY <1>2, RatchetAssumption DEF Loaded, Ratchet
<1>4. rat' \in [Party -> Ratchet] /\ Same(p) /\ rat'[p] = Loaded(s)
  BY <1>1, <1>3 DEF Shapes, Same
<1>5. UNCHANGED <<tokens, disk, net, clock, ledger, sealed, opened, when>>
  BY DEF LoadState
<1> QED
  BY <1>1, <1>2, <1>3, <1>4, <1>5

-----------------------------------------------------------------------------
(***************************************************************************)
(* Types and limits.                                                       *)
(***************************************************************************)
\* An empty set of tokens is within every limit.
LEMMA EmptyIsSmall ==
  /\ Cardinality({}) = 0 /\ {} \in SUBSET Token
  /\ 0 <= QueueLimit /\ 0 <= UsedLimit
  /\ {QueueLimit, UsedLimit, LoadedQueueLimit, LoadedUsedLimit} \subseteq Nat
BY RatchetAssumption, FS_EmptySet

\* The types hold at first.
LEMMA InitShapes == Init => Shapes
<1> SUFFICES ASSUME Init PROVE Shapes
  OBVIOUS
<1>1. NewRatchet \in Ratchet
  BY EmptyIsSmall DEF NewRatchet, Ratchet
<1>2. DOMAIN EmptyCache = {} /\ EmptyCache \in [{} -> 0..0]
  BY DEF EmptyCache
<1>3. CacheFits(EmptyCache, 0)
  BY <1>2, EmptyIsSmall, CacheAssumption DEF CacheFits
<1>4. clock = 0 /\ 0 \in 0..MaxTime
  BY RatchetAssumption DEF Init
<1>5. \A p \in Party : ledger[p] = EmptyCache /\ when[p] = <<>> /\ opened[p] = <<>>
  BY DEF Init
<1>6. \A p \in Party : Len(when[p]) = Len(opened[p]) /\ CacheFits(ledger[p], clock)
  BY <1>3, <1>4, <1>5
<1> QED
  BY <1>1, <1>4, <1>6, RatchetAssumption DEF Init, Shapes

\* A sequence over a set is one over a larger set.
LEMMA LongerRange ==
  ASSUME NEW S, NEW T, S \subseteq T, NEW s \in Seq(S)
  PROVE  s \in Seq(T)
<1>1. \A i \in 1..Len(s) : s[i] \in T
  OBVIOUS
<1> QED
  BY <1>1

\* Every step keeps the types.
LEMMA NextShapes == Shapes /\ [Next]_vars => Shapes'
<1> SUFFICES ASSUME Shapes, [Next]_vars PROVE Shapes'
  OBVIOUS
<1>1. ASSUME NEW p \in Party, NEW count \in 1..MaxTokens, Refill(p, count)
      PROVE  Shapes'
  BY <1>1, RefillDoes, SMTT(40) DEF Shapes
<1>2. ASSUME NEW p \in Party, NEW t \in HandedTo(p), Seal(p, t)
      PROVE  Shapes'
  <2>1. PICK m \in Message :
           /\ net' = net \cup {m}
           /\ sealed' = [sealed EXCEPT ![p] = Append(sealed[p], m.id)]
           /\ rat' \in [Party -> Ratchet]
           /\ UNCHANGED <<tokens, disk, clock, ledger, opened, when, rolled>>
    BY <1>2, SealDoes
  <2>2. m.id \in Id /\ sealed[p] \in Seq(Id)
    BY DEF Message, Shapes
  <2>3. Append(sealed[p], m.id) \in Seq(Id)
    BY <2>2, AppendFacts
  <2> QED
    BY <2>1, <2>3 DEF Shapes
<1>3. ASSUME NEW p \in Party, NEW m \in net, Open(p, m)
      PROVE  Shapes'
  <2>1. /\ m \in Message
        /\ rat' \in [Party -> Ratchet]
        /\ opened' = [opened EXCEPT ![p] = Append(opened[p], m.id)]
        /\ UNCHANGED <<tokens, disk, net, clock, sealed, rolled>>
    BY <1>3, OpenDoes
  <2>2. /\ m.id \in Id /\ opened[p] \in Seq(Id) /\ when[p] \in Seq(0..clock)
        /\ clock \in 0..clock /\ Len(when[p]) = Len(opened[p])
    BY <2>1, RatchetAssumption, SMTT(40) DEF Message, Shapes
  <2>3. /\ Append(opened[p], m.id) \in Seq(Id) /\ Append(when[p], clock) \in Seq(0..clock)
        /\ Len(Append(when[p], clock)) = Len(Append(opened[p], m.id))
    BY <2>2
  <2>4. /\ when' = [when EXCEPT ![p] = Append(when[p], clock)]
        /\ DOMAIN ledger' = Party /\ \A q \in Party : CacheFits(ledger'[q], clock)
    BY <1>3, StampDoes DEF Shapes
  <2>5. /\ when' \in [Party -> Seq(0..clock)] /\ opened' \in [Party -> Seq(Id)]
        /\ \A q \in Party : Len(when'[q]) = Len(opened'[q])
    BY <2>1, <2>3, <2>4 DEF Shapes
  <2> QED
    BY <2>1, <2>4, <2>5 DEF Shapes
<1>4. ASSUME NEW p \in Party, SaveState(p)
      PROVE  Shapes'
  BY <1>4 DEF SaveState, Shapes
<1>5. ASSUME NEW p \in Party, LoadState(p)
      PROVE  Shapes'
  BY <1>5, LoadDoes DEF Shapes
<1>6. ASSUME NEW m \in net, Tamper(m)
      PROVE  Shapes'
  BY <1>6, TamperDoes DEF Shapes
<1>7. CASE UNCHANGED vars
  BY <1>7 DEF vars, Shapes
<1>8. ASSUME NEW p \in Party, NEW m \in net, RefusedByCache(p, m)
      PROVE  Shapes'
  BY <1>8, RefusedDoes DEF Shapes
<1>9. CASE Tick
  <2>1. /\ clock' \in 0..MaxTime /\ 0..clock \subseteq 0..clock'
        /\ UNCHANGED <<rat, tokens, disk, net, ledger, sealed, opened, when, rolled>>
    BY <1>9, RatchetAssumption DEF Tick, Shapes
  <2>2. \A q \in Party : when[q] \in Seq(0..clock')
    BY <2>1, LongerRange DEF Shapes
  <2>3. \A q \in Party : CacheFits(ledger[q], clock')
    BY <2>1 DEF Shapes, CacheFits
  <2> QED
    BY <2>1, <2>2, <2>3 DEF Shapes
<1> QED
  BY <1>1, <1>2, <1>3, <1>4, <1>5, <1>6, <1>7, <1>8, <1>9 DEF Next

\* New objects are empty.
LEMMA InitFits == LoadsHaveRoom /\ Init => StatesFit
<1> SUFFICES ASSUME LoadsHaveRoom, Init PROVE StatesFit
  OBVIOUS
<1>1. \A p \in Party : /\ rat[p].queue = {} /\ rat[p].used = {}
                       /\ rat[p].queueLimit = QueueLimit /\ rat[p].usedLimit = UsedLimit
                       /\ disk[p] = {}
  BY DEF Init, NewRatchet
<1>2. \A p \in Party : Cardinality(rat[p].queue) = 0 /\ Cardinality(rat[p].used) = 0
  BY <1>1, EmptyIsSmall, Zenon
<1> QED
  BY <1>1, <1>2, EmptyIsSmall DEF StatesFit, LoadsHaveRoom

\* Every step keeps the objects and files within the limits they get.
LEMMA NextFits == Shapes /\ StatesFit /\ [Next]_vars => StatesFit'
<1> SUFFICES ASSUME Shapes, StatesFit, [Next]_vars PROVE StatesFit'
  OBVIOUS
<1>1. \A p \in Party :
        /\ rat[p].queue \in SUBSET Token /\ rat[p].used \in SUBSET Token
        /\ rat[p].queueLimit \in Nat /\ rat[p].usedLimit \in Nat
        /\ Cardinality(rat[p].queue) \in Nat /\ Cardinality(rat[p].used) \in Nat
  BY TokensAreFinite DEF Shapes, Ratchet
<1>2. ASSUME NEW p \in Party, NEW count \in 1..MaxTokens, Refill(p, count)
      PROVE  StatesFit'
  BY <1>2, RefillDoes DEF StatesFit, Same
<1>3. ASSUME NEW p \in Party, NEW t \in HandedTo(p), Seal(p, t)
      PROVE  StatesFit'
  BY <1>3, SealDoes DEF StatesFit, Same
<1>4. ASSUME NEW p \in Party, NEW m \in net, Open(p, m)
      PROVE  StatesFit'
  <2> DEFINE S == rat[p].queue
             R == S \ {m.token}
  <2>1. /\ S \in SUBSET Token /\ Cardinality(S) \in Nat
        /\ R \in SUBSET S /\ R \in SUBSET Token
        /\ rat'[p].queue = R
    BY <1>1, <1>4, OpenDoes
  <2> HIDE DEF R
  <2>2. IsFiniteSet(S) /\ Cardinality(R) \in Nat
    BY <2>1, TokensAreFinite
  <2>3. Cardinality(R) <= Cardinality(S)
    BY <2>1, <2>2, FS_Subset
  <2>4. Cardinality(R) <= rat[p].queueLimit
    BY <1>1, <2>1, <2>2, <2>3 DEF StatesFit
  <2>5. Cardinality(rat'[p].queue) <= rat[p].queueLimit
    BY <2>1, <2>4, Zenon
  <2> QED
    BY <1>4, <2>5, OpenDoes, SMTT(40) DEF StatesFit, Same
<1>5. ASSUME NEW p \in Party, SaveState(p)
      PROVE  StatesFit'
  <2>1. disk' = [disk EXCEPT ![p] = {rat[p]}] /\ UNCHANGED rat
    BY <1>5 DEF SaveState
  <2>2. \A q \in Party : \A s \in disk'[q] : s \in disk[q] \/ (q = p /\ s = rat[p])
    BY <2>1 DEF Shapes
  <2>3. /\ Cardinality(rat[p].queue) <= LoadedQueueLimit
        /\ Cardinality(rat[p].used) <= LoadedUsedLimit
    BY <1>1, RatchetAssumption DEF StatesFit
  <2> QED
    BY <2>1, <2>2, <2>3 DEF StatesFit
<1>6. ASSUME NEW p \in Party, LoadState(p)
      PROVE  StatesFit'
  BY <1>6, LoadDoes, RatchetAssumption DEF StatesFit, Same
<1>7. ASSUME NEW m \in net, Tamper(m)
      PROVE  StatesFit'
  BY <1>7, TamperDoes DEF StatesFit
<1>8. CASE UNCHANGED <<rat, disk>>
  BY <1>8 DEF StatesFit
<1>9. Tick \/ UNCHANGED vars \/ (\E p \in Party, m \in net : RefusedByCache(p, m))
        => UNCHANGED <<rat, disk>>
  BY DEF Tick, RefusedByCache, vars
<1> QED
  BY <1>2, <1>3, <1>4, <1>5, <1>6, <1>7, <1>8, <1>9 DEF Next

\* Chains, queues, used sets and files stay within their types, queue and used
\* set within the limits of the object they are in, also of one that was loaded
\* (protocol.py:411-524).
THEOREM RatchetsAreTyped == LoadsHaveRoom => (Spec => []TypeOK)
<1> SUFFICES ASSUME LoadsHaveRoom PROVE Spec => []TypeOK
  OBVIOUS
<1>1. Init => Shapes /\ StatesFit
  BY InitShapes, InitFits
<1>2. Shapes /\ StatesFit /\ [Next]_vars => (Shapes /\ StatesFit)'
  BY NextShapes, NextFits
<1>3. Shapes /\ StatesFit => TypeOK
  BY DEF Shapes, StatesFit, TypeOK
<1> QED
  BY <1>1, <1>2, <1>3, PTL DEF Spec

-----------------------------------------------------------------------------
(***************************************************************************)
(* Tokens and identifiers.                                                 *)
(***************************************************************************)
\* The fields of the messages on the channel.
LEMMA Messages ==
  ASSUME Shapes, NEW m \in net
  PROVE  /\ m.id \in Id /\ m.id[1] \in Party /\ m.id[2] \in 1..MaxSeals /\ m.id[2] \in Nat
         /\ m.id = <<m.id[1], m.id[2]>> /\ m.token \in Token /\ m.token[1] \in Party
         /\ m.token[2] \in Nat
         /\ m.chain \in Seq(Id)
<1>1. m \in Message
  BY DEF Shapes
<1> QED
  BY <1>1, Ids, RatchetAssumption DEF Message, Token

\* Nothing is sealed or handed over at first.
LEMMA InitRInv == Init => RInv
<1> SUFFICES ASSUME Init PROVE RInv
  OBVIOUS
<1>1. \A p \in Party : sealed[p] = <<>> /\ opened[p] = <<>> /\ tokens[p] = 0
                      /\ DOMAIN ledger[p] = {}
  BY DEF Init, EmptyCache
<1>2. net = {}
  BY DEF Init
<1>3. \A t \in Token : t[2] > 0
  BY RatchetAssumption DEF Token
<1>4. \A p \in Party : Elems(opened[p]) = {} /\ Elems(sealed[p]) = {}
  BY <1>1 DEF Elems
<1>5. MessagesAreNumbered /\ AllAreSent
  BY <1>1, <1>2 DEF MessagesAreNumbered, AllAreSent
<1>6. OpenedWereSealed
  BY <1>1, <1>4 DEF OpenedWereSealed
<1>7. TokenCarriesOneMessage /\ UsedAreKnown /\ SpentTokensAreGone
  BY <1>2 DEF TokenCarriesOneMessage, UsedAreKnown, SpentTokensAreGone
<1>8. TokensAreKept
  BY <1>1, <1>3, RatchetAssumption DEF TokensAreKept, Token
<1> QED
  BY <1>5, <1>6, <1>7, <1>8, InitShapes DEF RInv

\* New tokens are on no message yet.
LEMMA RefillKeeps ==
  ASSUME RInv, Shapes', NEW p \in Party, NEW count \in 1..MaxTokens, Refill(p, count)
  PROVE  RInv'
<1>0. Shapes
  BY DEF RInv
<1>1. PICK T \in SUBSET Token :
        /\ \A t \in T : t[1] = p /\ t[2] > tokens[p]
        /\ \A t \in Token : t[1] = p /\ t[2] <= tokens'[p] /\ t \notin T => t[2] <= tokens[p]
        /\ tokens' = [tokens EXCEPT ![p] = @ + count]
        /\ Same(p)
        /\ rat'[p].queue = rat[p].queue \cup T
        /\ rat'[p].used = rat[p].used
        /\ UNCHANGED <<disk, net, clock, ledger, sealed, opened, when, rolled>>
  BY <1>0, RefillDoes, SMTT(40)
<1>2. \A q \in Party : /\ tokens[q] \in Nat /\ tokens'[q] \in Nat /\ tokens'[q] >= tokens[q]
                       /\ q # p => tokens'[q] = tokens[q]
  BY <1>0, <1>1, RatchetAssumption, SMTT(40) DEF Shapes
<1>3. \A m \in net : m.id[1] \in Party /\ m.token[1] \in Party /\ m.token[2] \in Nat
  BY <1>0, Messages
<1>4. MessagesAreNumbered'
  BY <1>1, <1>2, <1>3 DEF RInv, MessagesAreNumbered
<1>5. OpenedWereSealed' /\ TokenCarriesOneMessage' /\ AllAreSent'
  BY <1>1 DEF RInv, OpenedWereSealed, TokenCarriesOneMessage, AllAreSent
<1>6. UsedAreKnown'
  BY <1>1, <1>3 DEF RInv, UsedAreKnown, Same
<1>7. SpentTokensAreGone'
  <2>1. \A m \in net : m.token \notin T
    BY <1>1, <1>2, <1>3 DEF RInv, MessagesAreNumbered
  <2> QED
    BY <1>1, <2>1 DEF RInv, SpentTokensAreGone, Same
<1>8. TokensAreKept'
  <2>1. \A t \in Token : t[1] \in Party /\ t[2] \in Nat
    BY RatchetAssumption DEF Token
  <2> QED
    BY <1>1, <1>2, <2>1 DEF RInv, TokensAreKept, Same
<1> QED
  BY <1>4, <1>5, <1>6, <1>7, <1>8 DEF RInv

\* An end that kept its state seals with a token it has not used.
LEMMA SealKeeps ==
  ASSUME RInv, Shapes', NEW p \in Party, NEW t \in HandedTo(p), Seal(p, t)
  PROVE  RInv'
<1>0. Shapes
  BY DEF RInv
<1>1. PICK m \in Message :
        /\ m.id = <<p, Len(sealed[p]) + 1>> /\ m.token = t /\ m.intact
        /\ net' = net \cup {m}
        /\ sealed' = [sealed EXCEPT ![p] = Append(sealed[p], m.id)]
        /\ t[1] = Peer(p) /\ t[2] <= tokens[Peer(p)] /\ t \notin rat[p].used
        /\ Same(p)
        /\ rat'[p].used = rat[p].used \cup {t}
        /\ rat'[p].queue = rat[p].queue
        /\ UNCHANGED <<tokens, disk, clock, ledger, opened, when, rolled>>
  BY <1>0, SealDoes
<1>2. \A k \in net : /\ k.id[1] \in Party /\ k.id[2] \in Nat /\ k.token[1] \in Party
                     /\ k.id = <<k.id[1], k.id[2]>>
  BY <1>0, Messages
<1>3. m.id[1] = p /\ m.id[2] = Len(sealed[p]) + 1 /\ m.id \in Id
  BY <1>1 DEF Message
<1>4. /\ Len(sealed[p]) \in Nat
      /\ Len(sealed'[p]) = Len(sealed[p]) + 1 /\ sealed'[p][Len(sealed[p]) + 1] = m.id
      /\ \A i \in 1..Len(sealed[p]) : sealed'[p][i] = sealed[p][i]
      /\ \A q \in Party : q # p => sealed'[q] = sealed[q]
  <2>1. sealed[p] \in Seq(Id) /\ sealed'[p] = Append(sealed[p], m.id)
    BY <1>0, <1>1 DEF Shapes
  <2> QED
    BY <1>0, <1>1, <1>3, <2>1, AppendFacts DEF Shapes
<1>5. \A q \in Party : Len(sealed[q]) \in Nat /\ Len(sealed'[q]) \in Nat
                       /\ Len(sealed'[q]) >= Len(sealed[q])
  <2>1. \A q \in Party : Len(sealed[q]) \in Nat
    BY <1>0 DEF Shapes
  <2> QED
    BY <1>4, <2>1
<1>6. \A k \in net : k.id # m.id
  BY <1>2, <1>3, <1>4 DEF RInv, MessagesAreNumbered
<1>7. MessagesAreNumbered'
  <2>1. \A q \in Party : \A i \in 1..Len(sealed'[q]) : sealed'[q][i] = <<q, i>>
    BY <1>1, <1>4 DEF RInv, MessagesAreNumbered
  <2>2. \A k \in net' :
          /\ k.id[2] <= Len(sealed'[k.id[1]])
          /\ k.token[1] = Peer(k.id[1]) /\ k.token[2] <= tokens'[k.token[1]]
    BY <1>1, <1>2, <1>3, <1>4, <1>5, Peers DEF RInv, MessagesAreNumbered
  <2>3. \A k, l \in net' : k.id = l.id => k.token = l.token /\ k.chain = l.chain
    BY <1>1, <1>6 DEF RInv, MessagesAreNumbered
  <2> QED
    BY <2>1, <2>2, <2>3 DEF MessagesAreNumbered
<1>8. \A q \in Party : m.id \notin Elems(opened[q])
  <2>1. ASSUME NEW q \in Party, m.id \in Elems(opened[q]) PROVE FALSE
    <3>1. m.id[1] = Peer(q) /\ m.id[2] <= Len(sealed[Peer(q)])
      BY <2>1 DEF RInv, OpenedWereSealed
    <3> QED
      BY <1>3, <1>4, <3>1
  <2> QED
    BY <2>1
<1>9. OpenedWereSealed'
  <2>1. \A q \in Party : \A d \in Elems(opened[q]) : d[2] \in Nat
    <3>1. \A q \in Party : Elems(opened[q]) \subseteq Id
      BY <1>0, SMTT(40) DEF Shapes, Elems
    <3> QED
      BY <3>1, Ids
  <2> QED
    BY <1>1, <1>5, <2>1, Peers DEF RInv, OpenedWereSealed, Elems
<1>10. UsedAreKnown'
  BY <1>1, <1>2, <1>3 DEF RInv, UsedAreKnown, Same
<1>11. TokenCarriesOneMessage'
  <2>1. ASSUME NEW k \in net, k.token = t
        PROVE  k.id[1] = p /\ p \in rolled
    <3>1. Peer(k.id[1]) = Peer(p)
      BY <1>1, <2>1 DEF RInv, MessagesAreNumbered
    <3>2. k.id[1] = p
      BY <1>2, <3>1, Peers
    <3> QED
      BY <1>1, <2>1, <3>2 DEF RInv, UsedAreKnown
  <2> QED
    BY <1>1, <1>3, <2>1 DEF RInv, TokenCarriesOneMessage
<1>12. SpentTokensAreGone'
  BY <1>1, <1>8 DEF RInv, SpentTokensAreGone, Elems, Same
<1>13. TokensAreKept'
  BY <1>1 DEF RInv, TokensAreKept, Elems, Same
<1>14. AllAreSent'
  <2>1. ASSUME NEW q \in Party, NEW n \in 1..Len(sealed'[q])
        PROVE  \E k \in net' : k.id = <<q, n>> /\ k.intact
    <3>1. CASE n \in 1..Len(sealed[q])
      BY <1>1, <3>1 DEF RInv, AllAreSent
    <3>2. CASE q = p /\ n = Len(sealed[p]) + 1
      BY <1>1, <3>2
    <3> QED
      BY <1>4, <1>5, <3>1, <3>2
  <2> QED
    BY <2>1 DEF AllAreSent
<1> QED
  BY <1>7, <1>9, <1>10, <1>11, <1>12, <1>13, <1>14 DEF RInv

\* An altered copy carries the token its original carries.
LEMMA TamperKeeps ==
  ASSUME RInv, Shapes', NEW m \in net, Tamper(m)
  PROVE  RInv'
<1>1. PICK k \in Message :
        /\ k.id = m.id /\ k.token = m.token /\ k.chain = m.chain /\ ~ k.intact
        /\ net' = net \cup {k}
        /\ UNCHANGED <<rat, tokens, disk, clock, ledger, sealed, opened, when, rolled>>
  BY TamperDoes DEF RInv
<1>2. MessagesAreNumbered' /\ TokenCarriesOneMessage' /\ UsedAreKnown'
  BY <1>1 DEF RInv, MessagesAreNumbered, TokenCarriesOneMessage, UsedAreKnown
<1>3. OpenedWereSealed' /\ AllAreSent'
  BY <1>1 DEF RInv, OpenedWereSealed, AllAreSent
<1>4. SpentTokensAreGone' /\ TokensAreKept'
  BY <1>1 DEF RInv, SpentTokensAreGone, TokensAreKept
<1> QED
  BY <1>2, <1>3, <1>4 DEF RInv

\* The token of an opened message leaves the queue for good.
LEMMA OpenKeeps ==
  ASSUME RInv, Shapes', NEW p \in Party, NEW m \in net, Open(p, m)
  PROVE  RInv'
<1>0. Shapes
  BY DEF RInv
<1>1. /\ m \in Message /\ m.id[1] = Peer(p) /\ m.intact
      /\ Same(p)
      /\ rat'[p].queue = rat[p].queue \ {m.token}
      /\ rat'[p].used = rat[p].used
      /\ opened' = [opened EXCEPT ![p] = Append(opened[p], m.id)]
      /\ UNCHANGED <<tokens, disk, net, clock, sealed, rolled>>
  BY <1>0, OpenDoes
<1>2. \A q \in Party : Elems(opened'[q]) = IF q = p THEN Elems(opened[p]) \cup {m.id}
                                                    ELSE Elems(opened[q])
  <2>1. opened[p] \in Seq(Id) /\ m.id \in Id /\ opened'[p] = Append(opened[p], m.id)
    BY <1>0, <1>1 DEF Shapes, Message
  <2>2. \A q \in Party : q # p => opened'[q] = opened[q]
    BY <1>0, <1>1 DEF Shapes
  <2>3. Elems(opened'[p]) = Elems(opened[p]) \cup {m.id}
    BY <2>1, AppendFacts, SMTT(40) DEF Elems
  <2>4. \A q \in Party : q # p => Elems(opened'[q]) = Elems(opened[q])
    BY <2>2
  <2> QED
    BY <2>3, <2>4
<1>3. /\ \A q \in Party : q # p => ledger'[q] = ledger[q]
      /\ DOMAIN ledger'[p] \subseteq DOMAIN ledger[p] \cup {m.id}
  BY <1>0, StampDoes
<1>4. OpenedWereSealed'
  <2>1. \A q \in Party : \A d \in Elems(opened'[q]) :
          d[1] = Peer(q) /\ d[2] <= Len(sealed[Peer(q)])
    BY <1>1, <1>2 DEF RInv, OpenedWereSealed, MessagesAreNumbered
  <2>2. \A q \in Party : DOMAIN ledger'[q] \subseteq Elems(opened'[q])
    BY <1>2, <1>3 DEF RInv, OpenedWereSealed
  <2> QED
    BY <1>1, <2>1, <2>2 DEF OpenedWereSealed, Elems
<1>5. MessagesAreNumbered' /\ TokenCarriesOneMessage' /\ AllAreSent'
  BY <1>1, ZenonT(40) DEF RInv, MessagesAreNumbered, TokenCarriesOneMessage, AllAreSent
<1>6. UsedAreKnown'
  <2>1. \A k \in net : k.id[1] \in Party
    BY <1>0, Messages
  <2> QED
    BY <1>1, <2>1 DEF RInv, UsedAreKnown, Same
<1>7. SpentTokensAreGone'
  <2>1. ASSUME NEW q \in Party \ rolled, NEW k \in net, k.intact, k.id \in Elems(opened'[q])
        PROVE  k.token \notin rat'[q].queue
    <3>1. CASE k.id \in Elems(opened[q])
      BY <1>1, <2>1, <3>1 DEF RInv, SpentTokensAreGone, Elems, Same
    <3>2. CASE q = p /\ k.id = m.id
      BY <1>1, <3>2 DEF RInv, MessagesAreNumbered
    <3> QED
      BY <1>2, <2>1, <3>1, <3>2
  <2> QED
    BY <1>1, <2>1 DEF SpentTokensAreGone, Elems
<1>8. TokensAreKept'
  <2>1. ASSUME NEW q \in Party \ rolled, NEW u \in Token, u[1] = q, u[2] <= tokens[q],
               u \notin rat'[q].queue
        PROVE  \E k \in net : k.intact /\ k.token = u /\ k.id \in Elems(opened'[q])
    <3>1. CASE u \notin rat[q].queue
      BY <1>2, <2>1, <3>1 DEF RInv, TokensAreKept
    <3>2. CASE q = p /\ u = m.token
      BY <1>1, <1>2, <3>2
    <3> QED
      BY <1>1, <2>1, <3>1, <3>2 DEF Same
  <2> QED
    BY <1>1, <2>1 DEF TokensAreKept, Elems
<1> QED
  BY <1>4, <1>5, <1>6, <1>7, <1>8 DEF RInv

\* An end that loads an older state is rolled; any other has lost nothing.
LEMMA LoadKeeps ==
  ASSUME RInv, Shapes', NEW p \in Party, LoadState(p)
  PROVE  RInv'
<1>0. Shapes
  BY DEF RInv
<1>1. PICK s \in disk[p] :
        /\ rolled' = IF SameState(s, rat[p]) THEN rolled ELSE rolled \cup {p}
        /\ Same(p)
        /\ rat'[p].queue = s.queue /\ rat'[p].used = s.used
        /\ UNCHANGED <<tokens, disk, net, clock, ledger, sealed, opened, when>>
  BY <1>0, LoadDoes
<1>2. \A q \in Party \ rolled' : rat'[q].queue = rat[q].queue /\ rat'[q].used = rat[q].used
  BY <1>1 DEF Same, SameState
<1>3. rolled \subseteq rolled'
  BY <1>1
<1>4. MessagesAreNumbered' /\ OpenedWereSealed' /\ AllAreSent'
  BY <1>1 DEF RInv, MessagesAreNumbered, OpenedWereSealed, AllAreSent
<1>5. TokenCarriesOneMessage'
  BY <1>1, <1>3 DEF RInv, TokenCarriesOneMessage
<1>6. UsedAreKnown'
  <2>1. \A k \in net : k.id[1] \in Party
    BY <1>0, Messages
  <2> QED
    BY <1>1, <1>2, <1>3, <2>1 DEF RInv, UsedAreKnown
<1>7. SpentTokensAreGone' /\ TokensAreKept'
  BY <1>1, <1>2, <1>3 DEF RInv, SpentTokensAreGone, TokensAreKept
<1> QED
  BY <1>4, <1>5, <1>6, <1>7 DEF RInv

\* The invariant about tokens is inductive.
LEMMA NextRInv == RInv /\ [Next]_vars => RInv'
<1> SUFFICES ASSUME RInv, [Next]_vars PROVE RInv'
  OBVIOUS
<1>0. Shapes'
  BY NextShapes DEF RInv
<1>1. ASSUME UNCHANGED <<rat, tokens, net, sealed, opened, rolled>>,
             \A q \in Party : DOMAIN ledger'[q] \subseteq DOMAIN ledger[q]
      PROVE  RInv'
  <2>1. MessagesAreNumbered' /\ OpenedWereSealed' /\ AllAreSent'
    BY <1>1 DEF RInv, MessagesAreNumbered, OpenedWereSealed, AllAreSent
  <2>2. TokenCarriesOneMessage' /\ UsedAreKnown'
    BY <1>1 DEF RInv, TokenCarriesOneMessage, UsedAreKnown
  <2>3. SpentTokensAreGone' /\ TokensAreKept'
    BY <1>1 DEF RInv, SpentTokensAreGone, TokensAreKept
  <2> QED
    BY <1>0, <2>1, <2>2, <2>3 DEF RInv
<1>2. ASSUME NEW p \in Party, SaveState(p)
      PROVE  RInv'
  BY <1>1, <1>2 DEF SaveState
<1>3. CASE UNCHANGED vars
  BY <1>1, <1>3 DEF vars
<1>4. CASE Tick
  BY <1>1, <1>4 DEF Tick
<1>5. ASSUME NEW p \in Party, NEW m \in net, RefusedByCache(p, m)
      PROVE  RInv'
  <2>1. /\ \A q \in Party : DOMAIN ledger'[q] \subseteq DOMAIN ledger[q]
        /\ UNCHANGED <<rat, tokens, net, sealed, opened, rolled>>
    BY <1>5, RefusedDoes DEF RInv
  <2> QED
    BY <1>1, <2>1
<1> QED
  BY <1>0, <1>2, <1>3, <1>4, <1>5, RefillKeeps, SealKeeps, OpenKeeps, LoadKeeps, TamperKeeps DEF Next

\* No one-time token carries two messages of an end that kept its state
\* (protocol.py:438-453).
THEOREM TokensCarryOne == Spec => []TokenCarriesOneMessage
<1>1. RInv => TokenCarriesOneMessage
  BY DEF RInv
<1> QED
  BY <1>1, InitRInv, NextRInv, PTL DEF Spec

\* A token that carried a message that was opened is out of the queue of every
\* end that kept its state (protocol.py:456-478).
THEOREM SpentTokensStayGone == Spec => []SpentTokensAreGone
<1>1. RInv => SpentTokensAreGone
  BY DEF RInv
<1> QED
  BY <1>1, InitRInv, NextRInv, PTL DEF Spec

-----------------------------------------------------------------------------
(***************************************************************************)
(* Order.                                                                  *)
(***************************************************************************)
JInv == RInv /\ InStep

\* A message on the channel, sealed by an end in step, was sealed under a chain
\* that held exactly the secrets before its own.
LEMMA OpenIsNext ==
  ASSUME JInv, rolled = {}, NEW p \in Party, NEW m \in net, Open(p, m)
  PROVE  m.id = <<Peer(p), Len(opened[p]) + 1>>
<1>0. Shapes /\ ChainsAreComplete
  BY DEF JInv, RInv, InStep
<1> DEFINE c == rat[p].chain
           n == m.id[2]
           K == Len(opened[p])
<1>1. m.id[1] = Peer(p) /\ m.chain = Append(c, m.id)
  BY <1>0, OpenDoes
<1>2. c \in Seq(Id) /\ m.id \in Id /\ n \in 1..MaxSeals /\ K \in Nat /\ m.id = <<Peer(p), n>>
  <2>1. c \in Seq(Id) /\ opened[p] \in Seq(Id)
    BY <1>0 DEF Shapes, Ratchet
  <2>2. m.id \in Id /\ n \in 1..MaxSeals /\ m.id = <<Peer(p), n>>
    BY <1>0, <1>1, Messages
  <2> QED
    BY <2>1, <2>2
<1>3. {m.chain[i] : i \in 1..(Len(m.chain) - 1)} = Elems(c)
  <2>1. /\ Len(m.chain) = Len(c) + 1 /\ Len(c) \in Nat
        /\ \A i \in 1..Len(c) : m.chain[i] = c[i]
    BY <1>1, <1>2, AppendFacts
  <2>2. Len(m.chain) - 1 = Len(c)
    BY <2>1
  <2> QED
    BY <2>1, <2>2 DEF Elems
<1>4. \A d \in Id : d[1] = Peer(p) => (d[2] <= K <=> d[2] < n)
  BY <1>0, <1>1, <1>3, Peers DEF ChainsAreComplete
<1>5. n > K
  BY <1>1, <1>2, <1>4
<1>6. ~ (K + 1 < n)
  <2>1. K + 1 < n => <<Peer(p), K + 1>> \in Id
    BY <1>2, Peers, RatchetAssumption, SMTT(40) DEF Id
  <2> QED
    BY <1>2, <1>4, <2>1
<1>7. n = K + 1
  BY <1>2, <1>5, <1>6
<1> QED
  BY <1>2, <1>7

\* Chains are empty at first.
LEMMA InitJInv == Init => JInv
<1> SUFFICES ASSUME Init PROVE JInv
  OBVIOUS
<1>1. /\ \A p \in Party : sealed[p] = <<>> /\ opened[p] = <<>> /\ rat[p].chain = <<>>
      /\ net = {}
  BY DEF Init, NewRatchet
<1>2. \A p \in Party : Elems(rat[p].chain) = {} /\ Len(sealed[p]) = 0 /\ Len(opened[p]) = 0
  BY <1>1 DEF Elems
<1>3. ChainsAreComplete
  BY <1>1, <1>2, Ids DEF ChainsAreComplete
<1>4. OneWay
  BY <1>1, Peers DEF OneWay
<1> QED
  BY <1>3, <1>4, InitRInv DEF JInv, InStep

\* Chains and histories that stay keep what is said of them.
LEMMA ChainsStay ==
  ASSUME JInv, rolled = {}, UNCHANGED <<sealed, opened>>,
         \A p \in Party : rat'[p].chain = rat[p].chain,
         \A k \in net' : \E m \in net : k.id = m.id /\ k.chain = m.chain
  PROVE  (ChainsAreComplete /\ OneWay)'
<1>0. ChainsAreComplete /\ OneWay
  BY DEF JInv, InStep
<1>1. ChainsAreComplete'
  BY <1>0 DEF ChainsAreComplete
<1>2. OneWay'
  BY <1>0, Peers DEF OneWay
<1> QED
  BY <1>1, <1>2

\* A message's chain ends with its own secret.
LEMMA SealExtends ==
  ASSUME JInv, rolled = {}, NEW p \in Party, NEW t \in HandedTo(p), Seal(p, t)
  PROVE  (ChainsAreComplete /\ OneWay)'
<1>0. Shapes /\ ChainsAreComplete /\ OneWay /\ MessagesAreNumbered
  BY DEF JInv, RInv, InStep
<1> DEFINE c == rat[p].chain
           L == Len(sealed[p])
<1>1. PICK m \in Message :
        /\ m.id = <<p, L + 1>>
        /\ m.chain = Append(c, m.id)
        /\ net' = net \cup {m}
        /\ sealed' = [sealed EXCEPT ![p] = Append(sealed[p], m.id)]
        /\ Same(p)
        /\ rat'[p].chain = m.chain
        /\ UNCHANGED opened
  BY <1>0, SealDoes
<1>2. c \in Seq(Id) /\ m.id \in Id /\ sealed[p] \in Seq(Id)
  BY <1>0 DEF Shapes, Ratchet, Message
<1>3. /\ L \in Nat /\ Len(m.chain) = Len(c) + 1 /\ Len(c) \in Nat
      /\ m.chain[Len(c) + 1] = m.id
      /\ \A i \in 1..Len(c) : m.chain[i] = c[i]
      /\ Elems(m.chain) = Elems(c) \cup {m.id}
  <2> DEFINE d == m.id
             u == m.chain
  <2>1. c \in Seq(Id) /\ d \in Id /\ u = Append(c, d) /\ L \in Nat
    BY <1>1, <1>2
  <2> HIDE DEF c, d, u, L
  <2>2. /\ Len(u) = Len(c) + 1 /\ Len(c) \in Nat /\ u[Len(c) + 1] = d
        /\ \A i \in 1..Len(c) : u[i] = c[i]
    BY <2>1
  <2>3. Elems(u) = Elems(c) \cup {d}
    BY <2>1, AppendFacts
  <2> QED
    BY <2>1, <2>2, <2>3 DEF d, u
<1>4. sealed'[p] = Append(sealed[p], m.id) /\ Len(sealed'[p]) = L + 1
      /\ \A q \in Party : q # p => sealed'[q] = sealed[q] /\ rat'[q].chain = rat[q].chain
  BY <1>0, <1>1, <1>2, AppendFacts DEF Shapes, Same
<1>5. \A q \in Party : \A d \in Id :
        d \in Elems(rat'[q].chain) <=>
          d[2] <= Len(IF d[1] = q THEN sealed'[q] ELSE opened[q])
  <2>1. ASSUME NEW d \in Id
        PROVE  d \in Elems(rat'[p].chain) <=>
                 d[2] <= Len(IF d[1] = p THEN sealed'[p] ELSE opened[p])
    <3>1. d[2] \in Nat /\ d = <<d[1], d[2]>>
      BY Ids
    <3>2. d \in Elems(rat'[p].chain) <=> d \in Elems(c) \/ d = m.id
      BY <1>1, <1>3
    <3>3. d = m.id <=> d[1] = p /\ d[2] = L + 1
      BY <1>1, <3>1
    <3>4. d \in Elems(c) <=> d[2] <= Len(IF d[1] = p THEN sealed[p] ELSE opened[p])
      BY <1>0 DEF ChainsAreComplete
    <3>5. CASE d[1] = p
      BY <1>3, <1>4, <3>1, <3>2, <3>3, <3>4, <3>5
    <3>6. CASE d[1] # p
      BY <3>2, <3>3, <3>4, <3>6
    <3> QED
      BY <3>5, <3>6
  <2> QED
    BY <1>0, <1>4, <2>1 DEF ChainsAreComplete
<1>6. \A k \in net' : \A d \in Id : d[1] = k.id[1] =>
        (d \in {k.chain[i] : i \in 1..(Len(k.chain) - 1)} <=> d[2] < k.id[2])
  <2>1. Len(m.chain) - 1 = Len(c)
    BY <1>3
  <2>2. {m.chain[i] : i \in 1..(Len(m.chain) - 1)} = Elems(c)
    BY <1>3, <2>1, SMTT(40) DEF Elems
  <2>3. \A d \in Id : d[1] = p => (d \in Elems(c) <=> d[2] < L + 1)
    BY <1>0, <1>3, Ids DEF ChainsAreComplete
  <2>4. m.id[1] = p /\ m.id[2] = L + 1
    BY <1>1
  <2>5. \A k \in net : \A d \in Id : d[1] = k.id[1] =>
          (d \in {k.chain[i] : i \in 1..(Len(k.chain) - 1)} <=> d[2] < k.id[2])
    BY <1>0 DEF ChainsAreComplete
  <2>6. \A d \in Id : d[1] = m.id[1] =>
          (d \in {m.chain[i] : i \in 1..(Len(m.chain) - 1)} <=> d[2] < m.id[2])
    BY <2>2, <2>3, <2>4
  <2>7. \A k \in net' : k \in net \/ k = m
    BY <1>1
  <2> QED
    BY <2>5, <2>6, <2>7
<1>7. ChainsAreComplete'
  BY <1>0, <1>1, <1>5, <1>6 DEF ChainsAreComplete, Elems
<1>8. OneWay'
  <2>1. sealed'[p] # <<>>
    BY <1>3, <1>4
  <2>2. ASSUME sealed'[Peer(p)] = <<>>
        PROVE  /\ rat'[p].chain = sealed'[p] /\ rat'[Peer(p)].chain = opened[Peer(p)]
               /\ \A k \in net' : k.id[1] = p =>
                    Len(k.chain) = k.id[2] /\ \A i \in 1..k.id[2] : k.chain[i] = <<p, i>>
    <3>1. sealed[Peer(p)] = <<>> /\ rat'[Peer(p)].chain = rat[Peer(p)].chain
      BY <1>4, <2>2, Peers
    <3>2. c = sealed[p] /\ rat[Peer(p)].chain = opened[Peer(p)]
      BY <1>0, <3>1 DEF OneWay
    <3>3. Len(m.chain) = L + 1 /\ \A i \in 1..(L + 1) : m.chain[i] = <<p, i>>
      BY <1>0, <1>1, <1>3, <3>2 DEF MessagesAreNumbered
    <3>4. m.id[2] = L + 1
      BY <1>1
    <3> QED
      BY <1>0, <1>1, <1>4, <3>1, <3>2, <3>3, <3>4 DEF OneWay
  <2>3. \A q \in Party : q = p \/ (q = Peer(p) /\ Peer(q) = p)
    BY Peers
  <2> QED
    BY <1>1, <2>1, <2>2, <2>3 DEF OneWay
<1> QED
  BY <1>7, <1>8

\* What is opened is next, so the opener's chain stays complete.
LEMMA OpenExtends ==
  ASSUME JInv, rolled = {}, NEW p \in Party, NEW m \in net, Open(p, m)
  PROVE  (ChainsAreComplete /\ OneWay)'
<1>0. Shapes /\ ChainsAreComplete /\ OneWay /\ MessagesAreNumbered
  BY DEF JInv, RInv, InStep
<1> DEFINE c == rat[p].chain
           K == Len(opened[p])
<1>1. /\ m \in Message /\ m.id[1] = Peer(p) /\ m.chain = Append(c, m.id)
      /\ Same(p) /\ rat'[p].chain = m.chain
      /\ opened' = [opened EXCEPT ![p] = Append(opened[p], m.id)]
      /\ UNCHANGED <<net, sealed>>
  BY <1>0, OpenDoes
<1>2. m.id = <<Peer(p), K + 1>> /\ m.id \in Id /\ c \in Seq(Id) /\ opened[p] \in Seq(Id)
  BY <1>0, <1>1, OpenIsNext DEF Shapes, Ratchet, Message
<1>3. /\ K \in Nat /\ Len(opened'[p]) = K + 1 /\ opened'[p] = Append(opened[p], m.id)
      /\ opened'[p][K + 1] = m.id
      /\ \A i \in 1..K : opened'[p][i] = opened[p][i]
      /\ Elems(m.chain) = Elems(c) \cup {m.id}
      /\ \A q \in Party : q # p => opened'[q] = opened[q] /\ rat'[q].chain = rat[q].chain
  <2>1. opened'[p] = Append(opened[p], m.id)
    BY <1>0, <1>1 DEF Shapes
  <2>2. \A q \in Party : q # p => opened'[q] = opened[q] /\ rat'[q].chain = rat[q].chain
    BY <1>0, <1>1 DEF Shapes, Same
  <2>3. /\ K \in Nat /\ Len(opened'[p]) = K + 1 /\ opened'[p][K + 1] = m.id
        /\ \A i \in 1..K : opened'[p][i] = opened[p][i]
    <3>1. opened[p] \in Seq(Id) /\ m.id \in Id
      BY <1>2
    <3> QED
      BY <2>1, <3>1, AppendFacts
  <2>4. Elems(m.chain) = Elems(c) \cup {m.id}
    <3> DEFINE d == m.id
               u == m.chain
    <3>1. c \in Seq(Id) /\ d \in Id /\ u = Append(c, d)
      BY <1>1, <1>2
    <3> HIDE DEF c, d, u
    <3>2. Elems(u) = Elems(c) \cup {d}
      BY <3>1, AppendFacts
    <3> QED
      BY <3>2 DEF d, u
  <2> QED
    BY <2>1, <2>2, <2>3, <2>4
<1>4. \A q \in Party : \A d \in Id :
        d \in Elems(rat'[q].chain) <=>
          d[2] <= Len(IF d[1] = q THEN sealed[q] ELSE opened'[q])
  <2>1. ASSUME NEW d \in Id
        PROVE  d \in Elems(rat'[p].chain) <=>
                 d[2] <= Len(IF d[1] = p THEN sealed[p] ELSE opened'[p])
    <3>1. d[2] \in Nat /\ d = <<d[1], d[2]>> /\ d[1] \in Party
      BY Ids
    <3>2. d \in Elems(rat'[p].chain) <=> d \in Elems(c) \/ d = m.id
      BY <1>1, <1>3
    <3>3. d = m.id <=> d[1] # p /\ d[2] = K + 1
      BY <1>2, <3>1, Peers
    <3>4. d \in Elems(c) <=> d[2] <= Len(IF d[1] = p THEN sealed[p] ELSE opened[p])
      BY <1>0 DEF ChainsAreComplete
    <3>5. CASE d[1] = p
      BY <3>2, <3>3, <3>4, <3>5
    <3>6. CASE d[1] # p
      BY <1>3, <3>1, <3>2, <3>3, <3>4, <3>6
    <3> QED
      BY <3>5, <3>6
  <2> QED
    BY <1>0, <1>3, <2>1 DEF ChainsAreComplete
<1>5. \A q \in Party : \A i \in 1..Len(opened'[q]) : opened'[q][i] = <<Peer(q), i>>
  <2>1. ASSUME NEW i \in 1..(K + 1) PROVE opened'[p][i] = <<Peer(p), i>>
    <3>1. CASE i \in 1..K
      BY <1>0, <1>3, <3>1 DEF ChainsAreComplete
    <3>2. CASE i = K + 1
      BY <1>2, <1>3, <3>2
    <3> QED
      BY <1>3, <3>1, <3>2
  <2>2. \A q \in Party : q # p =>
          \A i \in 1..Len(opened'[q]) : opened'[q][i] = <<Peer(q), i>>
    BY <1>0, <1>3 DEF ChainsAreComplete
  <2> QED
    BY <1>3, <2>1, <2>2
<1>6. ChainsAreComplete'
  BY <1>0, <1>1, <1>4, <1>5 DEF ChainsAreComplete, Elems
<1>7. OneWay'
  <2>1. sealed[Peer(p)] # <<>>
    <3>1. m.id[2] <= Len(sealed[Peer(p)]) /\ m.id[2] = K + 1
      BY <1>0, <1>1, <1>2 DEF MessagesAreNumbered
    <3> QED
      BY <1>3, <3>1
  <2>2. ASSUME sealed[p] = <<>>
        PROVE  /\ rat'[Peer(p)].chain = sealed[Peer(p)] /\ rat'[p].chain = opened'[p]
               /\ \A k \in net : k.id[1] = Peer(p) =>
                    /\ Len(k.chain) = k.id[2]
                    /\ \A i \in 1..k.id[2] : k.chain[i] = <<Peer(p), i>>
    BY <1>0, <1>1, <1>3, <2>2, Peers DEF OneWay
  <2>3. \A q \in Party : q = p \/ (q = Peer(p) /\ Peer(q) = p)
    BY Peers
  <2> QED
    BY <1>1, <2>1, <2>2, <2>3 DEF OneWay
<1> QED
  BY <1>6, <1>7

\* The invariant about chains is inductive.
LEMMA NextJInv == JInv /\ [Next]_vars => JInv'
<1> SUFFICES ASSUME JInv, [Next]_vars PROVE JInv'
  OBVIOUS
<1>0. RInv' /\ Shapes
  BY NextRInv DEF JInv, RInv
<1> SUFFICES ASSUME rolled' = {} PROVE (ChainsAreComplete /\ OneWay)'
  BY <1>0 DEF JInv, InStep
<1>1. ASSUME NEW p \in Party, NEW count \in 1..MaxTokens, Refill(p, count)
      PROVE  (ChainsAreComplete /\ OneWay)'
  BY <1>0, <1>1, RefillDoes, ChainsStay DEF Same
<1>2. ASSUME NEW p \in Party, LoadState(p)
      PROVE  (ChainsAreComplete /\ OneWay)'
  <2>1. PICK s \in disk[p] :
           /\ rolled' = IF SameState(s, rat[p]) THEN rolled ELSE rolled \cup {p}
           /\ Same(p) /\ rat'[p].chain = s.chain
           /\ UNCHANGED <<net, sealed, opened>>
    BY <1>0, <1>2, LoadDoes
  <2>2. rolled = {} /\ SameState(s, rat[p])
    BY <2>1
  <2> QED
    BY <2>1, <2>2, ChainsStay DEF Same, SameState
<1>3. ASSUME NEW p \in Party, SaveState(p)
      PROVE  (ChainsAreComplete /\ OneWay)'
  BY <1>3, ChainsStay DEF SaveState
<1>4. ASSUME NEW m \in net, Tamper(m)
      PROVE  (ChainsAreComplete /\ OneWay)'
  BY <1>0, <1>4, TamperDoes, ChainsStay
<1>5. CASE UNCHANGED <<rat, net, sealed, opened, rolled>>
  BY <1>5, ChainsStay
<1>6. ASSUME NEW p \in Party, NEW t \in HandedTo(p), Seal(p, t)
      PROVE  (ChainsAreComplete /\ OneWay)'
  BY <1>6, SealExtends DEF Seal
<1>7. ASSUME NEW p \in Party, NEW m \in net, Open(p, m)
      PROVE  (ChainsAreComplete /\ OneWay)'
  BY <1>7, OpenExtends DEF Open
<1>8. Tick \/ UNCHANGED vars \/ (\E p \in Party, m \in net : RefusedByCache(p, m))
        => UNCHANGED <<rat, net, sealed, opened, rolled>>
  BY DEF Tick, RefusedByCache, vars
<1> QED
  BY <1>1, <1>2, <1>3, <1>4, <1>5, <1>6, <1>7, <1>8 DEF Next

\* Complete chains mean that messages were opened in order.
LEMMA InOrder == JInv => OpenedInOrder
<1> SUFFICES ASSUME JInv, rolled = {}, NEW p \in Party
             PROVE  /\ Len(opened[p]) <= Len(sealed[Peer(p)])
                    /\ \A i \in 1..Len(opened[p]) : opened[p][i] = sealed[Peer(p)][i]
  BY DEF OpenedInOrder
<1>0. Shapes /\ ChainsAreComplete /\ MessagesAreNumbered /\ OpenedWereSealed
  BY DEF JInv, RInv, InStep
<1> DEFINE q == Peer(p)
           K == Len(opened[p])
<1>1. q \in Party /\ K \in Nat /\ Len(sealed[q]) \in Nat
  BY <1>0, Peers DEF Shapes
<1>2. \A i \in 1..K : opened[p][i] = <<q, i>>
  BY <1>0 DEF ChainsAreComplete
<1>3. \A i \in 1..K : i <= Len(sealed[q])
  <2>1. ASSUME NEW i \in 1..K PROVE i <= Len(sealed[q])
    <3>1. opened[p][i] \in Elems(opened[p])
      BY DEF Elems
    <3>2. opened[p][i][2] <= Len(sealed[q])
      BY <1>0, <3>1 DEF OpenedWereSealed
    <3> QED
      BY <1>2, <3>2
  <2> QED
    BY <2>1
<1>4. K <= Len(sealed[q])
  <2>1. CASE K = 0
    BY <1>1, <2>1
  <2>2. CASE K # 0
    BY <1>1, <1>3, <2>2
  <2> QED
    BY <2>1, <2>2
<1>5. \A i \in 1..K : sealed[q][i] = <<q, i>>
  BY <1>0, <1>1, <1>3 DEF MessagesAreNumbered
<1> QED
  BY <1>2, <1>4, <1>5

\* With one end sealing, complete chains make the next message openable.
LEMMA Openable == JInv => NextIsOpenable
<1> SUFFICES ASSUME JInv, NEW p \in Party,
                    sealed[Peer(p)] = <<>>, rolled = {},
                    Len(opened[Peer(p)]) + 1 <= Len(sealed[p])
             PROVE  \E m \in net :
                      /\ m.id = sealed[p][Len(opened[Peer(p)]) + 1]
                      /\ Verified(Peer(p), m) /\ Decrypts(Peer(p), m) /\ Unseen(Peer(p), m)
  BY DEF NextIsOpenable
<1>0. /\ Shapes /\ ChainsAreComplete /\ OneWay /\ MessagesAreNumbered /\ OpenedWereSealed
      /\ TokensAreKept /\ TokenCarriesOneMessage /\ AllAreSent
  BY DEF JInv, RInv, InStep
<1> DEFINE q == Peer(p)
           n == Len(opened[q]) + 1
<1>1. /\ q \in Party /\ q # p /\ Peer(q) = p
      /\ opened[q] \in Seq(Id) /\ sealed[p] \in Seq(Id) /\ rat[q].chain \in Seq(Id)
  BY <1>0, Peers DEF Shapes, Ratchet
<1>2. n \in 1..Len(sealed[p]) /\ n \in Nat /\ sealed[p][n] = <<p, n>>
  BY <1>0, <1>1 DEF MessagesAreNumbered
<1>3. PICK m \in net : m.id = <<p, n>> /\ m.intact
  BY <1>0, <1>2 DEF AllAreSent
<1>4. /\ m.id[1] = p /\ m.id[2] = n /\ m.id \in Id /\ m.token \in Token /\ m.chain \in Seq(Id)
  BY <1>0, <1>3, Messages
<1>5. \A i \in 1..Len(opened[q]) : opened[q][i] = <<p, i>>
  BY <1>0, <1>1 DEF ChainsAreComplete
<1>6. m.id \notin Elems(opened[q])
  BY <1>1, <1>3, <1>5 DEF Elems
<1>7. m.token \in rat[q].queue
  <2>1. m.token[1] = q /\ m.token[2] <= tokens[q]
    BY <1>0, <1>4 DEF MessagesAreNumbered
  <2>2. \A k \in net : k.token = m.token => k.id = m.id
    BY <1>0 DEF TokenCarriesOneMessage
  <2> QED
    BY <1>0, <1>1, <1>4, <1>6, <2>1, <2>2 DEF TokensAreKept
<1>8. Append(rat[q].chain, m.id) = m.chain
  <2>1. rat[q].chain = opened[q]
    BY <1>0 DEF OneWay
  <2>2. Len(m.chain) = n /\ \A i \in 1..n : m.chain[i] = <<p, i>>
    BY <1>0, <1>4 DEF OneWay
  <2> DEFINE d == m.id
             u == m.chain
             o == opened[q]
  <2>3. /\ o \in Seq(Id) /\ d \in Id /\ u \in Seq(Id) /\ d = <<p, n>> /\ n = Len(o) + 1
        /\ Len(u) = n /\ \A i \in 1..n : u[i] = <<p, i>>
        /\ \A i \in 1..Len(o) : o[i] = <<p, i>>
    BY <1>1, <1>3, <1>4, <1>5, <2>2
  <2> HIDE DEF d, u, o, n
  <2>4. Append(o, d) = u
    <3>1. Append(o, d) \in Seq(Id) /\ Len(Append(o, d)) = Len(o) + 1 /\ Len(o) \in Nat
      BY <2>3
    <3>2. ASSUME NEW i \in 1..n PROVE Append(o, d)[i] = u[i]
      <4>1. CASE i \in 1..Len(o)
        <5>1. Append(o, d)[i] = o[i]
          BY <2>3, <4>1
        <5> QED
          BY <2>3, <4>1, <5>1
      <4>2. CASE i = Len(o) + 1
        <5>1. Append(o, d)[Len(o) + 1] = d
          BY <2>3
        <5> QED
          BY <2>3, <4>2, <5>1
      <4> QED
        BY <2>3, <3>1, <4>1, <4>2
    <3> QED
      BY <2>3, <3>1, <3>2
  <2> QED
    BY <2>1, <2>4 DEF d, u, o
<1>9. Unseen(q, m)
  BY <1>0, <1>1, <1>6 DEF OpenedWereSealed, Unseen, Kept
<1> QED
  BY <1>1, <1>2, <1>3, <1>4, <1>7, <1>8, <1>9 DEF Verified, Decrypts

\* What an end opens is what its peer sealed, in order, without gaps and
\* repeats, while both keep their state, saved and loaded or not, and whether
\* one end seals or both (protocol.py:438-478).
THEOREM OpenedIsInOrder == Spec => []OpenedInOrder
BY InitJInv, NextJInv, InOrder, PTL DEF Spec

\* The next message of the only sealing end can always be opened, whatever was
\* lost, repeated or altered (protocol.py:456-478).
THEOREM NextStaysOpenable == Spec => []NextIsOpenable
BY InitJInv, NextJInv, Openable, PTL DEF Spec

-----------------------------------------------------------------------------
(***************************************************************************)
(* Repeats.                                                                *)
(***************************************************************************)
\* What an end opened at most Ttl ago is in its replay cache, stamped no earlier.
RecentIsRemembered ==
  Ledger => \A p \in Party : \A i \in 1..Len(opened[p]) :
    clock - when[p][i] <= Ttl =>
      opened[p][i] \in DOMAIN ledger[p] /\ ledger[p][opened[p][i]] >= when[p][i]

AInv == RInv /\ RecentIsRemembered /\ ReopenedOnlyWhenForgotten

\* The times of the openings are no later than now.
LEMMA Times ==
  ASSUME Shapes, NEW p \in Party
  PROVE  /\ clock \in Nat /\ Ttl \in Nat
         /\ opened[p] \in Seq(Id) /\ when[p] \in Seq(Nat)
         /\ Len(opened[p]) \in Nat /\ Len(when[p]) = Len(opened[p])
         /\ \A i \in 1..Len(opened[p]) : when[p][i] \in 0..clock /\ opened[p][i] \in Id
         /\ \A d \in DOMAIN ledger[p] : ledger[p][d] \in 0..clock
<1>1. /\ clock \in Nat /\ Ttl \in Nat /\ opened[p] \in Seq(Id) /\ when[p] \in Seq(0..clock)
      /\ Len(when[p]) = Len(opened[p])
  BY RatchetAssumption, CacheAssumption DEF Shapes
<1>2. \A d \in DOMAIN ledger[p] : ledger[p][d] \in 0..clock
  BY DEF Shapes, CacheFits
<1> QED
  BY <1>1, <1>2

\* What was opened at most Ttl ago survives every purge.
LEMMA RecentIsKept ==
  ASSUME Shapes, RecentIsRemembered, Ledger, NEW p \in Party,
         NEW i \in 1..Len(opened[p]), clock - when[p][i] <= Ttl
  PROVE  /\ opened[p][i] \in Kept(ledger[p], clock)
         /\ ledger[p][opened[p][i]] >= when[p][i]
<1> DEFINE d == opened[p][i]
           t == ledger[p][d]
           w == when[p][i]
<1>1. d \in DOMAIN ledger[p] /\ t >= w
  BY DEF RecentIsRemembered
<1>2. clock \in Nat /\ Ttl \in Nat /\ t \in Nat /\ w \in Nat /\ clock - w <= Ttl
  BY <1>1, Times
<1> HIDE DEF t, w
<1>3. clock - t <= Ttl
  BY <1>1, <1>2
<1> QED
  BY <1>1, <1>3 DEF Kept, t, w

\* The record of openings gets one more entry.
LEMMA OpenRecords ==
  ASSUME Shapes, NEW p \in Party, NEW m \in net, Open(p, m)
  PROVE  /\ Len(opened'[p]) = Len(opened[p]) + 1
         /\ opened'[p][Len(opened[p]) + 1] = m.id /\ when'[p][Len(opened[p]) + 1] = clock
         /\ \A i \in 1..Len(opened[p]) :
              opened'[p][i] = opened[p][i] /\ when'[p][i] = when[p][i]
         /\ \A q \in Party : q # p => opened'[q] = opened[q] /\ when'[q] = when[q]
<1> DEFINE o == opened[p]
           w == when[p]
<1>1. /\ opened' = [opened EXCEPT ![p] = Append(o, m.id)]
      /\ when' = [when EXCEPT ![p] = Append(w, clock)]
      /\ m.id \in Id
  BY OpenDoes, StampDoes DEF Message
<1>2. /\ opened'[p] = Append(o, m.id) /\ when'[p] = Append(w, clock)
      /\ \A q \in Party : q # p => opened'[q] = opened[q] /\ when'[q] = when[q]
  BY <1>1 DEF Shapes
<1>3. o \in Seq(Id) /\ w \in Seq(Nat) /\ Len(w) = Len(o) /\ clock \in Nat
  BY Times
<1> HIDE DEF o, w
<1>4. /\ Len(Append(o, m.id)) = Len(o) + 1 /\ Append(o, m.id)[Len(o) + 1] = m.id
      /\ \A i \in 1..Len(o) : Append(o, m.id)[i] = o[i]
  BY <1>1, <1>3
<1>5. /\ Append(w, clock)[Len(o) + 1] = clock
      /\ \A i \in 1..Len(o) : Append(w, clock)[i] = w[i]
  BY <1>3
<1> QED
  BY <1>2, <1>4, <1>5 DEF o, w

\* Every step leaves in the cache what was opened lately.
LEMMA RecentStays == Shapes /\ RecentIsRemembered /\ [Next]_vars => RecentIsRemembered'
<1> SUFFICES ASSUME Shapes, RecentIsRemembered, [Next]_vars, Ledger,
                    NEW p \in Party, NEW i \in 1..Len(opened'[p]),
                    clock' - when'[p][i] <= Ttl
             PROVE  /\ opened'[p][i] \in DOMAIN ledger'[p]
                    /\ ledger'[p][opened'[p][i]] >= when'[p][i]
  BY DEF RecentIsRemembered
<1>1. CASE UNCHANGED <<clock, ledger, opened, when>>
  BY <1>1 DEF RecentIsRemembered
<1>2. CASE Tick
  <2>1. UNCHANGED <<ledger, opened, when>> /\ clock' = clock + 1
    BY <1>2 DEF Tick
  <2>2. clock \in Nat /\ when[p][i] \in Nat /\ Ttl \in Nat
    BY <2>1, Times
  <2>3. clock - when[p][i] <= Ttl
    BY <2>1, <2>2
  <2> QED
    BY <2>1, <2>3 DEF RecentIsRemembered
<1>3. ASSUME NEW q \in Party, NEW m \in net, RefusedByCache(q, m)
      PROVE  /\ opened'[p][i] \in DOMAIN ledger'[p]
             /\ ledger'[p][opened'[p][i]] >= when'[p][i]
  <2>1. UNCHANGED <<clock, opened, when>>
    BY <1>3, RefusedDoes
  <2>2. CASE q = p
    <3>1. /\ opened[p][i] \in Kept(ledger[p], clock)
          /\ ledger[p][opened[p][i]] >= when[p][i]
      BY <2>1, RecentIsKept
    <3>2. /\ Kept(ledger[p], clock) \subseteq DOMAIN ledger'[p]
          /\ \A k \in DOMAIN ledger'[p] : ledger'[p][k] = ledger[p][k]
      BY <1>3, <2>2, RefusedDoes
    <3> QED
      BY <2>1, <3>1, <3>2
  <2>3. CASE q # p
    <3>1. ledger'[p] = ledger[p]
      BY <1>3, <2>3, RefusedDoes
    <3> QED
      BY <2>1, <3>1 DEF RecentIsRemembered
  <2> QED
    BY <2>2, <2>3
<1>4. ASSUME NEW q \in Party, NEW m \in net, Open(q, m)
      PROVE  /\ opened'[p][i] \in DOMAIN ledger'[p]
             /\ ledger'[p][opened'[p][i]] >= when'[p][i]
  <2>1. clock' = clock
    BY <1>4, OpenDoes
  <2>2. CASE q # p
    <3>1. UNCHANGED <<ledger[p], opened[p], when[p]>>
      BY <1>4, <2>2, OpenRecords, StampDoes
    <3> QED
      BY <2>1, <3>1 DEF RecentIsRemembered
  <2>3. CASE q = p
    <3> DEFINE n == Len(opened[p]) + 1
    <3>1. /\ DOMAIN ledger'[p] = Kept(ledger[p], clock) \cup {m.id}
          /\ ledger'[p][m.id] = clock
          /\ \A k \in Kept(ledger[p], clock) : k # m.id => ledger'[p][k] = ledger[p][k]
      BY <1>4, <2>3, StampDoes
    <3>2. /\ Len(opened'[p]) = n /\ opened'[p][n] = m.id /\ when'[p][n] = clock
          /\ \A k \in 1..Len(opened[p]) : opened'[p][k] = opened[p][k] /\ when'[p][k] = when[p][k]
      BY <1>4, <2>3, OpenRecords
    <3>3. clock \in Nat /\ Len(opened[p]) \in Nat
      BY Times
    <3>4. CASE i \in 1..Len(opened[p])
      <4>1. /\ opened[p][i] \in Kept(ledger[p], clock)
            /\ ledger[p][opened[p][i]] >= when[p][i]
        BY <2>1, <3>2, <3>4, RecentIsKept
      <4>2. clock >= when[p][i]
        BY <3>4, Times
      <4> QED
        BY <3>1, <3>2, <3>4, <4>1, <4>2
    <3>5. CASE i = n
      BY <3>1, <3>2, <3>3, <3>5
    <3> QED
      BY <3>2, <3>3, <3>4, <3>5
  <2> QED
    BY <2>2, <2>3
<1> QED
  BY <1>1, <1>2, <1>3, <1>4 DEF Next, vars, Refill, Seal, SaveState, LoadState, Tamper

\* The token of an opened message keeps it from an end that kept its state; the
\* replay cache keeps it from any end as long as it remembers it.
LEMMA OpenForgets ==
  ASSUME AInv, NEW p \in Party, NEW m \in net, Open(p, m)
  PROVE  ReopenedOnlyWhenForgotten'
<1>0. Shapes
  BY DEF AInv, RInv
<1> DEFINE n == Len(opened[p]) + 1
<1>1. /\ Len(opened'[p]) = n /\ opened'[p][n] = m.id /\ when'[p][n] = clock
      /\ \A i \in 1..Len(opened[p]) : opened'[p][i] = opened[p][i] /\ when'[p][i] = when[p][i]
      /\ \A q \in Party : q # p => opened'[q] = opened[q] /\ when'[q] = when[q]
  BY <1>0, OpenRecords
<1>2. Len(opened[p]) \in Nat
  BY <1>0, Times
<1>3. rolled' = rolled /\ m.intact /\ m.token \in rat[p].queue
  BY <1>0, OpenDoes
<1>4. ASSUME NEW i \in 1..Len(opened[p]), opened[p][i] = m.id
      PROVE  p \in rolled /\ (Ledger => clock - when[p][i] > Ttl)
  <2>1. p \in rolled
    BY <1>3, <1>4 DEF AInv, RInv, SpentTokensAreGone
  <2>2. ASSUME Ledger, clock - when[p][i] <= Ttl PROVE FALSE
    <3>1. m.id \in Kept(ledger[p], clock)
      BY <1>0, <1>4, <2>2, RecentIsKept DEF AInv
    <3> QED
      BY <1>0, <2>2, <3>1, StampDoes
  <2>3. clock \in Nat /\ when[p][i] \in Nat /\ Ttl \in Nat
    BY <1>0, Times
  <2> QED
    BY <2>1, <2>2, <2>3
<1> SUFFICES ASSUME NEW q \in Party, NEW i \in 1..Len(opened'[q]), NEW j \in 1..Len(opened'[q]),
                    i < j, opened'[q][i] = opened'[q][j]
             PROVE  q \in rolled /\ (Ledger => when'[q][j] - when'[q][i] > Ttl)
  BY <1>3 DEF ReopenedOnlyWhenForgotten
<1>5. CASE q # p
  BY <1>1, <1>5 DEF AInv, ReopenedOnlyWhenForgotten
<1>6. CASE q = p /\ j \in 1..Len(opened[p])
  <2>1. i \in 1..Len(opened[p])
    BY <1>2, <1>6
  <2> QED
    BY <1>1, <1>6, <2>1 DEF AInv, ReopenedOnlyWhenForgotten
<1>7. CASE q = p /\ j = n
  <2>1. i \in 1..Len(opened[p])
    BY <1>1, <1>2, <1>7
  <2> QED
    BY <1>1, <1>4, <1>7, <2>1
<1> QED
  BY <1>1, <1>2, <1>5, <1>6, <1>7

\* The invariant about repeats is inductive.
LEMMA NextAInv == AInv /\ [Next]_vars => AInv'
<1> SUFFICES ASSUME AInv, [Next]_vars PROVE AInv'
  OBVIOUS
<1>1. RInv' /\ RecentIsRemembered'
  BY NextRInv, RecentStays DEF AInv, RInv
<1>2. ASSUME UNCHANGED <<opened, when>>, rolled \subseteq rolled'
      PROVE  ReopenedOnlyWhenForgotten'
  BY <1>2 DEF AInv, ReopenedOnlyWhenForgotten
<1>3. ASSUME NEW p \in Party, LoadState(p)
      PROVE  ReopenedOnlyWhenForgotten'
  <2>1. UNCHANGED <<opened, when>> /\ rolled \subseteq rolled'
    BY <1>3 DEF LoadState
  <2> QED
    BY <1>2, <2>1
<1>4. ReopenedOnlyWhenForgotten'
  BY <1>2, <1>3, OpenForgets
     DEF Next, vars, Refill, Seal, RefusedByCache, SaveState, Tamper, Tick
<1> QED
  BY <1>1, <1>4 DEF AInv

\* A message is opened a second time only by an end that came back from an
\* older state and, if open is given a replay cache, only when the cache has
\* forgotten the opening before (protocol.py:455-478, 320-328).
THEOREM MessagesReopenOnlyWhenForgotten == Spec => []ReopenedOnlyWhenForgotten
<1>1. Init => AInv
  <2> SUFFICES ASSUME Init PROVE AInv
    OBVIOUS
  <2>1. \A p \in Party : Len(opened[p]) = 0
    BY DEF Init
  <2>2. ReopenedOnlyWhenForgotten /\ RecentIsRemembered
    BY <2>1 DEF ReopenedOnlyWhenForgotten, RecentIsRemembered
  <2> QED
    BY <2>2, InitRInv DEF AInv
<1>2. AInv => ReopenedOnlyWhenForgotten
  BY DEF AInv
<1> QED
  BY <1>1, <1>2, NextAInv, PTL DEF Spec
=============================================================================
