----------------------------- MODULE KemRatchet -----------------------------
(***************************************************************************)
(* The two AsyncKEMRatchet objects of a pair (protocol.py:411-524) over a  *)
(* channel that loses, repeats, delays and reorders: what was sealed stays *)
(* in net for ever.  Every method holds the object's lock, so each is one  *)
(* action.                                                                 *)
(*                                                                         *)
(* The chain key is the sequence of the shared secrets mixed into it; the  *)
(* n-th message an end seals carries the n-th secret that end draws, so a  *)
(* message identifier names both.  save_state and load_state move an       *)
(* object through its encrypted file.  The replay cache an end may pass to *)
(* open forgets an identifier Ttl after it was stamped and refuses all     *)
(* while it is full; a sealed message never expires.                       *)
(***************************************************************************)
EXTENDS ReplayCacheOps, Sequences

CONSTANTS Party,          \* the two ends
          Sealers,        \* ends that seal messages
          QueueLimit,     \* max_queue_size given to the constructor
          UsedLimit,      \* max_used_keys given to the constructor
          LoadedQueueLimit, LoadedUsedLimit,   \* what load_state puts there
          Ledger,         \* TRUE: open is given a replay cache, which
                          \* outlives the object
          Restarts,       \* TRUE: objects are saved and loaded
          Stale,          \* TRUE: a load may bring back an older state
          MaxTokens,      \* bound: tokens an end generates
          MaxSeals,       \* bound: messages an end seals
          MaxAltered,     \* bound: altered copies on the channel
          MaxTime         \* bound of the clock

ASSUME RatchetAssumption ==
  /\ \E a, b \in Party : a # b /\ Party = {a, b}
  /\ Sealers \subseteq Party
  /\ {QueueLimit, UsedLimit, LoadedQueueLimit, LoadedUsedLimit} \subseteq Nat \ {0}
  /\ {Ledger, Restarts, Stale} \subseteq BOOLEAN
  /\ MaxTokens \in Nat /\ MaxSeals \in Nat
  /\ MaxAltered \in Nat /\ MaxTime \in Nat

VARIABLES rat,      \* the object of each end
          tokens,   \* how many tokens each end has generated
          disk,     \* the file of each end: {} or {the state saved last}
          net,      \* every message ever sealed, and altered copies
          clock,    \* time.time(), which accept reads
          ledger,   \* the replay cache of each end
          sealed,   \* history: messages each end sealed, in order
          opened,   \* history: messages each end opened, in order
          when,     \* history: the time of each of those openings
          rolled    \* history: ends that ever came back from an older state

vars == <<rat, tokens, disk, net, clock, ledger, sealed, opened, when, rolled>>

Peer(p) == CHOOSE q \in Party : q # p

Token == Party \X (1..MaxTokens)
Id == Party \X (1..MaxSeals)

NewRatchet ==
  [chain |-> <<>>, queue |-> {}, used |-> {},
   queueLimit |-> QueueLimit, usedLimit |-> UsedLimit]

\* establish_ratchet: both ends hold the same root; the tokens the
\* constructor adds are a first Refill.
Init ==
  /\ rat = [p \in Party |-> NewRatchet]
  /\ tokens = [p \in Party |-> 0]
  /\ disk = [p \in Party |-> {}]
  /\ net = {}
  /\ clock = 0
  /\ ledger = [p \in Party |-> EmptyCache]
  /\ sealed = [p \in Party |-> <<>>]
  /\ opened = [p \in Party |-> <<>>]
  /\ when = [p \in Party |-> <<>>]
  /\ rolled = {}

\* Mutated form of Room: the new tokens are not counted.
RoomBefore(p, count) == Cardinality(rat[p].queue) <= rat[p].queueLimit

Room(p, count) == Cardinality(rat[p].queue) + count <= rat[p].queueLimit

\* refill: all the tokens asked for, or none.
Refill(p, count) ==
  /\ Room(p, count)
  /\ tokens[p] + count <= MaxTokens
  /\ rat' = [rat EXCEPT ![p].queue =
               @ \cup {<<p, n>> : n \in (tokens[p] + 1)..(tokens[p] + count)}]
  /\ tokens' = [tokens EXCEPT ![p] = @ + count]
  /\ UNCHANGED <<disk, net, clock, ledger, sealed, opened, when, rolled>>

\* The tokens whose public half was handed to p's peer.
HandedTo(p) == {<<Peer(p), n>> : n \in 1..tokens[Peer(p)]}

\* Mutated form of Sealable: a token may be used again.
SealableAgain(p, t) ==
  /\ t \in HandedTo(p)
  /\ Cardinality(rat[p].used \cup {t}) <= rat[p].usedLimit

\* The checks of seal: the token is unused and the used-token set has room.
Sealable(p, t) ==
  /\ t \in HandedTo(p)
  /\ t \notin rat[p].used
  /\ Cardinality(rat[p].used \cup {t}) <= rat[p].usedLimit

\* seal: the next chain key is derived from a new secret, the message is
\* encrypted under it, chain and used set are committed together.
Seal(p, t) ==
  /\ p \in Sealers
  /\ Len(sealed[p]) < MaxSeals
  /\ Sealable(p, t)
  /\ LET id == <<p, Len(sealed[p]) + 1>>
         next == Append(rat[p].chain, id)
     IN  /\ net' = net \cup {[id |-> id, token |-> t, chain |-> next,
                              intact |-> TRUE]}
         /\ rat' = [rat EXCEPT ![p].chain = next, ![p].used = @ \cup {t}]
         /\ sealed' = [sealed EXCEPT ![p] = Append(@, id)]
  /\ UNCHANGED <<tokens, disk, clock, ledger, opened, when, rolled>>

Tamper(m) ==
  /\ Cardinality({k \in net : ~ k.intact}) < MaxAltered
  /\ net' = net \cup {[m EXCEPT !.intact = FALSE]}
  /\ UNCHANGED <<rat, tokens, disk, clock, ledger, sealed, opened, when, rolled>>

\* The sender, the signature and the header, which the tag covers too.
Verified(p, m) == m.id[1] = Peer(p) /\ m.intact

\* Mutated form of Decrypts: the chain the message was sealed under is not
\* the one the receiver derives.
DecryptsAnywhere(p, m) == m.token \in rat[p].queue

\* The token is still there, and the message key derived from this end's
\* chain key and the decapsulated secret is the one it was sealed with.
Decrypts(p, m) ==
  /\ m.token \in rat[p].queue
  /\ Append(rat[p].chain, m.id) = m.chain

\* The replay cache has forgotten the message, or never knew it.
Unseen(p, m) == Ledger => m.id \notin Kept(ledger[p], clock)

HasRoom(p) == Ledger => ~ Full(ledger[p], clock)

\* What open checks before anything moves, the replay cache last.
Opens(p, m) == Verified(p, m) /\ Decrypts(p, m) /\ Unseen(p, m) /\ HasRoom(p)

\* The cache stamps the message it accepts.
Stamp(p, m) ==
  /\ ledger' = IF Ledger THEN [ledger EXCEPT ![p] = AfterAccept(@, m.id, clock)]
                         ELSE ledger
  /\ opened' = [opened EXCEPT ![p] = Append(@, m.id)]
  /\ when' = [when EXCEPT ![p] = Append(@, clock)]

\* Mutated form of Open: the token stays in the queue.
OpenKeepsToken(p, m) ==
  /\ Opens(p, m)
  /\ Stamp(p, m)
  /\ rat' = [rat EXCEPT ![p].chain = m.chain]
  /\ UNCHANGED <<tokens, disk, net, clock, sealed, rolled>>

\* Mutated form of Open: the token leaves the queue when it is looked up,
\* before the message has proved to be good.
OpenTakesTokenFirst(p, m) ==
  /\ m.token \in rat[p].queue
  /\ IF Opens(p, m)
       THEN /\ Stamp(p, m)
            /\ rat' = [rat EXCEPT ![p].chain = Append(@, m.id),
                                  ![p].queue = @ \ {m.token}]
       ELSE /\ rat' = [rat EXCEPT ![p].queue = @ \ {m.token}]
            /\ UNCHANGED <<ledger, opened, when>>
  /\ UNCHANGED <<tokens, disk, net, clock, sealed, rolled>>

\* open: everything is checked first; chain and queue move together, and an
\* open that raises has changed neither.
Open(p, m) ==
  /\ Opens(p, m)
  /\ Stamp(p, m)
  /\ rat' = [rat EXCEPT ![p].chain = Append(@, m.id), ![p].queue = @ \ {m.token}]
  /\ UNCHANGED <<tokens, disk, net, clock, sealed, rolled>>

\* open raises because the cache knows the message or is full: only the cache
\* has changed, by its purge.
RefusedByCache(p, m) ==
  /\ Ledger /\ Verified(p, m) /\ Decrypts(p, m)
  /\ ~ Unseen(p, m) \/ ~ HasRoom(p)
  /\ ledger' = [ledger EXCEPT ![p] = AfterRefusal(@, clock)]
  /\ UNCHANGED <<rat, tokens, disk, net, clock, sealed, opened, when, rolled>>

Tick ==
  /\ clock < MaxTime
  /\ clock' = clock + 1
  /\ UNCHANGED <<rat, tokens, disk, net, ledger, sealed, opened, when, rolled>>

SaveState(p) ==
  /\ Restarts
  /\ disk' = [disk EXCEPT ![p] = {rat[p]}]
  /\ UNCHANGED <<rat, tokens, net, clock, ledger, sealed, opened, when, rolled>>

\* load_state rebuilds the object from the file and gives it the default
\* limits: those of the constructor are not in the record.
Loaded(s) ==
  [s EXCEPT !.queueLimit = LoadedQueueLimit, !.usedLimit = LoadedUsedLimit]

SameState(r, s) == r.chain = s.chain /\ r.queue = s.queue /\ r.used = s.used

LoadState(p) ==
  /\ Restarts
  /\ \E s \in disk[p] :
       /\ Stale \/ SameState(s, rat[p])
       /\ rat' = [rat EXCEPT ![p] = Loaded(s)]
       /\ rolled' = IF SameState(s, rat[p]) THEN rolled ELSE rolled \cup {p}
  /\ UNCHANGED <<tokens, disk, net, clock, ledger, sealed, opened, when>>

Next ==
  \/ \E p \in Party :
       \/ \E count \in 1..MaxTokens : Refill(p, count)
       \/ \E t \in HandedTo(p) : Seal(p, t)
       \/ \E m \in net : Open(p, m) \/ RefusedByCache(p, m)
       \/ SaveState(p)
       \/ LoadState(p)
  \/ \E m \in net : Tamper(m)
  \/ Tick

Spec == Init /\ [][Next]_vars

\* The receiver keeps trying what the channel holds, and time passes.
FairSpec ==
  /\ Spec
  /\ \A p \in Party : WF_vars(\E m \in net : Open(p, m))
  /\ WF_vars(Tick)

-----------------------------------------------------------------------------
Ratchet == [chain : Seq(Id), queue : SUBSET Token, used : SUBSET Token,
            queueLimit : Nat, usedLimit : Nat]
Message == [id : Id, token : Token, chain : Seq(Id), intact : BOOLEAN]

CacheFits(c, now) ==
  /\ DOMAIN c \subseteq Id /\ c \in [DOMAIN c -> 0..now]
  /\ Cardinality(DOMAIN c) <= MaxEntries

TypeOK ==
  /\ rat \in [Party -> Ratchet] /\ disk \in [Party -> SUBSET Ratchet]
  /\ tokens \in [Party -> 0..MaxTokens]
  /\ net \subseteq Message
  /\ sealed \in [Party -> Seq(Id)] /\ opened \in [Party -> Seq(Id)]
  /\ clock \in 0..MaxTime
  /\ when \in [Party -> Seq(0..clock)]
  /\ DOMAIN ledger = Party
  /\ \A p \in Party : /\ Len(when[p]) = Len(opened[p])
                      /\ CacheFits(ledger[p], clock)
  /\ \A p \in Party : Cardinality(rat[p].queue) <= rat[p].queueLimit
                      /\ Cardinality(rat[p].used) <= rat[p].usedLimit
  /\ rolled \subseteq Party

\* An end opens what its peer sealed, in the order it was sealed, without
\* gaps and without repeats, whatever the channel does, while both keep their
\* state.
OpenedInOrder ==
  rolled = {} => \A p \in Party :
    /\ Len(opened[p]) <= Len(sealed[Peer(p)])
    /\ \A i \in 1..Len(opened[p]) : opened[p][i] = sealed[Peer(p)][i]

\* While only one end seals and both have kept their state, its next message
\* is never out of reach: its token is still held, its chain is the receiver's,
\* the replay cache does not take it for an older one, and no altered copy and
\* no reload has spoiled any of it.  All that can hold it up is a full cache.
NextIsOpenable ==
  \A p \in Party :
    LET q == Peer(p)
        n == Len(opened[q]) + 1
    IN  sealed[q] = <<>> /\ rolled = {} /\ n <= Len(sealed[p]) =>
          \E m \in net : /\ m.id = sealed[p][n]
                         /\ Verified(q, m) /\ Decrypts(q, m) /\ Unseen(q, m)

\* No one-time token carries two messages of an end that kept its state.
TokenCarriesOneMessage ==
  \A m, k \in net :
    m.token = k.token /\ m.id[1] \notin rolled => m.id = k.id

\* A token that carried a message that was opened is gone from the queue, and
\* only an older state could bring it back.
SpentTokensAreGone ==
  \A p \in Party \ rolled, m \in net :
    m.intact /\ m.id \in {opened[p][i] : i \in 1..Len(opened[p])} =>
      m.token \notin rat[p].queue

\* A message is opened again only by an end that came back from an older state
\* and, if it passes a replay cache, only after the cache has forgotten the
\* opening before: nothing else refuses a message that never expires.
ReopenedOnlyWhenForgotten ==
  \A p \in Party : \A i, j \in 1..Len(opened[p]) :
    i < j /\ opened[p][i] = opened[p][j] =>
      p \in rolled /\ (Ledger => when[p][j] - when[p][i] > Ttl)

\* Every sealed message is opened, when the channel eventually delivers, the
\* receiver does not seal itself, neither end loses its state and the time of
\* the run does not end before the receiver's replay cache has room.
SealedIsOpened ==
  \A p \in Party, n \in 1..MaxSeals :
    Len(sealed[p]) >= n
      ~> \/ Len(opened[Peer(p)]) >= n
         \/ sealed[Peer(p)] # <<>>
         \/ rolled # {}
         \/ clock = MaxTime /\ ~ HasRoom(Peer(p))
=============================================================================
