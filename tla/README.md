# TLA+ models of pqc-a2a

`pqc-a2a` is a Python library for authenticated, encrypted messages between
agents: sealed envelopes with a replay cache, an interactive secure session, an
asynchronous KEM ratchet, a trust store, discovery, an in-process rendezvous and
relay, payload transport, and the files its state is kept in.
This directory models its protocol logic in TLA+, checks the models with TLC on
small instances and proves, with TLAPS, every safety property and every refinement
of the passing runs for every value of the constants. Source paths below are
relative to `src/src/pqc_a2a/`.

Cryptography is idealised everywhere: a signature or a tag verifies exactly when
nothing was altered, keys are equal exactly when they are derived from equal
inputs, and random values are never drawn twice. What is modelled is the state
around it: which checks run in which order, what is remembered, what is changed
when a step fails, and what happens when messages or processes misbehave.

## Inventory of the system

| Component | State | Operations | Interacts with | Hard behaviour | Correct when |
|---|---|---|---|---|---|
| Replay window (`secure_channel.py`) | highest number, pruned set | `accept`, `can_accept` | session | edges, pruning, range | it answers as a window that never forgets |
| Replay caches (`protocol.py`, `operations.py`) | identifier → time | `accept` with purge, limit, rollback | envelopes, ratchet, discovery | shared by threads, stale `now`, crash, full | what it forgets can no longer be used |
| Envelopes (`protocol.py`) | none of their own | `seal`, `open_envelope` | cache, trust store, hooks | several workers on one envelope, clock read early, hook raising late | opened at most once, altered copies burn nothing |
| Secure session (`secure_channel.py`) | session id, secrets, key, role, send number, window, answered ids | `hello`, `respond`, `accept_ack`, `encrypt`, `decrypt` | peer over a channel, replay window | lost, repeated, delayed messages; retries; rekeying; exhaustion | same key, fresh nonces, in-step windows |
| KEM ratchet (`protocol.py`) | chain key, token queue, used tokens, limits | `refill`, `seal`, `open`, `save_state`, `load_state` | peer, replay cache, state file | reordering, burnt tokens, reload, old files | opened in order, once; the next message is openable |
| Trust store (`protocol.py`) | pins, revocations, rotations | `add`, `revoke`, `rotate`, `save`, `load` | envelopes, discovery, file shared by processes | long sequences of calls, old files, several workers | revoked stays out, pins have an authority |
| Discovery (`discovery.py`, `a2a.py`) | spent challenges (in a cache) | `make_…`, `verify_…`, `provision_…` | trust store, replay cache | challenge spent before the card is checked | never replaces a pin, never lifts a revocation |
| Rendezvous, capabilities (`relay.py`) | handle → endpoint, lease | `register`, `lookup`, `issue_…`, `verify_capability` | opaque handles, clock | hour boundary, clock read before the lock, capacity tested after the insertion | a live registration is never lost, shortened or revived |
| Opaque relay (`relay.py`) | queue per handle, byte counter | `forward`, `receive` | sessions (carries records) | four limits, concurrent senders | FIFO, nothing lost, exact accounting |
| Fragmentation (`transport.py`) | none | `fragment`, `reassemble` | datagrams of the application | the number of frames depends on header lengths that depend on it; missing, repeated, mixed frames | every byte is carried; accepts the frames of one payload and nothing else |
| TCP fallback (`transport.py`) | socket | `send`, `recv` | byte stream | chunked reads, a timeout or an interrupted send within a frame | payloads come out as they went in, in order |
| State files (`protocol.py`) | file, lock file, temporary | `_file_lock`, `_atomic_write_json`, the three loads | identities, trust store, ratchet | failure, death or loss of power between two system calls; readers that keep a writer waiting | a register that is written at once and lasts |
| Secret provider (`operations.py`) | files, one fixed temporary name each | `put`, `get`, `destroy` | – | the temporary that a death leaves | the same; a put is never blocked by one that raised |
| Agent transport (`langgraph_adapter.py`) | session, timeout | `send` | session | late answer, sends in flight | an answer reaches its own request |
| Cards, JSON-RPC, archive signer, logs, metrics, CLI, TLS configuration | – | stateless, or configuration | – | – | – |

## Modules

| Module | Models | Checked by |
|---|---|---|
| `WindowOps` | `ReplayWindow` as a value: `CanAccept`, `Refuses`, `Advance` | through the two below |
| `ReplayWindow`, abstract `IdealWindow` | one window object under any calls; the abstract one keeps the whole history | `MCReplayWindow`, `SecureSession_proofs` |
| `ReplayCacheOps` | both caches as a value; `Durable` tells them apart in what a refusal leaves behind | through `EnvelopeOpen` and `KemRatchet` |
| `EnvelopeOpen`, abstract `AtMostOnce` | `seal`, `open_envelope`, crashes, hooks, altered copies | `MCEnvelopeOpen`, `EnvelopeOpen_proofs` |
| `SecureSession` (extends `WindowOps`, refines `AtMostOnce`) | two session objects and the channel between them | `MCSecureSession`, `SecureSession_proofs` |
| `KemRatchet` (extends `ReplayCacheOps`) | two ratchet objects, their files, their replay caches and the channel | `MCKemRatchet`, `KemRatchet_proofs` |
| `TrustStore` | store objects, their file, provisioning from discovery | through `TrustedOpen` |
| `TrustedOpen` (extends `TrustStore`) | envelopes being opened while the store changes | `MCTrustedOpen`, `TrustedOpen_proofs` |
| `Rendezvous` | capabilities, registrations, lookups, the hour boundary | `MCRendezvous`, `Rendezvous_proofs` |
| `Payloads`, `Fragmentation`, `TcpFallback` | byte strings; cutting and reassembling; framing over a byte stream | through `Transport` |
| `Transport` (composes them) | a payload cut into datagrams, or sent over the stream | `MCTransport`, `Transport_proofs` |
| `StateFiles`, abstract `AtomicFile` | the files of `protocol.py` and of `FileSecretProvider`, system call by system call | `MCStateFiles`, `StateFiles_proofs` |
| `OpaqueRelay` | the relay's queues, counter and limits | `MCOpaqueRelay`, `OpaqueRelay_proofs` |

How state and actions correspond to the code:

* **`ReplayWindow`**: `window` is `(highest, _seen)`; `Accept(s)` has one
  disjunct per return value; `Probe(s)` is `can_accept`. `accepted` and `reply`
  are history.
* **`EnvelopeOpen`**: `open_envelope` takes no lock, so it is several actions.
  `Begin` reads the clock and checks the window (lines 366-380). `GiveUp` is an
  exception in verification or decryption. `Refuse` and `Accept` are the call of
  `replay.accept` with the value of `now` read at `Begin`; the call is atomic
  because the cache holds its lock (or an SQLite write transaction) around it.
  `Return` and `LoseAccepted` are the hooks and the return. A worker may take up
  to `Stall` units from reading the clock to `accept`. `sent` never shrinks, which is
  loss, repetition, delay and reordering for free. `DurableReplayCache(":memory:")`
  has the SQL of the durable cache but dies with its process.
* **`SecureSession`**: every method holds the object's lock, so each is one
  action; `Fresh`, `Answerable`, `Bound`, `Addressed`, `Authentic` are the
  groups of checks of the handlers. A failing check raises before any assignment,
  so a refused call is a stutter. The one check that comes later, of the size of the
  finished record in `encrypt` (line 175), cannot fail: a payload of at most 8 MiB
  with its padding stays under the 16 MiB of a record. A key is the record of what it is derived from. `Restart`
  puts a new object in the place of an old one.
* **`KemRatchet`**: the chain key is the sequence of the secrets mixed into it.
  `Opens` is what `open` checks, the replay cache last: `Unseen` and `HasRoom` are
  the two answers of `accept`, `Stamp` what it does when both are good and
  `RefusedByCache` what its purge leaves when one is not. The cache (a value of
  `ReplayCacheOps`) forgets an identifier `Ttl` after it was stamped; a message on
  the channel never expires. `when` is history: the time of each opening.
  `Loaded` gives a loaded object the default limits, as `load_state` does.
  `HandedTo(p)` are the tokens whose public halves `p` has been given; the
  library leaves handing them over to the application.
* **`TrustStore`**: a store is a snapshot of the object's three fields;
  `Save` and `Load` move snapshots, so a load may bring an old one back.
  `anchored` and `condemned` are history carried with the snapshot.
* **`OpaqueRelay`**: a handle is in `DOMAIN queues` when a deque exists for it,
  even an empty one. `ForwardRefused` is the exception raised after the deque of
  a new handle was inserted. The sum over all queues that `forward` computes is
  the number of `Places` in them, and `BytesAreCounted` compares the counter with
  the set of all bytes that wait: sets, whose size can be reasoned about, in the
  place of sums.
* **`TrustedOpen`**: `require_trusted` is one look at the store at the start of
  `open_envelope`; `BeginOpen` is a call that has passed it, `EndOpen` its end.
* **`Rendezvous`**: `register` and `lookup` read the clock before they take the
  lock, so `now` is any reading at most `Stall` old. `Register` is the insertion
  and, when the table is now too large, the deletion. `RegisterRefused` is a
  purge with a bad capability after it; a refused `lookup` changes nothing.
  `lease` and `answer` are history.
* **`Fragmentation`**: `Count` is one turn of the loop that looks for the number
  of frames, `Cut` one of the loop that cuts them, both on the record of a call;
  `Reassembles` is whether `reassemble` returns. A header is `Base` bytes and the
  digits of index and total in `Radix`, 10 in the code; a smaller one makes
  headers grow on payloads of a few bytes. `Digits` counts them by dividing, so
  that it can be reasoned about. A digest is the payload it is of; `None` stands for
  bytes that `reassemble` does not parse as a frame.
* **`TcpFallback`**: `reading` is the `recv` call with the bytes it has so far;
  `Read` is one `sock.recv`, `ReadRaises` a timeout or the end of the stream,
  which drops those bytes. A header made of other bytes may say any length.
  `slipped` is history: a call stopped inside a frame.
* **`StateFiles`**: one file, of one of two kinds fixed in `Init`. A step is a
  system call; `Raise` is the next call failing, with the `finally` blocks that
  remove the temporary and release the lock; `Die` is the end of a process (one
  call of `_atomic_write_json`, or all threads of a provider); `LosePower`
  brings back what the directory held since it was synchronised last. This is
  what lets `TrustStore` and `KemRatchet` take a save or a load as one step.

Some modules hold a definition described as the *mutated form* of the next one.
It is the code with a plausible mistake in it, is used by no specification, and
is there so that each property can be seen to fail when the code is wrong.

## Runs

`tlc -config <cfg> <module>`; every run ends within about two minutes on two cores.

| Run | Question | Result | Distinct states |
|---|---|---|---|
| `replay_window` | does the pruned window decide as the unbounded one? | `WindowSummarisesHistory`, refinement of `IdealWindow` hold | 512 |
| `envelope` | several workers, old clock values, altered copies, raising hooks, restarts, a cache with room for one | at most once (as an invariant and as refinement of `AtMostOnce`), `ForgottenIsDead`, `OnlyGenuineRemembered`, and under fairness `OpenedIsDelivered` | 227,222 |
| `envelope_default` | retention equal to the validity, as the default values are | *violated*: opened twice | – |
| `session` | the initiator's object replaced, late hellos and answers, two epochs, an age limit; records lost, repeated, reordered, forged; numbers exhausted | `NonceNeverReused`, `SameSessionSameKey`, `NextRecordAcceptable`, bodies returned at most once, and under fairness `HandshakeCompletes` | 94,160 |
| `session_both_hello` | both ends call `hello` and answer each other | *violated*: one nonce used twice under one key | – |
| `ratchet` | a stream with limits, reloads of current and old files, altered copies, a replay cache that survives, forgets and is full at times | in order, the next one openable, one message per token, spent tokens gone, `ReopenedOnlyWhenForgotten`, and under fairness `SealedIsOpened` | 422,502 |
| `trust` | any sequence of calls, provisioning, saves and old loads, with envelopes opened meanwhile | `CondemnedStaysOut`, `PinsHaveAuthority`, and under fairness `RevokedFallsSilent` | 228,640 |
| `relay` | three handles against four limits | `OrderKept`, `BytesAreCounted`, `LimitsHold`, under fairness `ForwardedIsReceived` | 78,705 |
| `relay_drained` | is a relay that holds no record free of handles? | *violated*: an empty deque stays | – |
| `rendezvous` | renewals, lookups and purges with old clock values across hours, a table with room for two | `LastRegistrationStands`, `AnswersAreCurrent`, `RegistrationsAreGranted`, `LiveCapabilityVerifies` | 148,884 |
| `transport` | growing headers, disordered and altered datagrams; chunks, timeouts and interrupted sends on a stream | `FramesCarryPayload`, `ReassemblyIsExact`, `StreamInStep`, and under fairness `CallsEnd`, `StreamDelivers` | 287,244 |
| `state_files` | failures, deaths and losses of power between any two system calls | refinement of `AtomicFile`, `LitterMeansDeath`, and under fairness `CallsReturn` | 42,044 |

`TypeOK` of the trust store, the relay, the rendezvous and the window (`WindowTypeOK`) is stated in
its module but is in no configuration: what could break there is a part of the
properties listed (`LimitsHold`, `LastRegistrationStands`). The window's, the
relay's and the rendezvous's are proved (see below), and so is `SearchClimbs` of the
transport, which is in no configuration either: the run checks what follows
from it, `CallsEnd`.

### Bounds

Clocks, draws, sends, objects, tokens and rotations are capped by constants
named `Max…`, each in the guard of the action that counts. Because of the caps
the models stop in the end, so `CHECK_DEADLOCK FALSE` is set everywhere except
for the window, which never stops.

* *Window*: 3 with numbers 0..8 and arguments outside, so that a number can
  leave the window, be older than it, and skip it whole.
* *Envelopes*: two workers and two messages are enough for every race on one
  identifier while another one purges or fills the cache, which has room for one;
  validity 2, skew 1, stall 1 and retention 5 are the smallest values for which
  `validity + 2 * skew + stall <= retention`, which is where the argument is
  tight; the clock runs past the death of every envelope. The run has the cache
  in a file; the cache in memory is covered by the proofs, whose assumption
  `CacheSurvives` it meets as long as its process lives.
* *Session*: the initiator sends three records with numbers up to 1 and a window
  of 1, so the window moves and forgets and the numbers run out; two objects of
  the initiator and two clock steps around the maximum age make late handshakes
  both fresh and stale.
* *Ratchet*: two tokens, two messages, a queue limit of one; the defaults that
  `load_state` restores are larger than the configured limits. One end seals, one
  altered copy may appear. The replay cache has room for one identifier, so the
  second message meets a full cache, and keeps it for one tick of a clock that goes
  to two: a reloaded end is refused within the retention and does open the
  first message again after it. What a refusal forgets beside that, with room for
  several identifiers and in either kind of cache, is left to the proofs.
* *Trust store*: two agents, one with two identities, two rotations. One worker
  and its file are run: the properties are about each snapshot, and another
  worker acts on a snapshot only by saving one of its own.
* *Relay*: each of the four limits is reached before the others on some path.
* *Rendezvous*: an hour of two ticks and a clock that crosses an hour boundary
  with leases on both sides of it; three capabilities of two agents against
  two places, so that a renewal meets a full table.
* *Transport*: with radix 2 and a payload of nine bytes the four mtu values give
  a search that ends at once, one that takes another turn, one that ends beyond
  `max_fragments` and one whose headers are as long as the mtu. The receiver
  holds up to three datagrams, as many as the largest payload that is returned
  has frames, up to two of them altered; a byte limit that three frames can pass.
  Three sends over the stream, of
  payloads that are empty, fit, or are larger than the receiver takes.
* *State files*: three calls, so that two readers can overlap while a writer
  waits, and two values besides the absent file.

### Fairness

* Envelopes: a worker thread that began goes on until `open_envelope` ends.
  Nothing is assumed about messages.
* Session: the channel delivers a hello and an answer that both ends would
  still take. The library leaves retransmission to the application; safety
  assumes nothing of it.
* Ratchet and relay: the receiving application keeps trying what it has been
  sent, and keeps polling. Nobody is assumed to send. Time passes, so that a full
  replay cache gets room again; since the clock of a run stops at `MaxTime`,
  `SealedIsOpened` leaves out a receiver whose cache is still full then.
* Trust store: a call of `open_envelope` ends.
* Transport: a call of `fragment` goes on; a receiver calls `recv` again and
  again, and the network gives its bytes in the end to a reader who keeps asking
  (strong fairness of `Read`: a timeout may come first any number of times).
* State files: a thread in a call goes on; a caller gets a lock that is free
  again and again (strong fairness of `Acquire`). That it *is* free again and
  again is not assumed: see `ReadersPause` below.

### What the code promises and does not do

Three runs show a disagreement between the code and its documentation or tests;
the details are in `PROJECT.json` under `findings`. Further limits of the
code shape the bounds and the statements of the passing runs:

* `hello` called twice on one object lets the answer to the first hello be
  accepted with the second secret (`secure_channel.py:137`): the passing runs call
  it once per object. With `MaxHellos = 2`, `SameSessionSameKey` fails.
* A replaced *responder* may answer an old hello again, and `accept_ack` then
  rekeys the initiator without resetting its window and number
  (`secure_channel.py:150`): the passing runs replace the initiator. With the
  responder in `Restarter`, `NextRecordAcceptable` fails.
* `load_state` forgets the limits given to the constructor
  (`protocol.py:510`): `TypeOK` of the ratchet bounds a queue by the limit its
  object holds, not by the one it was created with.
* Two workers that load the trust file, change it and save it overwrite each
  other (`protocol.py:299`); a revocation may be lost that way.
* A rotation to an identity that was rotated out before succeeds and leaves the
  agent without a trusted identity (`protocol.py:293`).
* When both ends of a ratchet seal before either opens, the chains fork for good;
  `NextIsOpenable` and `SealedIsOpened` are stated for one-way traffic.
* A ratchet brought back from an old file holds the tokens it had spent and stands
  where its chain stood, and its messages carry no expiry. A replay cache that
  survived refuses them for as long as it remembers, `ttl_seconds` or 300 seconds by
  default (`protocol.py:322`, `operations.py:118`); meanwhile the end cannot catch
  up. After that it opens old messages again: that no message is ever opened twice
  is false in the run, cache or not. `ReopenedOnlyWhenForgotten` says that it
  happens in no other way. `OpenedInOrder`, `NextIsOpenable` and `SealedIsOpened`
  are stated as long as no end has loaded an older state.
* A replay cache at `max_entries` makes `open` raise (`protocol.py:325`). Chain and
  token stay, so the message can be opened once the cache has room:
  `NextIsOpenable` leaves `HasRoom` out, `SealedIsOpened` waits for it.
* When a header is exactly as long as the mtu, `fragment` returns frames that
  lack part of the payload instead of raising, and `reassemble` then reports a
  digest mismatch (`transport.py:200`): with the smallest mtu, 128, and a message
  id of 26 characters for instance. `FramesCarryPayload` asks that the longest
  header be shorter than the mtu (`Roomy`).
* The digest in every frame covers the joined payload and nothing of the frames.
  The search reckons with the longest header for every frame, so those with
  shorter ones may hold everything before the last, which stays empty. That one
  and its neighbour are a whole set with the same payload after their indices
  were exchanged. `ReassemblyIsExact` therefore says of any number of altered
  datagrams that what is returned is a payload that was sent whole, and of at most
  one that the frames are exactly those of that payload.
* After a read that stopped inside a frame the next `recv` takes payload bytes
  for a length (`transport.py:118`). `StreamInStep` and `StreamDelivers` say that
  nothing else gets the stream out of step. `send` takes no lock, so the model
  has one sending thread.
* `flock` lets a reader join readers while a writer waits, so loads that overlap
  for ever starve a save (`protocol.py:75`); without `ReadersPause`, TLC shows
  that behaviour with three calls.
* A secret's temporary that a dead process left refuses every later `put` of that
  secret (`operations.py:55`); `destroy` does not synchronise the directory, so
  the secret may be back after a loss of power (`AtomicFile` promises no more).
  Two provider objects on one directory are not excluded by a lock: the `unlink`
  at the end of one `put` may remove the temporary of another
  (`operations.py:69`); the model has one object.
* `issue_capability` reads the clock for the handle and again for the expiry:
  `LiveCapabilityVerifies` needs both readings within one tick (`Stall <= 1`).

## Proofs

Checked by TLAPS for every value of the constants allowed by the named
assumptions. Each proof module states the invariant it carries as a conjunction
of named parts, one lemma per action that each part survives it, and the theorems
at the end of what they need. The invariants were checked by TLC before they were
proved. Where a theorem has a hypothesis, it is one about the configuration; TLC
shows that it is needed where a run or a bound is named.

`SecureSession_proofs`, of a window by itself
* `WindowInvariant`: `WindowSpec => [](WindowTypeOK /\ WindowSummarisesHistory)`. The
  invariant is inductive: the set is what the history leaves inside the window
  and `highest` is the newest of the history.
* `ReplayWindowImplementsIdeal`: `WindowSpec => ImplementsIdeal`. Because a number that
  left the window is refused by its age, the pruned set and the whole history
  decide alike (`WindowDecidesAsIdeal`), so each step maps to the same step of
  `IdealWindow`.

`EnvelopeOpen_proofs`
* `TypeCorrect`: `Spec => []TypeOK`; the bound on the cache needs the finiteness
  and the cardinality of what a purge keeps.
* `AlteredCopiesBurnNothing`: `Spec => []OnlyGenuineRemembered`, for any cache and
  any retention. It is inductive together with the types and with what a worker
  holds (`Working`): the reading of the clock with which it stamps the cache is
  the one it checked the window with.
* `ForgottenCannotReturn`: `Spec => []ForgottenIsDead`, under `RetentionCovers`
  (validity + twice the skew + stall is at most the retention) and
  `CacheSurvives` (a file, or no restarts). `ForgottenIsDead` alone is not
  inductive: the proof also carries that an accepted identifier has one genuine
  envelope, that a worker's clock value is at most `Stall` old, and that it lies in
  the window of the envelope the worker holds. An entry stamped no earlier than
  `issued - skew` is purged only when `now > issued - skew + retention`, which
  by the first assumption is past every moment at which a worker can still
  accept it.
* `EnvelopeImplementsAtMostOnce` and `NothingIsDeliveredTwice` follow from that
  invariant under the same assumptions: an identifier that was accepted is
  remembered or no worker holds it, so `Accept` is enabled for it only once.

The first assumption is what the default values do not meet (`envelope_default`).

`SecureSession_proofs`, of the sessions
* `SessionsAreTyped`: `Spec => []TypeOK`. The size of a window needs that what it
  remembers lies inside it (`WindowsFit`).
* `SessionsImplementAtMostOnce`: `Spec => ImplementsAtMostOnce`, whichever agents
  initiate and with any number of objects, hellos and answers. The invariant
  (`OInv`) does not speak of roles: a body is in one intact record
  (`BodiesAreNew`), every ephemeral key in use was drawn and an object is keyed
  with its own (`EphemeralsAreDrawn`), and the window refuses what was opened for
  as long as its object keeps the ephemeral key of the record
  (`TakenStayTaken`): `respond` and a new object, which alone empty the window,
  draw a new one, and `accept_ack` changes neither.
* `NoncesAreNew`, when only one agent initiates (`OneInitiates`;
  `session_both_hello` shows the other case), again for any number of objects,
  hellos and answers. The invariant says that everything on the channel was drawn
  by its sender (`MessagesWereSent`), that roles stay with the agents
  (`RolesStay`), and that an end's send number is past every record under its key
  (`NumbersAreSpent`: for the initiator, past every record of its session, since
  a second answer rekeys it without a reset).
* `EndsAgree` and `NextRecordIsTaken`, under `OneHelloOneAnswer`: one agent
  initiates, an object calls `hello` at most once, and only the initiator's object
  is replaced. These are the limits of the code described above: with two
  hellos, or with a replaced responder, TLC finds both properties violated. The
  invariant adds that hellos and answers are one to one with sessions, that a key is
  that of its hello and answer, and that a window was moved by records of the key
  it is held with.

`KemRatchet_proofs`, for one or both ends sealing
* `RatchetsAreTyped`: `TypeOK`, when the limits of the constructor are no larger
  than those that `load_state` gives (`LoadsHaveRoom`). Otherwise an object may
  come back from its file over its limit (`protocol.py:510`).
* `TokensCarryOne` and `SpentTokensStayGone`: an end that kept its state remembers
  the tokens it used, and holds of those it generated exactly the ones that no
  opened message carried.
* `OpenedIsInOrder` and `NextStaysOpenable`: as long as no end has loaded an older
  state, a chain is complete: it holds all secrets of its own end's messages and of
  those it opened. The next message of the other end is then the only one
  whose chain fits; while one end seals, the chain is the sequence of what was
  sealed.
* `MessagesReopenOnlyWhenForgotten`, with no hypothesis, for any retention and
  capacity and both kinds of cache. An end that kept its state no longer holds the
  token of what it opened (`SpentTokensAreGone`). Of any other the invariant says that
  what it opened at most `Ttl` ago is in its cache, stamped no earlier
  (`RecentIsRemembered`): a purge keeps it (`RecentIsKept`), a refusal forgets no
  more than the purge (`RefusalFits`), and a second opening stamps it anew.

`OpaqueRelay_proofs`
* `RelayIsTyped`, `RelayKeepsOrder`, `RelayCountsBytes`, `RelayStaysInLimits`: all of
  the relay's safety, with no hypothesis. Records are numbered per handle, so no
  two that wait are equal and the counter is the size of a set of bytes; the
  lemmas `BytesOfMore` and `BytesOfFewer` say what a record more or less does to it.

`StateFiles_proofs`
* `StateFilesImplementAtomicFile`: `Spec => ImplementsAtomicFile`, for both kinds
  of file, any number of calls, and failures, deaths and losses of power anywhere. A
  write takes effect at `os.replace` and is there for good at the `fsync` of the
  directory; the mapped history of each call has one value for each phase.
* `LocksExclude` and `NoHalfFile` are the invariant that refinement rests on, and
  `OnlyDeathLeavesLitter` is `LitterMeansDeath`.

`Rendezvous_proofs`
* `RegistrationsStand`, `LookupsAreCurrent`, `NothingUngranted`, `CapabilitiesLast`
  and `RendezvousIsTyped`, for any agents, any length of the hour and any limit.
  The table's part of the invariant (`GoodTable`) is an operator of the table, so
  that one lemma says it of what a purge leaves (`GoodPurged`), one of a
  registration that fits (`GoodWith`) and one of the deletion of one too many, which
  is never a renewal (`GoodWithout`). The capabilities' part (`Grant`) remembers that
  the epoch was read at most one tick before the clock the expiry counts from;
  `EpochStep` turns that into the two handles that `verify_capability` tries.

`TrustedOpen_proofs`
* `CondemnedAreNeverTrusted` and `PinsAreAuthorized`: `OpenSpec =>
  []CondemnedStaysOut` and `OpenSpec => []PinsHaveAuthority`, from
  `TrustAssumption` alone. The invariant is one about each snapshot: what is
  condemned in it is revoked in it (`Sound`), and its rotations lead from anchored
  identities to every pin (`Authorized`). Calls keep both for the snapshot they
  change, and a save or a load, of an old file too, moves a good one as it is.

`Transport_proofs`, for any payloads, mtu values, radix, header lengths and limits
* `StreamStaysInStep`: `Spec => []StreamInStep`. The invariant (`StreamInv`) does not
  speak of the concatenation of all frames but of what the sender wrote after each
  of them: until a call stops inside a frame, what `recv` has read of its frame
  together with what is on the wire is that frame and what was written after it
  (`AtFrame`, `InFrame`).
* `FramesHoldPayload`: `Spec => []FramesCarryPayload`. For each call (`CallsInv`): the
  number of frames is the one its own longest header calls for, the bodies so far,
  joined, are the payload up to the offset, and unless that is all of it every
  frame took at least what the longest header leaves. With the last frame that
  is enough (`PiecesSuffice`).
* `SearchOnlyClimbs`: `Spec => SearchClimbs`. A larger number has no fewer digits,
  so more frames have no shorter headers and call for no fewer frames
  (`DigitsMonotone`, `OverheadMonotone`, `PiecesMonotone`). The search never passes the
  number it would find next (`Climbing`), which with the bound by the number of bytes
  is why the loop ends; that it does, under fairness, is `CallsEnd`.
* `ReassemblyAcceptsFramesOnly`: `Spec => []ReassemblyIsExact`. What has arrived
  (`GotInv`) is genuine, or altered in one field and counted. Every byte of a payload
  that is returned lies in the body of a genuine frame, so the payload was cut to its
  end (`AcceptedIsWhole`). If all but one of the frames are genuine, the indices, of
  which none is missing and so none is repeated (`NoneLeftOutNoneTwice`), say
  which frame the other one has to be, and since both lists of bodies join to
  the same bytes its body is that frame's (`FlattenCancels`, `AcceptedIsExact`). A
  datagram that is alone has nothing to be compared with: `AloneIsSingle` goes
  through what an alteration may have changed; `FirstIsNotAll` shows that the
  first of several frames never holds the whole payload.
* Two recursive functions come in: `Digits` and the library's `FlattenSeq`. That they
  are what their equations say needs a function that satisfies them; the
  existence and the uniqueness of its initial parts are proved by induction over a
  *set* of numbers (`SetInduction`, `StrongInduction`, from the library's theorem that
  `<` on the naturals is well-founded), since the induction rules of the library
  take an operator as a parameter.

Only model-checked are the liveness properties, since fairness and `ENABLED` are
outside the prover's reach: `OpenedIsDelivered`, `HandshakeCompletes`,
`SealedIsOpened`, `ForwardedIsReceived`, `RevokedFallsSilent`, `CallsEnd`,
`StreamDelivers` and `CallsReturn`. What the fold in `TotalSize` computes is not
proved either; no proof needs it: `ReassemblyIsExact` has the byte limit as a
condition.

## Not modelled

Wire formats, encodings and padding; the schemes themselves; zeroisation;
TLS and QUIC configuration and certificate parsing (no state of the library);
agent cards, negotiation, JSON-RPC helpers, archive signer, logging, metrics,
command line, benchmarks and examples (stateless, or no protocol state);
`SkippedKeyStore`, a bounded dictionary that nothing in the package calls;
`formal/Ratchet.tla` of the repository, a smaller model of the ratchet with its
own bounds. `SecureAgentTransport.send` is `encrypt`, an await of the
application's function and `decrypt`: `SecureSession` runs those two in any order
with records lost, and which answer belongs to which request is the
application's. Clocks are assumed not to run backwards and, for sessions, to
agree at both ends. Salts of four bytes are taken as unique with their session
identifier. On a platform without `fcntl` there is no file lock; the models
have one. Directories, permissions and the creation of the lock file are left
out of `StateFiles`.

## Plan

The parts of the library with protocol state are modelled, and the safety of
each is proved. A next step would be the two limits listed above that no property
covers because the code does not exclude them, a second `hello` and two workers on
one trust file: should the code change there, the bounds of `session` and `trust` can
be lifted, and the hypothesis `OneHelloOneAnswer` with them.
