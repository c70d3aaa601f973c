--------------------------- MODULE ReplayCacheOps ---------------------------
(***************************************************************************)
(* The replay caches as values: a function from the message identifiers    *)
(* they remember to the time each was accepted.  Durable tells the SQLite  *)
(* cache (operations.py:111-125) from the in-memory one                    *)
(* (protocol.py:311-328): they keep and refuse the same identifiers and    *)
(* differ in what a refusal leaves behind.                                 *)
(***************************************************************************)
EXTENDS Integers, FiniteSets

CONSTANTS Ttl,          \* ttl_seconds: how long an identifier is remembered
          MaxEntries,   \* max_entries
          Durable       \* TRUE: a DurableReplayCache on a file

ASSUME CacheAssumption ==
  /\ Ttl \in Nat \ {0}
  /\ MaxEntries \in Nat \ {0}
  /\ Durable \in BOOLEAN

EmptyCache == [m \in {} |-> 0]

\* Mutated form of Kept: an entry is dropped a tick too early.
KeptStrictly(c, now) == {m \in DOMAIN c : now - c[m] < Ttl}

\* What the purge that opens every accept call keeps.
Kept(c, now) == {m \in DOMAIN c : now - c[m] <= Ttl}

Purged(c, now) == [m \in Kept(c, now) |-> c[m]]

\* Mutated form of Full: one entry too many is let in.
FullTooLate(c, now) == Cardinality(Kept(c, now)) > MaxEntries

Full(c, now) == Cardinality(Kept(c, now)) >= MaxEntries

\* A refusal or a capacity error: the dictionary has been replaced by its
\* purged copy; the SQLite transaction is closed uncommitted, which rolls the
\* DELETE back.
AfterRefusal(c, now) == IF Durable THEN c ELSE Purged(c, now)

AfterAccept(c, m, now) ==
  [k \in Kept(c, now) \cup {m} |-> IF k = m THEN now ELSE c[k]]
=============================================================================
