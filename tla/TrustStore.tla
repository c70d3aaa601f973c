----------------------------- MODULE TrustStore -----------------------------
(***************************************************************************)
(* The trust stores of several worker processes that share one file        *)
(* (protocol.py:247-308), and provisioning from a discovery record         *)
(* (discovery.py:21-48).  A method holds the object's lock, a save or a    *)
(* load the file's, so each is one action; between a load and a save a     *)
(* worker holds neither.                                                   *)
(*                                                                         *)
(* An identity is a key pair of an agent; its fingerprint tells it from    *)
(* every other.  anchored and condemned are history: they are moved with   *)
(* the object through the file, but no method reads them.                  *)
(***************************************************************************)
EXTENDS Integers, Sequences, FiniteSets

CONSTANTS Worker,         \* processes with a store object of their own
          Agent,          \* agent_id values
          Challenge,      \* discovery challenges that callers draw
          Identity,       \* <<agent, number>>: the identities of the agents
          MaxRotations,   \* bound: rotations in a store
          None

ASSUME TrustAssumption ==
  /\ Identity \subseteq Agent \X Nat
  /\ \A a \in Agent : <<a, 1>> \in Identity
  /\ MaxRotations \in Nat
  /\ None \notin Identity

VARIABLES store,     \* the TrustStore object of each worker
          file,      \* {} or {what was saved last}
          spent      \* challenges in the replay cache the workers share

vars == <<store, file, spent>>

Owner(k) == k[1]

NewStore ==
  [pin |-> [a \in Agent |-> None], revoked |-> {}, rotations |-> <<>>,
   anchored |-> {}, condemned |-> {}]

Init ==
  /\ store = [w \in Worker |-> NewStore]
  /\ file = {}
  /\ spent = {}

\* is_trusted: pinned, and the fingerprint is not revoked.
Trusted(s, k) == s.pin[Owner(k)] = k /\ k \notin s.revoked

\* add: pins the identity and takes its revocation back.
Add(w, k, replace) ==
  /\ replace \/ store[w].pin[Owner(k)] \in {None, k}
  /\ store' = [store EXCEPT ![w].pin[Owner(k)] = k,
                            ![w].revoked = @ \ {k},
                            ![w].anchored = @ \cup {k},
                            ![w].condemned = @ \ {k}]
  /\ UNCHANGED <<file, spent>>

Revoke(w, k) ==
  /\ Trusted(store[w], k)
  /\ store' = [store EXCEPT ![w].revoked = @ \cup {k},
                            ![w].condemned = @ \cup {k}]
  /\ UNCHANGED <<file, spent>>

\* Mutated form of Rotate: the old identity need not be trusted.
RotateUntrusted(w, old, new) ==
  /\ Owner(old) = Owner(new)
  /\ Len(store[w].rotations) < MaxRotations
  /\ store' = [store EXCEPT ![w].pin[Owner(new)] = new,
                            ![w].revoked = @ \cup {old},
                            ![w].condemned = @ \cup {old},
                            ![w].rotations = Append(@, <<old, new>>)]
  /\ UNCHANGED <<file, spent>>

\* rotate: signed by the old identity, which is revoked and replaced.
Rotate(w, old, new) ==
  /\ Trusted(store[w], old)
  /\ Owner(old) = Owner(new)
  /\ Len(store[w].rotations) < MaxRotations
  /\ store' = [store EXCEPT ![w].pin[Owner(new)] = new,
                            ![w].revoked = @ \cup {old},
                            ![w].condemned = @ \cup {old},
                            ![w].rotations = Append(@, <<old, new>>)]
  /\ UNCHANGED <<file, spent>>

\* Mutated form of Provision: it pins through add.
ProvisionByAdd(w, k, c) ==
  /\ c \notin spent
  /\ store[w].pin[Owner(k)] \in {None, k}
  /\ store' = [store EXCEPT ![w].pin[Owner(k)] = k,
                            ![w].revoked = @ \ {k},
                            ![w].anchored = @ \cup {k}]
  /\ spent' = spent \cup {c}
  /\ UNCHANGED file

\* provision_trust_store_from_discovery: the anchor's own identity is pinned,
\* unless the agent has another pin; a revocation stays.
Provision(w, k, c) ==
  /\ c \notin spent
  /\ store[w].pin[Owner(k)] \in {None, k}
  /\ store' = [store EXCEPT ![w].pin[Owner(k)] = k,
                            ![w].anchored = @ \cup {k}]
  /\ spent' = spent \cup {c}
  /\ UNCHANGED file

\* The record is signed, but the card in it is not good or the agent has
\* another pin: the challenge is spent all the same.
ProvisionRefused(c) ==
  /\ c \notin spent
  /\ spent' = spent \cup {c}
  /\ UNCHANGED <<store, file>>

Save(w) ==
  /\ file' = {store[w]}
  /\ UNCHANGED <<store, spent>>

\* load: a new object with the three fields of the file.
Load(w) ==
  /\ \E s \in file : store' = [store EXCEPT ![w] = s]
  /\ UNCHANGED <<file, spent>>

Next ==
  \/ \E w \in Worker :
       \/ \E k \in Identity :
            \/ \E replace \in BOOLEAN : Add(w, k, replace)
            \/ Revoke(w, k)
            \/ \E new \in Identity : Rotate(w, k, new)
            \/ \E c \in Challenge : Provision(w, k, c)
       \/ Save(w)
       \/ Load(w)
  \/ \E c \in Challenge : ProvisionRefused(c)

Spec == Init /\ [][Next]_vars

\* A deployment in operation: an operator has pinned each agent's first
\* identity and saved the store, and every worker has loaded that file.
Provisioned ==
  LET s == [NewStore EXCEPT !.pin = [a \in Agent |-> <<a, 1>>],
                            !.anchored = Agent \X {1}]
  IN  /\ store = [w \in Worker |-> s]
      /\ file = {s}
      /\ spent = {}

-----------------------------------------------------------------------------
Stores == {store[w] : w \in Worker} \cup file

IsStore(s) ==
  /\ \A a \in Agent : s.pin[a] \in {k \in Identity : Owner(k) = a} \cup {None}
  /\ s.revoked \subseteq Identity
  /\ s.rotations \in Seq({r \in Identity \X Identity : Owner(r[1]) = Owner(r[2])})
  /\ s.anchored \subseteq Identity /\ s.condemned \subseteq Identity

TypeOK ==
  /\ DOMAIN store = Worker
  /\ \A s \in Stores : IsStore(s)
  /\ spent \subseteq Challenge

\* In every store, in memory or on disk: an identity that was revoked or
\* rotated out is not trusted, however often it is provisioned, rotated to,
\* saved and loaded since, until an operator adds it again.
CondemnedStaysOut ==
  \A s \in Stores : \A k \in s.condemned : ~ Trusted(s, k)

\* In every store, the recorded rotations lead from identities an operator or
\* a discovery anchor pinned to every identity that is pinned now.
PinsHaveAuthority ==
  \A s \in Stores :
    LET Reached(n) == s.anchored \cup {s.rotations[i][2] : i \in 1..n}
    IN  /\ \A i \in 1..Len(s.rotations) : s.rotations[i][1] \in Reached(i - 1)
        /\ \A a \in Agent : s.pin[a] \in Reached(Len(s.rotations)) \cup {None}
=============================================================================
