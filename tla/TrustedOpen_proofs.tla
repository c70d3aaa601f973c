------------------------- MODULE TrustedOpen_proofs -------------------------
(***************************************************************************)
(* What is proved of the trust stores, for any number of workers, agents   *)
(* and identities and for any sequence of calls: an identity that was      *)
(* condemned stays out, and what is pinned has authority.  The argument    *)
(* looks at one snapshot at a time.                                        *)
(***************************************************************************)
EXTENDS TrustedOpen, TLAPS

\* The five fields of a snapshot; what is condemned in it is revoked in it.
Sound(s) ==
  /\ s \in [pin : [Agent -> Identity \cup {None}],
            revoked : SUBSET Identity,
            rotations : Seq(Identity \X Identity),
            anchored : SUBSET Identity,
            condemned : SUBSET Identity]
  /\ s.condemned \subseteq s.revoked

\* Where the first n rotations of s lead to from what was anchored.
Reached(s, n) == s.anchored \cup {s.rotations[i][2] : i \in 1..n}

\* Every rotation of s starts where earlier ones lead to, and so does no pin
\* elsewhere.
Authorized(s) ==
  /\ \A i \in 1..Len(s.rotations) : s.rotations[i][1] \in Reached(s, i - 1)
  /\ \A a \in Agent : s.pin[a] \in Reached(s, Len(s.rotations)) \cup {None}

\* Every snapshot there is, in a worker or in the file, is sound and authorized.
StoresSound ==
  /\ DOMAIN store = Worker
  /\ store = [w \in Worker |-> store[w]]
  /\ \A w \in Worker : Sound(store[w]) /\ Authorized(store[w])
  /\ \A s \in file : Sound(s) /\ Authorized(s)

\* An identity is a pair, and its first part is an agent.
LEMMA OwnerIsAgent ==
  ASSUME NEW k \in Identity
  PROVE  Owner(k) \in Agent
BY TrustAssumption DEF Owner

\* In a sound snapshot the store's answer for a condemned identity is no.
LEMMA SoundKeepsOut ==
  ASSUME NEW s, Sound(s), NEW k \in s.condemned
  PROVE  ~ Trusted(s, k)
BY DEF Sound, Trusted

\* The stores an operator provisioned are sound: nothing is condemned yet.
LEMMA ProvisionedIsSound ==
  ASSUME Provisioned
  PROVE  StoresSound
<1> DEFINE o == NewStore
           s == [o EXCEPT !.pin = [a \in Agent |-> <<a, 1>>],
                          !.anchored = Agent \X {1}]
<1>1. Sound(o)
  <2>1. <<>> \in Seq(Identity \X Identity)
    OBVIOUS
  <2> QED
    BY <2>1 DEF Sound, NewStore
<1>2. Agent \X {1} \subseteq Identity
  BY TrustAssumption
<1>3. [a \in Agent |-> <<a, 1>>] \in [Agent -> Identity \cup {None}]
  BY TrustAssumption
<1>4. o.condemned = {}
  BY DEF NewStore
<1>5. Sound(s)
  <2> HIDE DEF o
  <2> QED
    BY <1>1, <1>2, <1>3, <1>4 DEF Sound
<1>6. store = [w \in Worker |-> s] /\ file = {s}
  BY DEF Provisioned
<1>7. Authorized(s)
  <2>1. s.rotations = <<>> /\ s.anchored = Agent \X {1}
        /\ s.pin = [a \in Agent |-> <<a, 1>>]
    BY DEF NewStore
  <2> HIDE DEF s
  <2> QED
    BY <2>1 DEF Authorized, Reached
<1> QED
  <2> HIDE DEF s
  <2> QED
    BY <1>5, <1>6, <1>7 DEF StoresSound

\* A pin on what is anchored meanwhile needs no rotation.
LEMMA AnchoredHasAuthority ==
  ASSUME NEW s, Sound(s), Authorized(s), NEW k \in Identity, NEW n, Sound(n),
         n.pin = [s.pin EXCEPT ![Owner(k)] = k],
         n.anchored = s.anchored \cup {k}, n.rotations = s.rotations
  PROVE  Authorized(n)
<1>1. \A i \in Int : Reached(s, i) \subseteq Reached(n, i) /\ k \in Reached(n, i)
  BY DEF Reached
<1>2. Len(s.rotations) \in Nat /\ s.pin \in [Agent -> Identity \cup {None}]
  BY DEF Sound
<1>3. \A i \in 1..Len(n.rotations) : n.rotations[i][1] \in Reached(n, i - 1)
  BY <1>1, <1>2 DEF Authorized
<1>4. \A a \in Agent : n.pin[a] \in Reached(n, Len(n.rotations)) \cup {None}
  BY <1>1, <1>2 DEF Authorized
<1> QED
  BY <1>3, <1>4 DEF Authorized

\* A rotation signed by a trusted identity hands its authority on.
LEMMA RotatedHasAuthority ==
  ASSUME NEW s, Sound(s), Authorized(s), NEW k \in Identity, NEW new \in Identity,
         Trusted(s, k), NEW n,
         n.pin = [s.pin EXCEPT ![Owner(new)] = new],
         n.anchored = s.anchored, n.rotations = Append(s.rotations, <<k, new>>)
  PROVE  Authorized(n)
<1> DEFINE r == s.rotations
           q == n.rotations
           pair == <<k, new>>
<1>1. r \in Seq(Identity \X Identity) /\ s.pin \in [Agent -> Identity \cup {None}]
  BY DEF Sound
<1>2. pair \in Identity \X Identity /\ pair[1] = k /\ pair[2] = new
  OBVIOUS
<1> HIDE DEF pair
<1>3. q = Append(r, pair)
  BY DEF pair
<1> HIDE DEF q
<1>4. Len(r) \in Nat /\ Len(q) = Len(r) + 1 /\ q[Len(r) + 1] = pair
      /\ \A i \in 1..Len(r) : q[i] = r[i]
  BY <1>1, <1>2, <1>3
<1>5. \A i \in 0..Len(r) : Reached(n, i) = Reached(s, i)
  BY <1>4 DEF Reached, q
<1>6. Reached(n, Len(r) + 1) = Reached(s, Len(r)) \cup {new}
  <2>1. 1..(Len(r) + 1) = 1..Len(r) \cup {Len(r) + 1}
    BY <1>4
  <2> QED
    BY <1>2, <1>4, <2>1 DEF Reached, q
<1>7. k \in Reached(s, Len(r))
  <2>1. s.pin[Owner(k)] = k /\ k # None
    BY TrustAssumption DEF Trusted
  <2> QED
    BY <2>1, OwnerIsAgent DEF Authorized
<1>8. \A i \in 1..Len(q) : q[i][1] \in Reached(n, i - 1)
  <2> SUFFICES ASSUME NEW i \in 1..Len(q) PROVE q[i][1] \in Reached(n, i - 1)
    OBVIOUS
  <2>1. CASE i = Len(r) + 1
    BY <1>2, <1>4, <1>5, <1>7, <2>1
  <2>2. CASE i # Len(r) + 1
    <3>1. i \in 1..Len(r) /\ i - 1 \in 0..Len(r)
      BY <1>4, <2>2
    <3> QED
      BY <1>4, <1>5, <3>1 DEF Authorized
  <2> QED
    BY <2>1, <2>2
<1>9. \A a \in Agent : n.pin[a] \in Reached(n, Len(q)) \cup {None}
  BY <1>1, <1>4, <1>6 DEF Authorized
<1> QED
  BY <1>8, <1>9 DEF Authorized, q

\* A step that puts one good snapshot in a worker keeps every snapshot good.
LEMMA OneSnapshotReplaced ==
  ASSUME StoresSound, NEW w \in Worker, NEW s, Sound(s), Authorized(s),
         store' = [store EXCEPT ![w] = s], file' = file
  PROVE  StoresSound'
BY DEF StoresSound

\* Each call leaves the worker with a sound snapshot: pinning keeps what is
\* condemned within what is revoked, or takes the identity out of both.
LEMMA CallKeepsSound ==
  ASSUME StoresSound, NEW w \in Worker, NEW k \in Identity,
         NEW new \in Identity, NEW c, NEW replace,
         \/ Add(w, k, replace)
         \/ Revoke(w, k)
         \/ Rotate(w, k, new)
         \/ Provision(w, k, c)
  PROVE  StoresSound'
<1> DEFINE o == store[w]
<1>0. Sound(o) /\ Authorized(o)
  BY DEF StoresSound
<1>1. Owner(k) \in Agent /\ Owner(new) \in Agent
  BY OwnerIsAgent
<1>2. CASE Add(w, k, replace)
  <2> DEFINE n == [o EXCEPT !.pin = [o.pin EXCEPT ![Owner(k)] = k],
                            !.revoked = o.revoked \ {k},
                            !.anchored = o.anchored \cup {k},
                            !.condemned = o.condemned \ {k}]
  <2>1. Sound(n)
    BY <1>0, <1>1 DEF Sound
  <2>2. store' = [store EXCEPT ![w] = n] /\ file' = file
    BY <1>0, <1>2 DEF Add, StoresSound, Sound
  <2>3. n.pin = [o.pin EXCEPT ![Owner(k)] = k] /\ n.rotations = o.rotations
        /\ n.anchored = o.anchored \cup {k}
    BY <1>0 DEF Sound
  <2> HIDE DEF n, o
  <2>4. Authorized(n)
    BY <1>0, <2>1, <2>3, AnchoredHasAuthority
  <2> QED
    BY <2>1, <2>2, <2>4, OneSnapshotReplaced
<1>3. CASE Revoke(w, k)
  <2> DEFINE n == [o EXCEPT !.revoked = o.revoked \cup {k},
                            !.condemned = o.condemned \cup {k}]
  <2>1. Sound(n)
    BY <1>0 DEF Sound
  <2>2. store' = [store EXCEPT ![w] = n] /\ file' = file
    BY <1>0, <1>3 DEF Revoke, StoresSound, Sound
  <2>3. n.pin = o.pin /\ n.rotations = o.rotations /\ n.anchored = o.anchored
    BY <1>0 DEF Sound
  <2> HIDE DEF n, o
  <2>4. Authorized(n)
    BY <1>0, <2>3 DEF Authorized, Reached
  <2> QED
    BY <2>1, <2>2, <2>4, OneSnapshotReplaced
<1>4. CASE Rotate(w, k, new)
  <2> DEFINE n == [o EXCEPT !.pin = [o.pin EXCEPT ![Owner(new)] = new],
                            !.revoked = o.revoked \cup {k},
                            !.condemned = o.condemned \cup {k},
                            !.rotations = Append(o.rotations, <<k, new>>)]
  <2>1. Append(o.rotations, <<k, new>>) \in Seq(Identity \X Identity)
    BY <1>0 DEF Sound
  <2>2. Sound(n)
    BY <1>0, <1>1, <2>1 DEF Sound
  <2>3. store' = [store EXCEPT ![w] = n] /\ file' = file
    BY <1>0, <1>4 DEF Rotate, StoresSound, Sound
  <2>4. n.pin = [o.pin EXCEPT ![Owner(new)] = new] /\ n.anchored = o.anchored
        /\ n.rotations = Append(o.rotations, <<k, new>>) /\ Trusted(o, k)
    BY <1>0, <1>4 DEF Sound, Rotate
  <2> HIDE DEF n, o
  <2>5. Authorized(n)
    BY <1>0, <2>4, RotatedHasAuthority
  <2> QED
    BY <2>2, <2>3, <2>5, OneSnapshotReplaced
<1>5. CASE Provision(w, k, c)
  <2> DEFINE n == [o EXCEPT !.pin = [o.pin EXCEPT ![Owner(k)] = k],
                            !.anchored = o.anchored \cup {k}]
  <2>1. Sound(n)
    BY <1>0, <1>1 DEF Sound
  <2>2. store' = [store EXCEPT ![w] = n] /\ file' = file
    BY <1>0, <1>5 DEF Provision, StoresSound, Sound
  <2>3. n.pin = [o.pin EXCEPT ![Owner(k)] = k] /\ n.rotations = o.rotations
        /\ n.anchored = o.anchored \cup {k}
    BY <1>0 DEF Sound
  <2> HIDE DEF n, o
  <2>4. Authorized(n)
    BY <1>0, <2>1, <2>3, AnchoredHasAuthority
  <2> QED
    BY <2>1, <2>2, <2>4, OneSnapshotReplaced
<1> QED
  BY <1>2, <1>3, <1>4, <1>5

\* Every step keeps every snapshot sound: the file hands on what it was given.
LEMMA StepKeepsSound ==
  ASSUME StoresSound, [OpenNext]_openVars
  PROVE  StoresSound'
<1>1. CASE Next
  <2>1. CASE \E w \in Worker : \E k \in Identity :
               \/ \E replace \in BOOLEAN : Add(w, k, replace)
               \/ Revoke(w, k)
               \/ \E new \in Identity : Rotate(w, k, new)
               \/ \E c \in Challenge : Provision(w, k, c)
    <3>1. PICK w \in Worker, k \in Identity :
               \/ \E replace \in BOOLEAN : Add(w, k, replace)
               \/ Revoke(w, k)
               \/ \E new \in Identity : Rotate(w, k, new)
               \/ \E c \in Challenge : Provision(w, k, c)
      BY <2>1
    <3>2. ASSUME NEW replace, Add(w, k, replace)
          PROVE  StoresSound'
      BY <3>2, CallKeepsSound
    <3>3. CASE Revoke(w, k)
      BY <3>3, CallKeepsSound
    <3>4. ASSUME NEW new \in Identity, Rotate(w, k, new)
          PROVE  StoresSound'
      BY <3>4, CallKeepsSound
    <3>5. ASSUME NEW c, Provision(w, k, c)
          PROVE  StoresSound'
      BY <3>5, CallKeepsSound
    <3> QED
      BY <3>1, <3>2, <3>3, <3>4, <3>5
  <2>2. ASSUME NEW w \in Worker, Save(w)
        PROVE  StoresSound'
    BY <2>2 DEF Save, StoresSound
  <2>3. ASSUME NEW w \in Worker, Load(w)
        PROVE  StoresSound'
    <3>1. PICK s \in file : store' = [store EXCEPT ![w] = s]
      BY <2>3 DEF Load
    <3>2. Sound(s) /\ Authorized(s) /\ file' = file
      BY <2>3 DEF Load, StoresSound
    <3> QED
      BY <3>1, <3>2, OneSnapshotReplaced
  <2>4. ASSUME NEW c \in Challenge, ProvisionRefused(c)
        PROVE  StoresSound'
    BY <2>4 DEF ProvisionRefused, StoresSound
  <2> QED
    BY <1>1, <2>1, <2>2, <2>3, <2>4 DEF Next
<1>2. CASE UNCHANGED vars
  BY <1>2 DEF vars, StoresSound
<1> QED
  BY <1>1, <1>2 DEF OpenNext, EndOpen, BeginOpen, openVars

\* In every store, in a worker or in the file, an identity that was revoked or
\* rotated out is not trusted until an operator adds it again
\* (protocol.py:247-308, discovery.py:21-48).
THEOREM CondemnedAreNeverTrusted == OpenSpec => []CondemnedStaysOut
<1>1. OpenInit => StoresSound
  BY ProvisionedIsSound DEF OpenInit
<1>2. StoresSound /\ [OpenNext]_openVars => StoresSound'
  BY StepKeepsSound
<1>3. StoresSound => CondemnedStaysOut
  BY SoundKeepsOut DEF StoresSound, CondemnedStaysOut, Stores
<1> QED
  BY <1>1, <1>2, <1>3, PTL DEF OpenSpec

\* In every store, in a worker or in the file, what is pinned was pinned by an
\* operator or a discovery anchor, or the recorded rotations lead to it from
\* there, each of them signed by an identity that they led to before
\* (protocol.py:247-308, discovery.py:21-48).
THEOREM PinsAreAuthorized == OpenSpec => []PinsHaveAuthority
<1>1. OpenInit => StoresSound
  BY ProvisionedIsSound DEF OpenInit
<1>2. StoresSound /\ [OpenNext]_openVars => StoresSound'
  BY StepKeepsSound
<1>3. StoresSound => PinsHaveAuthority
  BY DEF StoresSound, PinsHaveAuthority, Stores, Authorized, Reached
<1> QED
  BY <1>1, <1>2, <1>3, PTL DEF OpenSpec
=============================================================================
