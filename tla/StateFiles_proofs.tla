-------------------------- MODULE StateFiles_proofs --------------------------
(***************************************************************************)
(* The files of protocol.py and operations.py implement AtomicFile, for    *)
(* any number of processes, threads and values, and at whichever system    *)
(* call one of them fails, dies or loses its power.                        *)
(***************************************************************************)
EXTENDS StateFiles, TLAPS

Phase == {"idle", "called", "locked", "created", "written", "synced",
          "replaced", "settled", "reading", "read"}

Begun == {"called", "locked", "created", "written", "synced"}

\* The phases in which a writer has the lock.
Locking == {"locked", "created", "written", "synced", "replaced", "settled"}

Types ==
  /\ kind \in {"json", "secret"}
  /\ op \in [Call -> [phase : Phase, value : Value \cup {None}]]
  /\ temp \in [Call -> Value \cup {None, Torn}]
  /\ target \in Value \cup {None} /\ seen \in Value \cup {None}
  /\ stable \subseteq Value \cup {None}
  /\ lock \in [Holders -> {"shared", "exclusive"}] /\ Holders \subseteq Call
  /\ litter \in BOOLEAN /\ died \in BOOLEAN

\* A call that writes has a value, and its temporary holds all of that value
\* from the last byte written to the replacement.
Whole ==
  \A c \in Call :
    /\ op[c].phase \in Begun \cup {"replaced", "settled"} <=> op[c].value \in Value
    /\ op[c].phase \in {"written", "synced"} => temp[c] = op[c].value

\* Who is past the lock holds it, in the mode it asked for; a writer holds it
\* alone.
Excluding ==
  \A c \in Call :
    /\ op[c].phase \in Locking <=> c \in Holders /\ lock[c] = "exclusive"
    /\ op[c].phase \in {"reading", "read"} <=> c \in Holders /\ lock[c] = "shared"
    /\ c \in Holders /\ lock[c] = "exclusive" => Holders = {c}

IInv == Types /\ Whole /\ Excluding

-----------------------------------------------------------------------------
\* No call has begun, and memory and disk agree.
LEMMA InitIInv == Init => IInv
<1> SUFFICES ASSUME Init PROVE IInv
  OBVIOUS
<1>1. Types
  BY DEF Init, Types, Idle, Phase, Holders
<1>2. Whole
  BY StateFilesAssumption DEF Init, Whole, Idle, Begun
<1>3. Excluding
  BY DEF Init, Excluding, Idle, Locking, Holders
<1> QED
  BY <1>1, <1>2, <1>3 DEF IInv

\* Every system call, failure and death keeps the temporaries whole.
LEMMA NextWhole == Types /\ Whole /\ [Next]_vars => Types' /\ Whole'
<1> DEFINE I == Types /\ Whole
<1> SUFFICES ASSUME I, [Next]_vars PROVE I'
  OBVIOUS
<1> USE StateFilesAssumption DEF Types, Whole, Phase, Begun, Idle, Holders
<1>1. ASSUME NEW c \in Call, NEW v \in Value, Begin(c, v)
      PROVE  I'
  BY <1>1 DEF Begin
<1>2. ASSUME NEW c \in Call, Acquire(c)
      PROVE  I'
  BY <1>2 DEF Acquire, Goes, Locked
<1>3. ASSUME NEW c \in Call, Create(c)
      PROVE  I'
  BY <1>3 DEF Create, Goes
<1>4. ASSUME NEW c \in Call, Write(c)
      PROVE  I'
  BY <1>4 DEF Write, Goes
<1>5. ASSUME NEW c \in Call, Fsync(c)
      PROVE  I'
  BY <1>5 DEF Fsync, Goes
<1>6. ASSUME NEW c \in Call, Replace(c)
      PROVE  I'
  BY <1>6 DEF Replace, Goes
<1>7. ASSUME NEW c \in Call, FsyncDirectory(c)
      PROVE  I'
  BY <1>7 DEF FsyncDirectory, Goes
<1>8. ASSUME NEW c \in Call, Return(c)
      PROVE  I'
  BY <1>8 DEF Return, Unlocked
<1>9. ASSUME NEW c \in Call, Raise(c)
      PROVE  I'
  BY <1>9 DEF Raise, Unlocked
<1>10. ASSUME NEW c \in Call, BeginRead(c)
       PROVE  I'
  BY <1>10 DEF BeginRead, Goes, Locked
<1>11. ASSUME NEW c \in Call, Read(c)
       PROVE  I'
  BY <1>11 DEF Read, Goes
<1>12. ASSUME NEW c \in Call, EndRead(c)
       PROVE  I'
  BY <1>12 DEF EndRead, Goes, Unlocked
<1>13. ASSUME NEW c \in Call, Destroy(c)
       PROVE  I'
  BY <1>13 DEF Destroy
<1>14. ASSUME NEW c \in Call, Die(c)
       PROVE  I'
  BY <1>14 DEF Die, Gone, Unlocked, Stranded, Fellows
<1>15. CASE LosePower
  BY <1>15 DEF LosePower, Gone, Unlocked, Stranded
<1>16. CASE UNCHANGED vars
  BY <1>16 DEF vars
<1> QED
  BY <1>1, <1>2, <1>3, <1>4, <1>5, <1>6, <1>7, <1>8, <1>9, <1>10, <1>11,
     <1>12, <1>13, <1>14, <1>15, <1>16 DEF Next

\* Calls that end together release together what they hold.
LEMMA ReleaseKeepsExcluding ==
  ASSUME Types, Excluding, NEW S \in SUBSET Call,
         \A c \in Call : op'[c].phase = IF c \in S THEN "idle" ELSE op[c].phase,
         lock' = Unlocked(S)
  PROVE  Excluding'
<1>1. Holders' = Holders \ S /\ \A d \in Holders' : lock'[d] = lock[d]
  BY DEF Unlocked, Holders
<1> SUFFICES ASSUME NEW c \in Call
             PROVE  /\ op'[c].phase \in Locking <=> c \in Holders' /\ lock'[c] = "exclusive"
                    /\ op'[c].phase \in {"reading", "read"}
                         <=> c \in Holders' /\ lock'[c] = "shared"
                    /\ c \in Holders' /\ lock'[c] = "exclusive" => Holders' = {c}
  BY DEF Excluding
<1>2. CASE c \in S
  BY <1>1, <1>2 DEF Locking
<1>3. CASE c \notin S
  BY <1>1, <1>3 DEF Excluding
<1> QED
  BY <1>2, <1>3

\* The lock is taken only when it is free or shared, and released by whoever
\* leaves it.
LEMMA NextExcluding == Types /\ Excluding /\ [Next]_vars => Excluding'
<1> SUFFICES ASSUME Types, Excluding, [Next]_vars PROVE Excluding'
  OBVIOUS
<1> USE DEF Locking, Phase
<1>1. ASSUME NEW c \in Call, NEW v \in Value, Begin(c, v)
      PROVE  Excluding'
  BY <1>1 DEF Begin, Excluding, Types, Idle, Holders
<1>2. ASSUME NEW c \in Call, Acquire(c)
      PROVE  Excluding'
  <2>1. Holders = {} /\ op[c].phase = "called"
    BY <1>2 DEF Acquire, Grants, Goes
  <2>2. /\ op' = [op EXCEPT ![c].phase = "locked"]
        /\ lock' = [d \in {c} |-> "exclusive"]
    BY <1>2, <2>1 DEF Acquire, Goes, Locked
  <2> QED
    BY <2>1, <2>2 DEF Excluding, Types, Holders
<1>3. ASSUME NEW c \in Call,
             Create(c) \/ Write(c) \/ Fsync(c) \/ Replace(c) \/ FsyncDirectory(c)
      PROVE  Excluding'
  <2>1. PICK ph \in Locking : op[c].phase \in Locking /\ op' = [op EXCEPT ![c].phase = ph]
    BY <1>3 DEF Create, Write, Fsync, Replace, FsyncDirectory, Goes
  <2>2. UNCHANGED lock
    BY <1>3 DEF Create, Write, Fsync, Replace, FsyncDirectory
  <2> QED
    BY <2>1, <2>2 DEF Excluding, Types, Holders
<1>4. ASSUME NEW c \in Call, Return(c) \/ Raise(c)
      PROVE  Excluding'
  <2>1. op' = [op EXCEPT ![c] = Idle] /\ lock' = Unlocked({c})
    BY <1>4 DEF Return, Raise
  <2>2. \A d \in Call : op'[d].phase = IF d \in {c} THEN "idle" ELSE op[d].phase
    BY <2>1 DEF Types, Idle
  <2> QED
    BY <2>1, <2>2, ReleaseKeepsExcluding
<1>5. ASSUME NEW c \in Call, BeginRead(c)
      PROVE  Excluding'
  <2>1. /\ op[c].phase = "idle" /\ op' = [op EXCEPT ![c].phase = "reading"]
        /\ lock' = [d \in Holders \cup {c} |-> IF d = c THEN "shared" ELSE lock[d]]
        /\ \A d \in Holders : lock[d] = "shared"
    BY <1>5 DEF BeginRead, Grants, Goes, Locked
  <2> QED
    BY <2>1 DEF Excluding, Types, Holders
<1>6. ASSUME NEW c \in Call, Read(c)
      PROVE  Excluding'
  <2>1. op[c].phase = "reading" /\ op' = [op EXCEPT ![c].phase = "read"] /\ UNCHANGED lock
    BY <1>6 DEF Read, Goes
  <2> QED
    BY <2>1 DEF Excluding, Types, Holders
<1>7. ASSUME NEW c \in Call, EndRead(c)
      PROVE  Excluding'
  <2>1. op' = [op EXCEPT ![c].phase = "idle"] /\ lock' = Unlocked({c})
    BY <1>7 DEF EndRead, Goes
  <2>2. \A d \in Call : op'[d].phase = IF d \in {c} THEN "idle" ELSE op[d].phase
    BY <2>1 DEF Types
  <2> QED
    BY <2>1, <2>2, ReleaseKeepsExcluding
<1>8. ASSUME NEW S \in SUBSET Call, Gone(S)
      PROVE  Excluding'
  <2>1. \A d \in Call : op'[d].phase = IF d \in S THEN "idle" ELSE op[d].phase
    BY <1>8 DEF Gone, Idle
  <2>2. lock' = Unlocked(S)
    BY <1>8 DEF Gone
  <2> QED
    BY <2>1, <2>2, ReleaseKeepsExcluding
<1>9. ASSUME UNCHANGED <<op, lock>>
      PROVE  Excluding'
  BY <1>9 DEF Excluding, Holders
<1>10. \A c \in Call : Fellows(c) \in SUBSET Call
  BY DEF Fellows
<1> QED
  BY <1>1, <1>2, <1>3, <1>4, <1>5, <1>6, <1>7, <1>8, <1>9, <1>10
     DEF Next, Destroy, Die, LosePower, vars

\* Every system call, failure, death and loss of power keeps the invariant.
LEMMA NextIInv == IInv /\ [Next]_vars => IInv'
BY NextWhole, NextExcluding DEF IInv

\* The invariant holds in every state.
LEMMA Invariant == Spec => []IInv
<1> QED
  BY InitIInv, NextIInv, PTL DEF Spec

-----------------------------------------------------------------------------
\* What a call is doing, as AtomicFile sees it: it depends on the call alone.
Doing == [c \in Call |-> Writes(c)]

\* A step of one call changes what that call is doing and nothing else.
LEMMA DoingOfOne ==
  ASSUME NEW c \in Call, \A d \in Call \ {c} : op'[d] = op[d]
  PROVE  Doing' = [Doing EXCEPT ![c] = Writes(c)']
<1>1. \A d \in Call \ {c} : Writes(d)' = Writes(d)
  BY DEF Writes
<1> QED
  BY <1>1 DEF Doing

\* Calls that go idle, and no others, do nothing from then on.
LEMMA DoingOfTheGone ==
  ASSUME NEW S, op' = [c \in Call |-> IF c \in S THEN Idle ELSE op[c]]
  PROVE  Doing' = [c \in Call |-> IF c \in S THEN Atomic!Nothing ELSE Doing[c]]
<1>1. \A c \in Call : Writes(c)' = IF c \in S THEN Atomic!Nothing ELSE Writes(c)
  BY DEF Writes, Idle, Atomic!Nothing
<1> QED
  BY <1>1 DEF Doing

\* The initial states of the file are those of the register.
LEMMA InitAtomic == Init => Atomic!Init
BY DEF Init, Atomic!Init, Atomic!Nothing, Writes, Idle

\* Every step of the file is one of the register or leaves it as it is: a write
\* takes effect when the temporary replaces the file.
LEMMA NextAtomic == IInv /\ [Next]_vars => [Atomic!Next]_(Atomic!vars)
<1> SUFFICES ASSUME IInv, [Next]_vars
             PROVE  Atomic!Next \/ UNCHANGED <<target, stable, Doing, seen>>
  BY DEF Atomic!vars, Doing
<1> USE DEF IInv, Types
<1>1. ASSUME NEW c \in Call, NEW v \in Value, Begin(c, v)
      PROVE  Atomic!Begin(c, v)
  <2>1. Writes(c) = Atomic!Nothing
    BY <1>1 DEF Begin, Writes, Idle, Atomic!Nothing
  <2>2. Writes(c)' = [writes |-> {v}, phase |-> "begun"]
    BY <1>1 DEF Begin, Writes
  <2>3. Doing' = [Doing EXCEPT ![c] = [writes |-> {v}, phase |-> "begun"]]
    BY <1>1, <2>2, DoingOfOne DEF Begin
  <2> QED
    BY <1>1, <2>1, <2>3 DEF Begin, Atomic!Begin, Doing
<1>2. ASSUME NEW c \in Call, Acquire(c) \/ Create(c) \/ Write(c) \/ Fsync(c)
      PROVE  UNCHANGED <<target, stable, Doing, seen>>
  <2>1. PICK ph \in Begun : op[c].phase \in Begun /\ op' = [op EXCEPT ![c].phase = ph]
    BY <1>2 DEF Acquire, Create, Write, Fsync, Goes, Begun
  <2>2. Writes(c)' = Writes(c)
    BY <2>1 DEF Writes, Begun
  <2>3. Doing' = [Doing EXCEPT ![c] = Doing[c]]
    BY <2>1, <2>2, DoingOfOne DEF Doing
  <2>4. Doing' = Doing
    BY <2>3 DEF Doing
  <2> QED
    BY <1>2, <2>4 DEF Acquire, Create, Write, Fsync
<1>3. ASSUME NEW c \in Call, Replace(c)
      PROVE  Atomic!TakeEffect(c)
  <2>1. op[c].phase = "synced" /\ op' = [op EXCEPT ![c].phase = "replaced"]
    BY <1>3 DEF Replace, Goes
  <2>2. Writes(c) = [writes |-> {op[c].value}, phase |-> "begun"]
    BY <2>1 DEF Writes
  <2>3. Writes(c)' = [writes |-> {op[c].value}, phase |-> "done"]
    BY <2>1 DEF Writes
  <2>4. Doing' = [Doing EXCEPT ![c].phase = "done"]
    <3>1. Doing' = [Doing EXCEPT ![c] = [writes |-> {op[c].value}, phase |-> "done"]]
      BY <2>1, <2>3, DoingOfOne
    <3>2. Doing[c] = [writes |-> {op[c].value}, phase |-> "begun"]
      BY <2>2 DEF Doing
    <3>3. Doing = [d \in Call |-> Doing[d]]
      BY DEF Doing
    <3>4. ASSUME NEW f, f = Doing
          PROVE  [f EXCEPT ![c].phase = "done"]
                   = [f EXCEPT ![c] = [writes |-> {op[c].value}, phase |-> "done"]]
      <4>1. f = [d \in Call |-> f[d]] /\ f[c] = [writes |-> {op[c].value}, phase |-> "begun"]
        BY <3>2, <3>3, <3>4
      <4> HIDE DEF IInv, Types
      <4>2. [f[c] EXCEPT !.phase = "done"] = [writes |-> {op[c].value}, phase |-> "done"]
        BY <4>1
      <4> QED
        BY <4>2
    <3> HIDE DEF Doing, IInv, Types
    <3> QED
      BY <3>1, <3>4
  <2>5. temp[c] = op[c].value
    BY <2>1 DEF Whole
  <2> QED
    BY <1>3, <2>2, <2>4, <2>5 DEF Replace, Atomic!TakeEffect, Doing
<1>4. ASSUME NEW c \in Call, FsyncDirectory(c)
      PROVE  Atomic!Settle(c)
  <2>1. op[c].phase = "replaced" /\ op' = [op EXCEPT ![c].phase = "settled"]
    BY <1>4 DEF FsyncDirectory, Goes
  <2>2. Writes(c) = [writes |-> {op[c].value}, phase |-> "done"]
    BY <2>1 DEF Writes
  <2>3. Writes(c)' = [writes |-> {op[c].value}, phase |-> "settled"]
    BY <2>1 DEF Writes
  <2>4. Doing' = [Doing EXCEPT ![c].phase = "settled"]
    <3>1. Doing' = [Doing EXCEPT ![c] = [writes |-> {op[c].value}, phase |-> "settled"]]
      BY <2>1, <2>3, DoingOfOne
    <3>2. Doing[c] = [writes |-> {op[c].value}, phase |-> "done"]
      BY <2>2 DEF Doing
    <3>3. Doing = [d \in Call |-> Doing[d]]
      BY DEF Doing
    <3>4. ASSUME NEW f, f = Doing
          PROVE  [f EXCEPT ![c].phase = "settled"]
                   = [f EXCEPT ![c] = [writes |-> {op[c].value}, phase |-> "settled"]]
      <4>1. f = [d \in Call |-> f[d]] /\ f[c] = [writes |-> {op[c].value}, phase |-> "done"]
        BY <3>2, <3>3, <3>4
      <4> HIDE DEF IInv, Types
      <4>2. [f[c] EXCEPT !.phase = "settled"] = [writes |-> {op[c].value}, phase |-> "settled"]
        BY <4>1
      <4> QED
        BY <4>2
    <3> HIDE DEF Doing, IInv, Types
    <3> QED
      BY <3>1, <3>4
  <2> QED
    BY <1>4, <2>2, <2>4 DEF FsyncDirectory, Atomic!Settle, Doing
<1>5. ASSUME NEW c \in Call, Return(c)
      PROVE  Atomic!Return(c)
  <2>1. Writes(c).phase = "settled"
    BY <1>5 DEF Return, Writes
  <2>2. Writes(c)' = Atomic!Nothing
    BY <1>5 DEF Return, Writes, Idle, Atomic!Nothing
  <2>3. Doing' = [Doing EXCEPT ![c] = Atomic!Nothing]
    BY <1>5, <2>2, DoingOfOne DEF Return
  <2> QED
    BY <1>5, <2>1, <2>3 DEF Return, Atomic!Return, Doing
<1>6. ASSUME NEW c \in Call, Raise(c)
      PROVE  Atomic!GiveUp({c})
  <2>1. op' = [d \in Call |-> IF d \in {c} THEN Idle ELSE op[d]]
    BY <1>6 DEF Raise
  <2> QED
    BY <1>6, <2>1, DoingOfTheGone DEF Raise, Atomic!GiveUp, Doing
<1>7. ASSUME NEW c \in Call, BeginRead(c) \/ EndRead(c)
      PROVE  UNCHANGED <<target, stable, Doing, seen>>
  <2>1. PICK ph \in {"idle", "reading"} :
               op[c].phase \in {"idle", "read"} /\ op' = [op EXCEPT ![c].phase = ph]
    BY <1>7 DEF BeginRead, EndRead, Goes
  <2>2. Writes(c)' = Writes(c)
    BY <2>1 DEF Writes
  <2>3. Doing' = [Doing EXCEPT ![c] = Doing[c]]
    BY <2>1, <2>2, DoingOfOne DEF Doing
  <2>4. Doing' = Doing
    BY <2>3 DEF Doing
  <2> QED
    BY <1>7, <2>4 DEF BeginRead, EndRead
<1>8. ASSUME NEW c \in Call, Read(c)
      PROVE  Atomic!Get
  <2>1. op[c].phase = "reading" /\ op' = [op EXCEPT ![c].phase = "read"]
    BY <1>8 DEF Read, Goes
  <2>2. Writes(c)' = Writes(c)
    BY <2>1 DEF Writes
  <2>3. Doing' = [Doing EXCEPT ![c] = Doing[c]]
    BY <2>1, <2>2, DoingOfOne DEF Doing
  <2>4. Doing' = Doing
    BY <2>3 DEF Doing
  <2> QED
    BY <1>8, <2>4 DEF Read, Atomic!Get, Doing
<1>9. ASSUME NEW c \in Call, Destroy(c)
      PROVE  Atomic!Remove
  BY <1>9 DEF Destroy, Atomic!Remove, Writes
<1>10. ASSUME NEW c \in Call, Die(c)
       PROVE  Atomic!GiveUp(Fellows(c)) /\ Fellows(c) \in SUBSET Call
  BY <1>10, DoingOfTheGone DEF Die, Gone, Fellows, Atomic!GiveUp, Doing
<1>11. CASE LosePower
  <2>1. Doing' = [c \in Call |-> Atomic!Nothing]
    BY <1>11, DoingOfTheGone DEF LosePower, Gone
  <2> QED
    BY <1>11, <2>1 DEF LosePower, Atomic!LosePower, Doing, Atomic!Next
<1>12. CASE UNCHANGED vars
  BY <1>12 DEF vars, Doing, Writes
<1>13. \A c \in Call : {c} \in SUBSET Call
  OBVIOUS
<1> QED
  BY <1>1, <1>2, <1>3, <1>4, <1>5, <1>6, <1>7, <1>8, <1>9, <1>10, <1>11,
     <1>12, <1>13 DEF Next, Atomic!Next

\* The files of protocol.py:64-103 and operations.py:34-72 are registers that
\* are written and read at once, and what was written and returned lasts.
THEOREM StateFilesImplementAtomicFile == Spec => ImplementsAtomicFile
<1> QED
  BY Invariant, InitAtomic, NextAtomic, PTL DEF Spec, ImplementsAtomicFile, Atomic!Spec

-----------------------------------------------------------------------------
\* A call that raises removes its temporary, so only a death strands one
\* (operations.py:55-69).
THEOREM OnlyDeathLeavesLitter == Spec => []LitterMeansDeath
<1>1. Init => LitterMeansDeath
  BY DEF Init, LitterMeansDeath
<1>2. LitterMeansDeath /\ [Next]_vars => LitterMeansDeath'
  BY DEF LitterMeansDeath, Next, vars, Begin, Acquire, Create, Write, Fsync,
         Replace, FsyncDirectory, Return, Raise, BeginRead, Read, EndRead,
         Destroy, Die, LosePower, Gone
<1> QED
  BY <1>1, <1>2, PTL DEF Spec

\* Whoever writes is the only one past the lock: no reader and no other writer
\* is inside it meanwhile (protocol.py:64-83, operations.py:34-72).
WritersAreAlone ==
  \A c, d \in Call :
    op[c].phase \in Locking /\ op[d].phase \in Locking \cup {"reading", "read"}
      => c = d

\* Writers are alone past the lock, whoever fails or dies meanwhile
\* (protocol.py:64-83, operations.py:34-72).
THEOREM LocksExclude == Spec => []WritersAreAlone
<1>1. IInv => WritersAreAlone
  BY DEF IInv, Excluding, WritersAreAlone
<1> QED
  BY <1>1, Invariant, PTL

\* No reader, before or after a crash, finds half a file.
NothingIsTorn == Torn \notin stable \cup {target, seen}

\* Whatever dies between two system calls, the file on disk and what a reader
\* takes from it is whole (protocol.py:86-103, operations.py:48-72).
THEOREM NoHalfFile == Spec => []NothingIsTorn
<1>1. IInv => NothingIsTorn
  BY StateFilesAssumption DEF IInv, Types, NothingIsTorn
<1> QED
  BY <1>1, Invariant, PTL
=============================================================================
