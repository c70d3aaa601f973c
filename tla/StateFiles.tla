----------------------------- MODULE StateFiles -----------------------------
(***************************************************************************)
(* The files state is kept in, one of them at a time:                      *)
(*                                                                         *)
(*   "json"    identities, trust stores and ratchets: _atomic_write_json   *)
(*             and reads under _file_lock (protocol.py:64-103, 175, 304,   *)
(*             495).  Every call may be of a process of its own.           *)
(*   "secret"  a secret of FileSecretProvider (operations.py:34-72).  The  *)
(*             calls are threads that share one provider object.           *)
(*                                                                         *)
(* A step is one system call.  After a loss of power the file is one of    *)
(* those the directory may have shown since it was synchronised last, and  *)
(* bytes that were not synchronised are lost ("torn").  litter is what a   *)
(* temporary left behind would stop: the name is new for each call of      *)
(* _atomic_write_json, so only a secret's matters.                         *)
(***************************************************************************)
EXTENDS Naturals, FiniteSets

CONSTANTS Call, Value, None, Torn

ASSUME StateFilesAssumption == None \notin Value /\ Torn \notin Value \cup {None}

VARIABLES kind,
          lock,      \* calls that hold the lock: [call -> "shared", "exclusive"]
          op,        \* the call each thread is in
          temp,      \* the temporary of each call: what is in it, or None
          litter,    \* a secret's temporary that no call is working on
          target,    \* what a reader of the path finds
          stable,    \* what may be there after a loss of power
          seen,      \* what the last read returned
          died       \* history: a process died, or the power was lost

vars == <<kind, lock, op, temp, litter, target, stable, seen, died>>

Idle == [phase |-> "idle", value |-> None]

Init ==
  /\ kind \in {"json", "secret"}
  /\ lock = [c \in {} |-> ""]
  /\ op = [c \in Call |-> Idle]
  /\ temp = [c \in Call |-> None]
  /\ litter = FALSE
  /\ target \in Value \cup {None}
  /\ stable = {target}
  /\ seen = None
  /\ died = FALSE

Holders == DOMAIN lock

\* flock for the files of many processes, an RLock for a provider's.
Grants(mode) ==
  \/ Holders = {}
  \/ kind = "json" /\ mode = "shared" /\ \A c \in Holders : lock[c] = "shared"

Locked(c, mode) == [d \in Holders \cup {c} |-> IF d = c THEN mode ELSE lock[d]]
Unlocked(S) == [d \in Holders \ S |-> lock[d]]

Goes(c, from, to) == op[c].phase = from /\ op' = [op EXCEPT ![c].phase = to]

-----------------------------------------------------------------------------
\* put or _atomic_write_json is called.
Begin(c, v) ==
  /\ op[c] = Idle
  /\ op' = [op EXCEPT ![c] = [phase |-> "called", value |-> v]]
  /\ UNCHANGED <<kind, lock, temp, litter, target, stable, seen, died>>

Acquire(c) ==
  /\ Grants("exclusive")
  /\ Goes(c, "called", "locked")
  /\ lock' = Locked(c, "exclusive")
  /\ UNCHANGED <<kind, temp, litter, target, stable, seen, died>>

\* mkstemp, or open with O_EXCL, which a temporary left behind refuses.
Create(c) ==
  /\ kind = "secret" => ~ litter
  /\ Goes(c, "locked", "created")
  /\ temp' = [temp EXCEPT ![c] = Torn]
  /\ UNCHANGED <<kind, lock, litter, target, stable, seen, died>>

Write(c) ==
  /\ Goes(c, "created", "written")
  /\ temp' = [temp EXCEPT ![c] = op[c].value]
  /\ UNCHANGED <<kind, lock, litter, target, stable, seen, died>>

Fsync(c) ==
  /\ Goes(c, "written", "synced")
  /\ UNCHANGED <<kind, lock, temp, litter, target, stable, seen, died>>

\* Mutated form of Replace: the temporary need not have been synchronised.
ReplaceEarly(c) ==
  /\ \/ Goes(c, "written", "replaced") /\ stable' = stable \cup {temp[c], Torn}
     \/ Goes(c, "synced", "replaced") /\ stable' = stable \cup {temp[c]}
  /\ target' = temp[c]
  /\ temp' = [temp EXCEPT ![c] = None]
  /\ UNCHANGED <<kind, lock, litter, seen, died>>

\* os.replace: the directory is changed, and not yet synchronised.
Replace(c) ==
  /\ Goes(c, "synced", "replaced")
  /\ target' = temp[c]
  /\ stable' = stable \cup {temp[c]}
  /\ temp' = [temp EXCEPT ![c] = None]
  /\ UNCHANGED <<kind, lock, litter, seen, died>>

FsyncDirectory(c) ==
  /\ Goes(c, "replaced", "settled")
  /\ stable' = {target}
  /\ UNCHANGED <<kind, lock, temp, litter, target, seen, died>>

Return(c) ==
  /\ op[c].phase = "settled"
  /\ op' = [op EXCEPT ![c] = Idle]
  /\ lock' = Unlocked({c})
  /\ UNCHANGED <<kind, temp, litter, target, stable, seen, died>>

\* Mutated forms of Raise: the temporary is left behind; the lock is kept.
RaiseLeavesTemporary(c) ==
  /\ op[c].phase \in {"locked", "created", "written", "synced", "replaced"}
  /\ op' = [op EXCEPT ![c] = Idle]
  /\ temp' = [temp EXCEPT ![c] = None]
  /\ litter' = (litter \/ temp[c] # None)
  /\ lock' = Unlocked({c})
  /\ UNCHANGED <<kind, target, stable, seen, died>>

RaiseKeepsLock(c) ==
  /\ op[c].phase \in {"locked", "created", "written", "synced", "replaced"}
  /\ op' = [op EXCEPT ![c] = Idle]
  /\ temp' = [temp EXCEPT ![c] = None]
  /\ UNCHANGED <<kind, lock, litter, target, stable, seen, died>>

\* The next system call fails: the temporary is removed, the lock released.
Raise(c) ==
  /\ op[c].phase \in {"locked", "created", "written", "synced", "replaced"}
  /\ op' = [op EXCEPT ![c] = Idle]
  /\ temp' = [temp EXCEPT ![c] = None]
  /\ lock' = Unlocked({c})
  /\ UNCHANGED <<kind, litter, target, stable, seen, died>>

-----------------------------------------------------------------------------
\* load, load_state or get: lock, read, release.
BeginRead(c) ==
  /\ Grants("shared")
  /\ Goes(c, "idle", "reading")
  /\ lock' = Locked(c, "shared")
  /\ UNCHANGED <<kind, temp, litter, target, stable, seen, died>>

Read(c) ==
  /\ Goes(c, "reading", "read")
  /\ seen' = target
  /\ UNCHANGED <<kind, lock, temp, litter, target, stable, died>>

EndRead(c) ==
  /\ Goes(c, "read", "idle")
  /\ lock' = Unlocked({c})
  /\ UNCHANGED <<kind, temp, litter, target, stable, seen, died>>

\* destroy, all of it under the provider's lock: the directory is not
\* synchronised.
Destroy(c) ==
  /\ kind = "secret"
  /\ op[c] = Idle /\ Holders = {}
  /\ target' = None
  /\ stable' = stable \cup {None}
  /\ UNCHANGED <<kind, lock, op, temp, litter, seen, died>>

-----------------------------------------------------------------------------
\* The processes that die at once with that of c: all threads of a provider.
Fellows(c) == IF kind = "secret" THEN Call ELSE {c}

Gone(S) ==
  /\ op' = [c \in Call |-> IF c \in S THEN Idle ELSE op[c]]
  /\ lock' = Unlocked(S)
  /\ temp' = [c \in Call |-> IF c \in S THEN None ELSE temp[c]]
  /\ died' = TRUE

\* A secret's temporary loses the call that would remove it.
Stranded(S) == kind = "secret" /\ \E c \in S : temp[c] # None

Die(c) ==
  /\ Gone(Fellows(c))
  /\ litter' = (litter \/ Stranded(Fellows(c)))
  /\ UNCHANGED <<kind, target, stable, seen>>

\* The directory comes back as it was synchronised, or later.
LosePower ==
  /\ Gone(Call)
  /\ target' \in stable
  /\ stable' = {target'}
  /\ litter' \in {litter, litter \/ Stranded(Call)}
  /\ UNCHANGED <<kind, seen>>

Next ==
  \/ \E c \in Call :
       \/ \E v \in Value : Begin(c, v)
       \/ Acquire(c) \/ Create(c) \/ Write(c) \/ Fsync(c)
       \/ Replace(c) \/ FsyncDirectory(c) \/ Return(c) \/ Raise(c)
       \/ BeginRead(c) \/ Read(c) \/ EndRead(c)
       \/ Destroy(c) \/ Die(c)
  \/ LosePower

Spec == Init /\ [][Next]_vars

Step(c) ==
  \/ Create(c) \/ Write(c) \/ Fsync(c) \/ Replace(c) \/ FsyncDirectory(c)
  \/ Return(c) \/ Raise(c) \/ Read(c) \/ EndRead(c)

\* A thread in a call goes on, and one that waits for a lock that is released
\* again and again gets it.
FairSpec ==
  Spec /\ \A c \in Call : WF_vars(Step(c)) /\ SF_vars(Acquire(c))

-----------------------------------------------------------------------------
Writes(c) ==
  CASE op[c].phase \in {"called", "locked", "created", "written", "synced"} ->
         [writes |-> {op[c].value}, phase |-> "begun"]
    [] op[c].phase = "replaced" -> [writes |-> {op[c].value}, phase |-> "done"]
    [] op[c].phase = "settled" -> [writes |-> {op[c].value}, phase |-> "settled"]
    [] OTHER -> [writes |-> {}, phase |-> "idle"]

Atomic == INSTANCE AtomicFile
            WITH value <- target, kept <- stable,
                 doing <- [c \in Call |-> Writes(c)], seen <- seen

\* Locks, temporary, the synchronisations and the replacement make the file a
\* register that is written at once: no reader finds half a file, and a write
\* that returned is there after a crash, whichever step the crash came after.
ImplementsAtomicFile == Atomic!Spec

\* What refuses every later put of a secret, a temporary that nobody is working
\* on, is left by a process that died, never by a call that raised.
LitterMeansDeath == litter => died

\* Every call of a file ends, whoever raises or dies with the lock in hand, if
\* only the readers leave a pause now and then: flock lets a reader join other
\* readers while a writer waits, and readers that overlap keep it waiting.
ReadersPause == []<>(\A c \in Holders : lock[c] # "shared")

CallsReturn ==
  ReadersPause => \A c \in Call : (op[c] # Idle) ~> (op[c] = Idle)
=============================================================================
