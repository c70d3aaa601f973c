----------------------------- MODULE TrustedOpen -----------------------------
(***************************************************************************)
(* Workers that open envelopes under a trust store that changes            *)
(* meanwhile.  open_envelope asks the store once, before it verifies and   *)
(* decrypts (protocol.py:370-371); the store may revoke or replace the     *)
(* sender before the payload is returned (protocol.py:394-400).            *)
(***************************************************************************)
EXTENDS TrustStore

VARIABLE opening     \* the sender of the envelope each worker is opening

openVars == <<vars, opening>>

\* Mutated form of BeginOpen: the store is not asked.
BeginOpenUnasked(w, k) ==
  /\ opening[w] = None
  /\ opening' = [opening EXCEPT ![w] = k]
  /\ UNCHANGED vars

\* require_trusted has let the sender pass.
BeginOpen(w, k) ==
  /\ opening[w] = None
  /\ Trusted(store[w], k)
  /\ opening' = [opening EXCEPT ![w] = k]
  /\ UNCHANGED vars

\* The call returns the payload, or raises.
EndOpen(w) ==
  /\ opening[w] # None
  /\ opening' = [opening EXCEPT ![w] = None]
  /\ UNCHANGED vars

OpenNext ==
  \/ Next /\ UNCHANGED opening
  \/ \E w \in Worker : EndOpen(w) \/ \E k \in Identity : BeginOpen(w, k)

OpenInit == Provisioned /\ opening = [w \in Worker |-> None]

\* A call of open_envelope ends.
OpenSpec ==
  /\ OpenInit
  /\ [][OpenNext]_openVars
  /\ \A w \in Worker : WF_openVars(EndOpen(w))

-----------------------------------------------------------------------------
\* A sender whom a worker has stopped trusting for good is soon not heard
\* there any more: what was in hand when it was revoked or rotated out is the
\* last that is opened.
RevokedFallsSilent ==
  \A w \in Worker : \A k \in Identity :
    <>[](~ Trusted(store[w], k)) => <>[](opening[w] # k)
=============================================================================
