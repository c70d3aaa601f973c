---------------------------- MODULE MCOpaqueRelay ----------------------------
EXTENDS OpaqueRelay, TLC

\* Handles are interchangeable.
MCSymmetry == Permutations(Handle)
=============================================================================
