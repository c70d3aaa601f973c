---------------------------- MODULE MCTrustedOpen ----------------------------
EXTENDS TrustedOpen

\* The first agent in the set has two identities, the others have one.
MCIdentity == (Agent \X {1}) \cup ({CHOOSE a \in Agent : TRUE} \X {2})
=============================================================================
