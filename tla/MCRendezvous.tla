---------------------------- MODULE MCRendezvous ----------------------------
EXTENDS Rendezvous, TLC

\* Both scopes in one capability, as the tests have it, or one alone.
MCScopes == {{"register", "lookup"}, {"lookup"}}

\* Agents and endpoints are interchangeable.
MCSymmetry == Permutations(Agent) \cup Permutations(Endpoint)
=============================================================================
