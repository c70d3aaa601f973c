--------------------------- MODULE MCEnvelopeOpen ---------------------------
EXTENDS EnvelopeOpen, TLC

\* Workers and messages are interchangeable.
MCSymmetry == Permutations(Opener) \cup Permutations(Message)
=============================================================================
