--------------------------- MODULE MCReplayWindow ---------------------------
EXTENDS ReplayWindow

\* Every number in range and one out of range on each side.
MCInput == -1..(MaxSequence + 1)
=============================================================================
