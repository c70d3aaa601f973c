---------------------------- MODULE MCTransport ----------------------------
EXTENDS Transport

\* Payloads that take several frames, one, or are empty.
MCLength == [m \in Message |-> CASE m = "long" -> 9
                                 [] m = "medium" -> 3
                                 [] m = "short" -> 1
                                 [] m = "empty" -> 0]
=============================================================================
