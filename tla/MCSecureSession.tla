--------------------------- MODULE MCSecureSession ---------------------------
EXTENDS SecureSession

\* The initiators send more than the others: enough to run out of sequence
\* numbers and to push the window along.
MCMaxSends == [e \in Endpoint |-> IF e \in Initiator THEN 3 ELSE 1]
MCOneSend == [e \in Endpoint |-> 1]
=============================================================================
