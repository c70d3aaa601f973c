CONSTANTS
  None = None
  Endpoint = {A, B}
  Initiator = {A}
  Restarter = {A}
  Epochs = {0,1}
  Age = 1
  Forgeries = {1}
  MaxObjects = 2
  MaxHellos = 1
  MaxSends <- MCMaxSends
  MaxTime = 2
  Window = 1
  MaxSequence = 1
SPECIFICATION FairSpec
CHECK_DEADLOCK FALSE
INVARIANTS
  TypeOK
  NonceNeverReused
  SameSessionSameKey
  NextRecordAcceptable
PROPERTIES
  ImplementsAtMostOnce
  HandshakeCompletes
