CONSTANTS
  None = None
  Endpoint = {A, B}
  Initiator = {A, B}
  Restarter = {}
  Epochs = {0}
  Age = 0
  Forgeries = {}
  MaxObjects = 1
  MaxHellos = 1
  MaxSends <- MCOneSend
  MaxTime = 0
  Window = 2
  MaxSequence = 3
SPECIFICATION Spec
CHECK_DEADLOCK FALSE
INVARIANT NonceNeverReused
