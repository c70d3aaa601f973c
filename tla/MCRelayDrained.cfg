CONSTANTS
  Handle = {h1, h2}
  Size = {1}
  MaxQueue = 2
  MaxHandles = 2
  MaxRecords = 1
  MaxBytes = 4
  MaxForwards = 2
SPECIFICATION Spec
CHECK_DEADLOCK FALSE
INVARIANT IdleRelayHoldsNoHandle
