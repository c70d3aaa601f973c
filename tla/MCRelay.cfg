CONSTANTS
  Handle = {h1, h2, h3}
  Size = {1, 2}
  MaxQueue = 2
  MaxHandles = 2
  MaxRecords = 3
  MaxBytes = 4
  MaxForwards = 3
SPECIFICATION FairSpec
CHECK_DEADLOCK FALSE
INVARIANTS
  OrderKept
  BytesAreCounted
  LimitsHold
PROPERTY ForwardedIsReceived
