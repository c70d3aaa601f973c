CONSTANTS
  Message = {"long", "medium", "short", "empty"}
  Length <- MCLength
  Radix = 2
  Base = 1
  Mtus = {5, 7, 8, 9}
  MaxFragments = 4
  MaxTotalBytes = 22
  None = None
  Streamed = {"medium", "short", "empty"}
  HeaderBytes = 2
  MaxFrame = 2
  MaxSends = 3
  MaxGot = 3
  MaxAltered = 2
SPECIFICATION FairSpec
INVARIANTS
  FramesCarryPayload
  ReassemblyIsExact
  StreamInStep
PROPERTIES
  CallsEnd
  StreamDelivers
CHECK_DEADLOCK FALSE
