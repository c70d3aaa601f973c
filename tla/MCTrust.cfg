CONSTANTS
  Worker = {w1}
  Agent = {a, b}
  Challenge = {c1}
  Identity <- MCIdentity
  MaxRotations = 2
  None = None
SPECIFICATION OpenSpec
CHECK_DEADLOCK FALSE
INVARIANTS
  CondemnedStaysOut
  PinsHaveAuthority
PROPERTIES
  RevokedFallsSilent
