CONSTANTS
  Call = {c1, c2, c3}
  Value = {v1, v2}
  None = None
  Torn = Torn
SPECIFICATION FairSpec
INVARIANTS
  LitterMeansDeath
PROPERTIES
  ImplementsAtomicFile
  CallsReturn
