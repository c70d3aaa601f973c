CONSTANTS
  Agent = {a, b}
  Endpoint = {e1, e2}
  Hour = 2
  Scopes <- MCScopes
  Stall = 1
  MaxRecords = 2
  MaxTokens = 3
  MaxTime = 3
  None = None
SPECIFICATION Spec
SYMMETRY MCSymmetry
INVARIANTS
  LastRegistrationStands
  AnswersAreCurrent
  RegistrationsAreGranted
  LiveCapabilityVerifies
CHECK_DEADLOCK FALSE
