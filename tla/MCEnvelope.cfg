CONSTANTS
  Opener = {o1, o2}
  Message = {m1, m2}
  Issue = {1, 2}
  Validity = {2}
  Skew = 1
  Stall = 1
  Ttl = 5
  MaxEntries = 1
  Durable = TRUE
  Restarts = TRUE
  HookFails = TRUE
  MaxAltered = 1
  MaxTime = 6
SPECIFICATION FairSpec
INVARIANTS
  TypeOK
  DeliveredAtMostOnce
  ForgottenIsDead
  OnlyGenuineRemembered
PROPERTIES
  ImplementsAtMostOnce
  OpenedIsDelivered
CHECK_DEADLOCK FALSE
