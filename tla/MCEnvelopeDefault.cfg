CONSTANTS
  Opener = {o1, o2}
  Message = {m1, m2}
  Issue = {1}
  Validity = {2}
  Skew = 1
  Stall = 0
  Ttl = 2
  MaxEntries = 2
  Durable = FALSE
  Restarts = FALSE
  HookFails = FALSE
  MaxAltered = 0
  MaxTime = 6
SPECIFICATION Spec
INVARIANT SecondOpenIsRefused
CHECK_DEADLOCK FALSE
