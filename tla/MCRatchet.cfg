CONSTANTS
  Party = {P, Q}
  Sealers = {P}
  QueueLimit = 1
  UsedLimit = 2
  LoadedQueueLimit = 2
  LoadedUsedLimit = 3
  Ledger = TRUE
  Restarts = TRUE
  Stale = TRUE
  MaxTokens = 2
  MaxSeals = 2
  MaxAltered = 1
  MaxTime = 2
  Ttl = 1
  MaxEntries = 1
  Durable = FALSE
SPECIFICATION FairSpec
CHECK_DEADLOCK FALSE
INVARIANTS
  TypeOK
  OpenedInOrder
  NextIsOpenable
  TokenCarriesOneMessage
  SpentTokensAreGone
  ReopenedOnlyWhenForgotten
PROPERTY SealedIsOpened
