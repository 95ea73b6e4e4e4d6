SPECIFICATION DepFairSpec
CONSTANTS
  Threads <- AllThreads
  Driver = "driver"
  Requests = {1, 2, 3}
  NoRequest = NoRequest
  NoBoot = NoBoot
  Published <- AllPublished
  MaxPlans = 4
  MaxMisses = 1
  MaxEpoch = 3
  MaxBytes = 8192
  MaxCount = 64
  Word = 524288
  MoveNormalizer = 128
INVARIANTS
  DepTypeOK
  DriverChecksHold
  LaunchedUnderAuthority
  NobodyServedAfterShutdown
PROPERTIES
  KilledWorkerFenced
  DriverEnds
  WaitingConnectionEndsProcess
CHECK_DEADLOCK FALSE
