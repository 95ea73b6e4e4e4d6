SPECIFICATION Spec
CONSTANTS
  MaxBytes = 8
  MaxCount = 4
  Word = 32
  MaxRecords = 2
  MaxString = 2
  MaxPayload = 190
  MaxHorizon = 8
  NotFinite = 99
  MaxNumber = 255
  Radix = 4
  Basis = 13
  Records <- MCRecords
  Disturbed <- MCDisturbed
  Fnv <- MCFnv
INVARIANTS
  TransferTypeOK
  NothingElseArrives
  CutIsRefused
  LimitsAreTheDocumented
CHECK_DEADLOCK FALSE
