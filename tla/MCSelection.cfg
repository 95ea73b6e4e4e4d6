SPECIFICATION Spec
CONSTANTS
  MaxBytes = 8
  MaxCount = 4
  Word = 32
  MoveNormalizer = 4
  Copies <- AllCopies
  Demands <- AllDemands
  NoDemand = NoDemand
  MaxFallback = 1
INVARIANTS
  SelTypeOK
  WinnerServesDemand
  BestFirst
  AdvantageNeverLoses
