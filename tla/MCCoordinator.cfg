SPECIFICATION CoSpec
CONSTANTS
  Threads = {t1, t2}
  Requests = {r1}
  NoRequest = NoRequest
  NoBoot = NoBoot
  Published <- TwoWorkers
  MaxPlans = 1
  MaxEpoch = 3
SYMMETRY Symmetry
INVARIANTS
  CoTypeOK
  FencedPlansStopped
PROPERTIES
  NextPassAvoidsFenced
