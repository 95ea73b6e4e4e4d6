SPECIFICATION CoFairSpec
CONSTANTS
  Threads = {t1, t2}
  Requests = {r1}
  NoRequest = NoRequest
  NoBoot = NoBoot
  Published <- OneWorker
  MaxPlans = 1
  MaxEpoch = 3
PROPERTIES
  DroppedWorkerFenced
