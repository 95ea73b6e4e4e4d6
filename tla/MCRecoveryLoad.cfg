SPECIFICATION RecSpec
CONSTANTS
  Threads = {t1}
  Savers = {s1, s2}
  Requests = {r1}
  NoRequest = NoRequest
  NoImage = NoImage
  Published <- OneCandidate
  MaxPlans = 1
  MaxEpoch = 2
  MaxCrashes = 1
INVARIANTS
  SavedIsLoadable
