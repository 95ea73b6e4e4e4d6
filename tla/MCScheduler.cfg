SPECIFICATION FairSpec
CONSTANTS
  Threads = {t1, t2}
  Requests = {r1}
  NoRequest = NoRequest
  Published <- OneCandidate
  MaxPlans = 2
  MaxEpoch = 2
INVARIANTS
  TypeOK
  BackedByExternalOwners
  NoOrphanedCommitment
  OneCommitmentPerPlan
  LiveUnderCurrentAuthority
  CancelledNeverWorks
  AwaitingHasOneOwner
PROPERTIES
  StoppedStaysStopped
  ImplementsPlacementAuthority
  CallsReturn
  LateGrantsReleased
