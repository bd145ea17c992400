SPECIFICATION FairSpec
CONSTANTS
  Req = {r1}
  Workload = {w1, w2}
  OverlapBinding = FALSE
  OverlapWorkload = FALSE
  ReuseWorkload = FALSE
  MaxEnsures = 2
  MaxCreates = 2
  MaxFaults = 2
INVARIANTS
  TypeOK
  NoIdempotencyConflict
PROPERTIES
  ReleasedMeansGone
  DeletedMeansReleased
  EventuallyReleased
