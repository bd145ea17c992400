SPECIFICATION FairSpec
CONSTANTS
  Req = {r1, r2}
  Workload = {w1}
  OverlapBinding = TRUE
  OverlapWorkload = FALSE
  ReuseWorkload = TRUE
  MaxEnsures = 1
  MaxCreates = 0
  MaxFaults = 0
PROPERTY EventuallyReleased
