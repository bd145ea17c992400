SPECIFICATION Spec
CONSTANTS
  Req = {r1}
  Workload = {w1}
  OverlapBinding = FALSE
  OverlapWorkload = TRUE
  ReuseWorkload = TRUE
  MaxEnsures = 1
  MaxCreates = 1
  MaxFaults = 0
PROPERTY DeletedMeansUnused
