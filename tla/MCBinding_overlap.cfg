SPECIFICATION Spec
CONSTANTS
  Req = {r1, r2}
  Workload = {w1}
  OverlapBinding = TRUE
  OverlapWorkload = TRUE
  ReuseWorkload = TRUE
  MaxEnsures = 2
  MaxCreates = 1
  MaxFaults = 2
SYMMETRY Symmetry
INVARIANT RefNeverLost
PROPERTY ImplementsBindingRelease
