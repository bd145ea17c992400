SPECIFICATION FairSpec
CONSTANTS
  Req = {r1, r2}
  IdleTimeouts = {1, 2}
  Lifetimes = {2}
  MaxAttempts = 3
  ReuseIds = FALSE
  MaxTime = 3
  MaxPods = 2
  MaxKeepalives = 2
  MaxFaults = 2
INVARIANTS
  TypeOK
  CappedByLifetime
  LeaseCoversExpiry
PROPERTIES
  OnlyOvertakenShortens
  KeepaliveAnswered
CHECK_DEADLOCK FALSE
