SPECIFICATION FairSpec
CONSTANTS
  Caller = {c1, c2}
  MaxStrays = 1
  MaxFaults = 2
INVARIANTS
  TypeOK
  VerdictIsTrue
  PendingIsCurrent
PROPERTIES
  CallReturns
  EventuallyKnown
  ImplementsAfscpCall
