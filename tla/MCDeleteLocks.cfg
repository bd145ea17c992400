SPECIFICATION FairSpec
CONSTANTS
  Thread = {t1, t2, t3}
  Key = {k1, k2}
  Entry = {e1, e2, e3}
  NoThread = NoThread
  NoEntry = NoEntry
  NoKey = NoKey
INVARIANTS
  TypeOK
  MutualExclusion
  NoOrphanEntry
  RefsCountUsers
  NoLeak
PROPERTIES
  EventuallyInside
  ImplementsKeyedMutex
