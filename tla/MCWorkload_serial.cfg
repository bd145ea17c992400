SPECIFICATION SessionFairSpec
CONSTANTS
  r1 = r1
  r2 = r2
  p1 = p1
  p2 = p2
  Req = {r1, r2}
  NoReq = NoReq
  Replica = {p1}
  ReplicaOf <- OneProcess
  ClientOps = {"put", "delete"}
  FaultyOps = {"delete"}
  Overlap = FALSE
  MainMayExit = FALSE
  KeyedByUid = {"release", "status"}
  MaxPuts = 2
  MaxFaults = 3
INVARIANTS
  SessionTypeOK
  LivePodIsTracked
  ReleaseBeforeRemoval
  NoStatusConflict
PROPERTIES
  DeletedMeansClosed
  DeleteNeverRegresses
  ImplementsDeleteMutex
  EventuallyRemoved
  EventuallyClosed
