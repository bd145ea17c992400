SPECIFICATION FairSpec
CONSTANTS
  r1 = r1
  r2 = r2
  p1 = p1
  Req = {r1, r2}
  NoReq = NoReq
  Replica = {p1}
  ReplicaOf <- OneProcess
  ClientOps = {"put", "delete"}
  FaultyOps = {"put"}
  Overlap = FALSE
  MainMayExit = FALSE
  KeyedByUid = {"release", "status"}
  MaxPuts = 2
  MaxFaults = 1
PROPERTY EventuallyRemoved
