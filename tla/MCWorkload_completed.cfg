SPECIFICATION FairSpec
CONSTANTS
  r1 = r1
  r2 = r2
  p1 = p1
  Req = {r1, r2}
  NoReq = NoReq
  Replica = {p1}
  ReplicaOf <- OneProcess
  ClientOps = {"put", "delete"}
  FaultyOps = {}
  Overlap = FALSE
  MainMayExit = TRUE
  KeyedByUid = {"release", "status"}
  MaxPuts = 1
  MaxFaults = 0
PROPERTY EventuallyRemoved
