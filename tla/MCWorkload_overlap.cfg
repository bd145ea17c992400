SPECIFICATION SessionSpec
CONSTANTS
  r1 = r1
  r2 = r2
  p1 = p1
  p2 = p2
  Req = {r1, r2}
  NoReq = NoReq
  Replica = {p1, p2}
  ReplicaOf <- TwoProcesses
  ClientOps = {"put", "delete"}
  FaultyOps = {"put", "delete"}
  Overlap = TRUE
  MainMayExit = TRUE
  KeyedByUid = {"release", "status"}
  MaxPuts = 2
  MaxFaults = 2
SYMMETRY Symmetry
INVARIANTS
  FactBacked
  WritesAreSynced
PROPERTIES
  ImplementsMountRelease
