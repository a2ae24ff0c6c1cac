SPECIFICATION CacheSpec
CONSTANTS
  C1 = C1
  C2 = C2
  K1 = K1
  K2 = K2
  K3 = K3
  Absent = Absent
  Idle = Idle
  Accepted = Accepted
  Refused = Refused
  Never = Never
  Callers = {C1, C2}
  Keys = {K1, K2, K3}
  LongKeys = {K3}
  PruneFloor = 1
  Requests <- SomeRequests
  MaxTime = 9
  Stall = 1
  MaxNow = 5
SYMMETRY Symmetry
PROPERTIES
  ReplayWindow
