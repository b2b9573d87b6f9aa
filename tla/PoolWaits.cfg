\* Three calls and a probe on two clients, fairly scheduled.
CONSTANTS
  c1 = c1
  c2 = c2
  c3 = c3
  p1 = p1
  Calls = {c1, c2, c3}
  Probes = {p1}
  PoolSize = 2
  LeaveTypes = 1
SPECIFICATION FairSpec
INVARIANTS
  TypeOK
  ClientsAccounted
PROPERTIES
  ReleasesOrStandstill
  ProbeAnswered
CHECK_DEADLOCK FALSE
