\* Two calls on two clients wait for each other for ever.
CONSTANTS
  c1 = c1
  c2 = c2
  c3 = c3
  p1 = p1
  Calls = {c1, c2}
  Probes = {p1}
  PoolSize = 2
  LeaveTypes = 1
SPECIFICATION FairSpec
PROPERTIES
  AlwaysReleases
CHECK_DEADLOCK FALSE
