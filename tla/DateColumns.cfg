\* Fourteen months of days from four hire dates, on a server at Greenwich and
\* on one east of it.
CONSTANTS
  MaxPeriods = 17
  Unresolved = Unresolved
  NoRow = NoRow
  HireDates <- HireDatesMC
  PeriodLengths = {1, 3, 12}
  Days = 14
  Zones = {0, 3}
  Hours = {0, 20, 23}
SPECIFICATION ColumnsSpec
INVARIANTS
  NextPeriodAgrees
  DriftBounded
  RequestsFindRow
PROPERTIES
  PeriodsTile
CHECK_DEADLOCK FALSE
