\* Each period is carried forward once; two days can be booked in each.
SPECIFICATION Spec
CONSTANTS
  h1 = h1
  h2 = h2
  None = None
  Handlers <- TwoHandlers
  LastPeriod = 2
  Annual = 1
  CarryCap = 1
  MaxBooked = 2
  CarryOnce = TRUE
SYMMETRY Symmetric
INVARIANTS
  TypeOK
  EntitlementExplained
  BookingsKept
  SpentOnce
