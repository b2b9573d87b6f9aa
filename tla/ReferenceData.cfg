\* Two calls at once on one leave type, over two days.
CONSTANTS
  c1 = c1
  c2 = c2
  n1 = n1
  n2 = n2
  m1 = m1
  m2 = m2
  annual = annual
  None = None
  Calls = {c1, c2}
  Hires <- HiresMC
  Codes = {annual}
  Proposals <- ProposalsMC
  LastDay = 2
SPECIFICATION Spec
SYMMETRY Symmetry
INVARIANTS
  RefusalsAreRaces
  DashboardIsCurrent
CHECK_DEADLOCK FALSE
