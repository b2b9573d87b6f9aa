\* A manager's pages: requests of a report, of his own and of his own manager.
CONSTANTS
  emp = emp
  mgr = mgr
  oth = oth
  acc1 = acc1
  acc2 = acc2
  acc3 = acc3
  r1 = r1
  r2 = r2
  k1 = k1
  k2 = k2
  None = None
  Employees = {emp, mgr, oth}
  Role <- RoleMC
  ManagerOf <- ManagerOfMC
  Accounts = {acc1, acc2, acc3}
  OwnerOf <- OwnerOfMC
  Requests = {r1, r2}
  DayCounts = {1}
  StartDays = {1}
  Viewer = mgr
  Sends = {k1, k2}
SPECIFICATION PagesSpec
CONSTRAINT Bounds
SYMMETRY Symmetry
INVARIANTS
  PagesTypeOK
  DecisionsShownTaken
  
  OneDraftPerVisit
PROPERTIES
  DetailGoesForward
CHECK_DEADLOCK FALSE
