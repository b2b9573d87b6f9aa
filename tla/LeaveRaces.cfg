\* Two calls at once on two requests of one balance row and their reversal.
CONSTANTS
  emp = emp
  mgr = mgr
  r1 = r1
  r2 = r2
  r3 = r3
  r4 = r4
  r5 = r5
  acc1 = acc1
  h1 = h1
  h2 = h2
  h3 = h3
  None = None
  Employees = {emp, mgr}
  Role <- RoleTwo
  ManagerOf <- ManagerOfTwo
  Accounts = {acc1}
  OwnerOf <- OwnerOne
  Entitled <- EntitledOne
  Requests = {r1, r2, r3, r4}
  Creatable = {r1, r2}
  Handlers = {h1, h2}
  DayCounts = {1}
  StartDays = {1}
  LastDay = 0
  SerialRequests = FALSE
SPECIFICATION Spec
SYMMETRY Symmetry
INVARIANTS
  TypeOK
  NoLostUpdate
  ReleasedOnce
  AuditIsComplete
  WaitsOrdered
PROPERTIES
  ImplementsCommits
CHECK_DEADLOCK FALSE
