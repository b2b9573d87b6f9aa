\* Concurrent calls on two requests of one balance row, one call per request.
CONSTANTS
  emp = emp
  mgr = mgr
  acc1 = acc1
  r1 = r1
  r2 = r2
  r3 = r3
  r4 = r4
  r5 = r5
  h1 = h1
  h2 = h2
  h3 = h3
  None = None
  Employees = {emp, mgr}
  Role <- RoleTwo
  ManagerOf <- ManagerOfTwo
  Accounts = {acc1}
  OwnerOf <- OwnerOne
  Entitled <- EntitledOne
  Requests = {r1, r2, r3, r4, r5}
  Creatable = {r1, r2, r3}
  Handlers = {h1, h2, h3}
  DayCounts = {1, 2}
  StartDays = {1}
  LastDay = 1
  SerialRequests = TRUE
SPECIFICATION Spec
SYMMETRY Symmetry
INVARIANTS
  CountersAgree
  AuditChained
PROPERTIES
  ImplementsLedger
CHECK_DEADLOCK FALSE
