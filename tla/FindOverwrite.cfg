\* A cancel that read the request before its approval commits after it
CONSTANTS
  emp = emp
  mgr = mgr
  acc1 = acc1
  r1 = r1
  r2 = r2
  r3 = r3
  r4 = r4
  r5 = r5
  h1 = h1
  h2 = h2
  h3 = h3
  None = None
  Employees = {emp, mgr}
  Role <- RoleTwo
  ManagerOf <- ManagerOfTwo
  Accounts = {acc1}
  OwnerOf <- OwnerOne
  Entitled <- EntitledOne
  Requests = {r1, r2, r3}
  Creatable = {r1}
  Handlers = {h1, h2}
  DayCounts = {2}
  StartDays = {1}
  LastDay = 0
  SerialRequests = FALSE
SPECIFICATION Spec
PROPERTIES
  ApprovalsImmutable
CHECK_DEADLOCK FALSE
