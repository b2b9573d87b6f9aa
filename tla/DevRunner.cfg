\* The API and the web dev server, either of which may fail to start.
CONSTANTS
  api = api
  web = web
  None = None
  Children = {api, web}
SPECIFICATION Spec
INVARIANTS
  TypeOK
  LeavesNoStray
  ZeroMeansFinished
PROPERTY ShutdownEnds
CHECK_DEADLOCK FALSE
