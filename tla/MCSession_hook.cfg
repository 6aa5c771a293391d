SPECIFICATION Spec
CONSTANTS
  Server = {"A"}
  Worker = {"mcp", "hook"}
  Home <- HookHome
  Can <- HookCan
  Project = {"p"}
  SessionBound = 3
  MaxSessionsPerProject = 1
  MaintenanceEnabled = TRUE
  Faults = {"redis", "crash"}
CHECK_DEADLOCK FALSE
INVARIANTS TypeOK SingleEnder
PROPERTIES KeepsContract PrunedIsOld
