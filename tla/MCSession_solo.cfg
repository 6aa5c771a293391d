SPECIFICATION Spec
CONSTANTS
  Server = {"A"}
  Worker = {"mcp"}
  Home <- SoloHome
  Can <- SoloCan
  Project = {"p", "q"}
  SessionBound = 4
  MaxSessionsPerProject = 2
  MaintenanceEnabled = TRUE
  Faults = {"crash"}
CHECK_DEADLOCK FALSE
INVARIANTS MaintenanceDone
PROPERTIES UnindexedIsGone
