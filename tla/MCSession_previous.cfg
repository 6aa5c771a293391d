SPECIFICATION Spec
CONSTANTS
  Server = {"A"}
  Worker = {"mcp"}
  Home <- SoloHome
  Can <- SoloCan
  Project = {"p"}
  SessionBound = 2
  MaxSessionsPerProject = 2
  MaintenanceEnabled = TRUE
  Faults = {}
CHECK_DEADLOCK FALSE
PROPERTIES ReturnsPrevious
