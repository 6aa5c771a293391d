SPECIFICATION FairSpec
CONSTANTS
  Server = {"A", "B"}
  Worker = {"mcpA", "mcpB"}
  Home <- PairHome
  Can <- PairCan
  Project = {"p"}
  SessionBound = 3
  MaxSessionsPerProject = 1
  MaintenanceEnabled = TRUE
  Faults = {}
CHECK_DEADLOCK FALSE
PROPERTIES EndedForGood ThrottleLifts
