SPECIFICATION Spec
CONSTANTS
  Worker = {"A"}
  Can <- SoloCan
  Project = {"p", "q"}
  Memory = {m1}
  Session = {s1}
  Absent = absent
  BatchSize = 1
  MaxIterations = 2
  Faults = {}
SYMMETRY Symmetry
CHECK_DEADLOCK FALSE
INVARIANTS OneProjectPerSession
