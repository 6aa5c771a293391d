SPECIFICATION Spec
CONSTANTS
  Worker = {"A"}
  Can <- SoloCan
  Project = {"p", "q"}
  Memory = {m1, m2}
  Session = {s1, s2}
  Absent = absent
  BatchSize = 1
  MaxIterations = 3
  Faults = {"redis", "crash"}
SYMMETRY Symmetry
CHECK_DEADLOCK FALSE
INVARIANTS Listed
PROPERTIES RenameEmptiesOld StaysIndexed
