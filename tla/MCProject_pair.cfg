SPECIFICATION Spec
CONSTANTS
  Worker = {"A", "B"}
  Can <- PairCan
  Project = {"p", "q"}
  Memory = {m1, m2}
  Session = {s1}
  Absent = absent
  BatchSize = 1
  MaxIterations = 2
  Faults = {"redis"}
SYMMETRY Symmetry
CHECK_DEADLOCK FALSE
INVARIANTS TypeOK
PROPERTIES MigratesMemories
