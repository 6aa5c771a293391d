SPECIFICATION Spec
CONSTANTS
  Memory = {m1, m2}
  Session = {s1}
  Project = {p}
  Tag = {t}
  Content = {old, new}
  InitialContent = {old}
  Absent = absent
  Dimension = {384, 768}
  ConfigDimension = 384
  ChangeBound = 1
  Faults = {"redis", "crash"}
SYMMETRY Symmetry
CHECK_DEADLOCK FALSE
INVARIANTS TypeOK KeepsStable
PROPERTIES RestoresSnapshot RestoresIndex
