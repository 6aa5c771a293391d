SPECIFICATION Spec
CONSTANTS
  Worker = {"A", "B"}
  Can <- RecallCan
  Memory = {m1, m2}
  Importance = {0}
  ClockBound = 2
  RecallLimit = 1
  DeleteBatch = 1
  StaleBatch = 2
  MaxIterations = 3
  ForgetInactive = 1
  ForgetThreshold = 16
  RecallBound = 2
  VectorScore <- AnySimilarity
  FTSScore = {1, 3}
  VectorWeight = 60
  FTSWeight = 25
  ImportanceWeight = 15
  Unit = 8
  DecayDividend = 1
  DecayDivisor = 2
  BoostFactor = 4
  BoostCap = 8
  Faults = {}
SYMMETRY Symmetry
CHECK_DEADLOCK FALSE
INVARIANTS CountsEveryRecall KeepsTheBest NoRemnant
PROPERTIES SparesActive
