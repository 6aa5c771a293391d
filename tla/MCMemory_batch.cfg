SPECIFICATION Spec
CONSTANTS
  Worker = {"A"}
  Can <- SoloCan
  Memory = {m1, m2}
  Importance = {0, 12}
  ClockBound = 4
  RecallLimit = 1
  DeleteBatch = 1
  StaleBatch = 1
  MaxIterations = 3
  ForgetInactive = 2
  ForgetThreshold = 16
  RecallBound = 0
  VectorScore <- AnySimilarity
  FTSScore = {1, 3}
  VectorWeight = 60
  FTSWeight = 25
  ImportanceWeight = 15
  Unit = 8
  DecayDividend = 1
  DecayDivisor = 2
  BoostFactor = 4
  BoostCap = 8
  Faults = {}
SYMMETRY Symmetry
CHECK_DEADLOCK FALSE
PROPERTIES ForgetsFaded
