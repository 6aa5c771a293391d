SPECIFICATION Spec
CONSTANTS
  Process = {A, B}
  RequiredModelFile = {model}
  OptionalModelFile = {config}
  Chunks = 2
  Dimension = 384
  OtherDimension = {768}
  DefaultTag = {"go", "redis"}
  UsedTag = {"go"}
  FrequencyBound = 1
  Faults = {"redis", "network", "crash"}
SYMMETRY Symmetry
CHECK_DEADLOCK FALSE
INVARIANTS TypeOK PublishedWhole ServesIndexed SeedsAndLearns
