CONSTANTS
  N = 2
  Intensity <- MCIntensity
  BatchMillis = {1}
  NumTests = 3
  NumBest = 2
  MaxBatches = 3
SPECIFICATION Spec
INVARIANTS
  TypeOK
  NothingIsLost
  BestRoundsAveraged
  TimeIsOneBatchBehind
CHECK_DEADLOCK FALSE
