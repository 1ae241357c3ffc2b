CONSTANTS
  N = 2
  Intensity <- MCIntensity
  BatchMillis = {1}
  NumTests = 1
  NumBest = 1
  MaxBatches = 1
SPECIFICATION Spec
INVARIANTS
  FirstAverageIsCurrent
CHECK_DEADLOCK FALSE
