CONSTANTS
  Huge = 1000
  MaxPort = 50
  Files <- TheFiles
  Argvs <- TheArgvs
  Platforms = 1
  Devices = 2
  MaximumWorkSize = 5
  Gpus = {1, 2}
  Jobs = 2
  Failures = 2
  Intensity = 3
  WorkSize = 3
  NumBranches = 2
  Slots = 2
  CallsMayFail = TRUE
  MaxRuns = 2
SPECIFICATION SpecParts
INVARIANT MinesAsConfigured
INVARIANT UnrollFactorIsValid
INVARIANT KernelsGetTheirBuffers
INVARIANT ASetJobIsWhole
INVARIANT TypeOK
INVARIANT ReturnsTheGoodNonces
INVARIANT NoGoodNonceIsMissed
CHECK_DEADLOCK FALSE
