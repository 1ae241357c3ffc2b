CONSTANTS
  K = 32
  Dropped = 4
  TableError = 2
  N = 2
  Chunks = 8
  Lanes = 2
  XorUInt <- BitXor
  Iterations = 3
  ChunkUnit = 4
  State0 <- TheStates
  Options <- TheOptions
  AesRound <- MixRound
  AesRounds <- MixRounds
  iBucketSize = 4
  Junk <- TheJunk
  Epoch = 100
  Steps = {1, 3}
  Hashes = {0, 2}
  Busy = {0, 2}
  MaxSamples = 5
  Periods = {0, 2, 4}
  iThreadCount = 2
  Byte = 4
  Slice = 4
  HourOfWork = 3
  rawIntensity <- TheIntensities
  Jobs <- TheJobs
SPECIFICATION SpecCalculations
INVARIANT GpuHashesLikeTheCpu
INVARIANT DivisionIsExact
INVARIANT GpuRootIsExact
INVARIANT CpuRootIsExact
INVARIANT RateOfThePeriod
INVARIANT NonceIsHashedOnce
CHECK_DEADLOCK FALSE
