CONSTANTS
  h1 = h1
  h2 = h2
  hStall = hStall
  b1 = b1
  b2 = b2
  bNone = bNone
  N = 1
  me = 0
  JobWorks <- MCJobWorks
  NoWork <- MCNoWork
  ResumeCnt <- MCResumeCnt
  Target <- MCTarget
  SetJobOutcomes = {"ok"}
  Hashes = {0, 1, 2, 3}
  MaxJobs = 0
  Slots = 2
  GpuHashes = {0}
  GpuFaulty = FALSE
  RunMayFail = FALSE
SPECIFICATION ResultSpec
INVARIANTS
  NoMismatchByNextBatch
CHECK_DEADLOCK FALSE
