CONSTANTS
  h1 = h1
  h2 = h2
  hStall = hStall
  b1 = b1
  b2 = b2
  bNone = bNone
  N = 1
  me = 0
  JobWorks <- MCJobWorks
  NoWork <- MCNoWork
  ResumeCnt <- MCResumeCnt
  Target <- MCTarget
  SetJobOutcomes = {"ok"}
  Hashes = {0, 3}
  MaxJobs = 1
  Slots = 2
  GpuHashes = {3}
  GpuFaulty = TRUE
  RunMayFail = FALSE
SPECIFICATION ResultSpec
PROPERTIES
  BatchIsPickedUp
  WrongGpuIsFoundOut
CHECK_DEADLOCK FALSE
