CONSTANTS
  h1 = h1
  h2 = h2
  hStall = hStall
  b1 = b1
  b2 = b2
  bNone = bNone
  N = 1
  me = 0
  JobWorks <- MCJobWorks
  NoWork <- MCNoWork
  ResumeCnt <- MCResumeCnt
  Target <- MCTarget
  SetJobOutcomes = {"ok", "refused", "partial"}
  Hashes = {0, 1, 2}
  MaxJobs = 1
  Slots = 1
  GpuHashes = {1}
  GpuFaulty = FALSE
  RunMayFail = TRUE
SPECIFICATION ResultSpec
INVARIANTS
  ResultTypeOK
  RightGpuIsNotBlamed
CHECK_DEADLOCK FALSE
