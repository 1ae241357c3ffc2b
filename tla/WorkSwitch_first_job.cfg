CONSTANTS
  h0 = h0
  h1 = h1
  h2 = h2
  hStall = hStall
  b1 = b1
  b2 = b2
  bNone = bNone
  N = 2
  JobWorks <- MCJobWorks
  NoWork <- MCNoWork
  ResumeCnt <- MCResumeCnt
  SetJobOutcomes = {"ok"}
  MaxJobs = 1
SPECIFICATION Spec
INVARIANTS
  OwnSlicesFromTheStart
CHECK_DEADLOCK FALSE
