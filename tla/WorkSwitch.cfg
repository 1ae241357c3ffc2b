CONSTANTS
  h0 = h0
  h1 = h1
  h2 = h2
  hStall = hStall
  b1 = b1
  b2 = b2
  bNone = bNone
  N = 3
  JobWorks <- MCJobWorks
  NoWork <- MCNoWork
  ResumeCnt <- MCResumeCnt
  SetJobOutcomes = {"ok"}
  MaxJobs = 2
SPECIFICATION Spec
INVARIANTS
  TypeOK
  NoTornCopy
  HoldsItsJob
  HashesItsJob
  OwnSlices
  CountsTheThreadsThatTook
PROPERTIES
  SwitchReturns
  JobIsTaken
  ImplementsBroadcast
CHECK_DEADLOCK FALSE
