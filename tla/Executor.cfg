\* TicksPerSec is 1; of each 3 seconds a third and one more are the developer's.
CONSTANTS
  h1 = h1
  h2 = h2
  c1 = c1
  Posters <- ThePosters
  Events <- EventSet
  Requesters = {h1, h2}
  Asks <- TheAsks
  Callers = {c1}
  VerboseLevel = 4
  AutohashTime = 1
  TicksPerSec = 1
  DevDonatePeriod = 3
  DevPercent = 34
  LeastDevTime = 1
  ConnectTime = 1
  SizeMax = 64
  Delays = {0, 1, 2}
  Budgets <- TheBudgets
SPECIFICATION Spec
INVARIANTS TypeOK NoLostWakeup TimersOnTime OneHashrateLoop DevHasItsPortion RequestIsThere OwnReport
PROPERTIES RequestIsAnswered ImplementsMailbox
CHECK_DEADLOCK FALSE
