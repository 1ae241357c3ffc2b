CONSTANTS
  iBucketSize = 4
  Junk <- TheJunk
  Epoch = 100
  Steps = {1, 3}
  Hashes = {2}
  Busy = {1}
  MaxSamples = 5
  Periods = {0, 2, 4}
SPECIFICATION SpecTelemetry
INVARIANT RateIsReported
CHECK_DEADLOCK FALSE
