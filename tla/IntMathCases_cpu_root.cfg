CONSTANTS
  K = 32
  Dropped = 4
  TableError = 2
SPECIFICATION SpecCases
INVARIANT RootsAgree
CHECK_DEADLOCK FALSE
