SPECIFICATION FairSpec
CONSTANTS
  Callers = {c1, c2, c3}
  Nobody = nobody
  Shapes = {s1, s2}
  NoShape = noshape
  MaxCalls = 3
  MaxFaults = 2
  MaxCancels = 0
CHECK_DEADLOCK FALSE
INVARIANTS
  OneJobInFlight
  RetryHidesOneFailure
PROPERTIES
  IsService
  EveryCallReturns
