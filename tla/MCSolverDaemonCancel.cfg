SPECIFICATION FairSpec
CONSTANTS
  Callers = {c1}
  Nobody = nobody
  Shapes = {s1, s2}
  NoShape = noshape
  MaxCalls = 5
  MaxFaults = 2
  MaxCancels = 2
CHECK_DEADLOCK FALSE
INVARIANTS
  RightShape
PROPERTIES
  EveryCallReturns
