SPECIFICATION FairSpec
CONSTANTS
  Sessions = {s1, s2}
  f = f
  padded = padded
  noise = noise
  Texts = {f, padded, noise}
  Number <- MCNumber
  MaxTemplates = 2
  MaxConnects = 3
  MaxSubmits = 2
  MaxFaults = 1
CHECK_DEADLOCK FALSE
INVARIANTS
  CreditedOnce
  DuplicateHasCounted
PROPERTIES
  JobsOnlyAdvance
  EveryoneHears
