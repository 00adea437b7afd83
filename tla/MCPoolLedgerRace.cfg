SPECIFICATION Spec
CONSTANTS
  Addresses = {1, 2}
  Blocks = {b1, b2}
  Rewards = {5}
  Window = 1
  DustFloor = 3
  HasTreasury = TRUE
  TrialDays = 1
  TrialFeeBps = 0
  PostTrialFeeBps = 5000
  MaxTime = 1
  MaxShares = 3
  MaxPayouts = 1
  MaxFaults = 0
CHECK_DEADLOCK FALSE
PROPERTIES
  BelowDustRollsOver
