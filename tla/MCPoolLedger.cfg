SPECIFICATION FairSpec
CONSTANTS
  Addresses = {1, 2}
  Blocks = {b1, b2}
  Rewards = {5}
  Window = 1
  DustFloor = 2
  HasTreasury = TRUE
  TrialDays = 1
  TrialFeeBps = 0
  PostTrialFeeBps = 5000
  MaxTime = 1
  MaxShares = 2
  MaxPayouts = 2
  MaxFaults = 1
CHECK_DEADLOCK FALSE
INVARIANTS
  TypeOK
  NeverOverSettled
  NoOverpay
  RewardConserved
  CreditedHaveWorked
PROPERTIES
  TrialHonoured
  EarnedIsCredited
