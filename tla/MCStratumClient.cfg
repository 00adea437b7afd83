SPECIFICATION FairSpec
CONSTANTS
  MaxJobs = 2
  MaxNonce = 2
  Hits <- MCHits
  SliceNonces = 2
  Reach = 2
  MaxBackoff = 1
  WaitForSwallows = FALSE
  MaxShares = 1
  MaxSessions = 2
  MaxFaults = 1
CHECK_DEADLOCK FALSE
INVARIANTS
  TypeOK
  OwnWork
  AnswersMatch
  NothingSurvives
  NeverTwice
PROPERTIES
  Reconnects
  JobTakenUp
