SPECIFICATION FairSpec
CONSTANTS
  MaxJobs = 2
  MaxNonce = 2
  Hits <- MCHits
  SliceNonces = 2
  Reach = 2
  MaxBackoff = 0
  WaitForSwallows = TRUE
  MaxShares = 1
  MaxSessions = 1
  MaxFaults = 0
CHECK_DEADLOCK FALSE
PROPERTY
  Reconnects
