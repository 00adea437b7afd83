SPECIFICATION Spec
CONSTANTS
  Accounts = {1, 2}
  StripeEvents <- MCEvents
  MaxEvents = 3
  MaxFailures = 2
  Tolerance = 0
  Requests = {r1, r2, r3}
  Ttl = 1
  ScanTime = 2
  MaxTime = 5
  Lists <- MCLists
  MinScore = 5
  Limit = 2
  MaxRounds = 2
  MaxCrashes = 1
INVARIANTS
  AcknowledgedIsApplied
  AnswersAreRecent
  SnapshotIsWhole
CHECK_DEADLOCK FALSE
