SPECIFICATION Spec
CONSTANTS
  Addresses = {1, 2, 3}
  MaxCount = 4
  MaxGross = 8
  MaxLeaves = 9
  TrialDays = 2
  TrialFeeBps = 0
  PostTrialFeeBps = 3500
  Byte = 2
  NonceSpace = 4
  NonceStride = 2
  MaxTries = 2
  HexBase = 3
  DecimalBase = 2
INVARIANTS
  AllocatesExactly
  WithinOneSatoshi
  MoreSharesNeverLess
  LeastDeviation
  FeePerAddressRoundsForMiners
  BlockReadsBack
  MerkleCommits
  WorkComesBack
CHECK_DEADLOCK FALSE
