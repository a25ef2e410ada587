SPECIFICATION Spec
CONSTANTS
  Crankers = {c1}
  Names = {n1, n2}
  Grace = 2
  Auction = 2
  Terms <- OneTick
  Budget = 2
  PruneBatch = 1
  ExpiredBatch = 1
  ScanInterval = 1
  Polls = 2
  Skews <- NoSkew
  MaxBehind = 0
  MaxLag = 1
  MaxStuck = 1
  MaxTrades = 2
  MaxErrors = 0
  MaxClock = 7
INVARIANT NoneStranded
CHECK_DEADLOCK FALSE
