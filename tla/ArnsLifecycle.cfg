SPECIFICATION FairSpec
CONSTANTS
  Crankers = {c1, c2}
  Names = {n1, n2}
  Grace = 2
  Auction = 2
  Terms <- OneTick
  Budget = 0
  PruneBatch = 1
  ExpiredBatch = 1
  ScanInterval = 1
  Polls = 2
  Skews <- NoSkew
  MaxBehind = 0
  MaxLag = 1
  MaxStuck = 1
  MaxTrades = 2
  MaxErrors = 1
  MaxClock = 7
INVARIANTS TypeOK NoAuctionMissed
PROPERTIES EveryLapsedLeaseLeaves ImplementsLifecycle
CHECK_DEADLOCK FALSE
