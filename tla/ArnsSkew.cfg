SPECIFICATION FairSpec
CONSTANTS
  Crankers = {c1}
  Names = {n1}
  Grace = 2
  Auction = 2
  Terms <- OneTick
  Budget = 2
  PruneBatch = 1
  ExpiredBatch = 1
  ScanInterval = 1
  Polls = 2
  Skews <- Behind
  MaxBehind = 1
  MaxLag = 0
  MaxStuck = 0
  MaxTrades = 1
  MaxErrors = 2
  MaxClock = 7
PROPERTY AuctionsEarned
CHECK_DEADLOCK FALSE
