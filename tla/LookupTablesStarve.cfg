SPECIFICATION FairSpec
CONSTANTS
  Senders = {s1}
  Reclaimers = {r1}
  Extends = 1
  Capacity = 2
  MaxTables = 1
  Headroom = 3
  ScanLimit = 20
  Cooldown = 1
  MaxSlot = 3
  MaxFaults = 0
  NoTable = NoTable
PROPERTY EveryTableClosed
CHECK_DEADLOCK FALSE
