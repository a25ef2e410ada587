SPECIFICATION FairSpec
CONSTANTS
  Senders = {s1, s2}
  Reclaimers = {r1}
  Extends = 1
  Capacity = 2
  MaxTables = 1
  Headroom = 2
  ScanLimit = 8
  Cooldown = 1
  MaxSlot = 1
  MaxFaults = 1
  NoTable = NoTable
INVARIANTS TypeOK ConsumeResolves OtherTablesUntouched
PROPERTY EveryTableClosed
CHECK_DEADLOCK FALSE
