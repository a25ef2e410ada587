SPECIFICATION Spec
CONSTANTS
  u1 = u1
  u2 = u2
  a1 = a1
  a2 = a2
  n1 = n1
  n2 = n2
  r1 = r1
  r2 = r2
  o1 = o1
  o2 = o2
  o3 = o3
  Users = {u1, u2}
  Ants = {a1, a2}
  Names = {n1, n2}
  Recipients = {r1, r2}
  Protocol <- ProtocolOf
  LeaseEnd <- LeaseEndOf
  Forever = Forever
  Rank <- RankOf
  Nobody = Nobody
  NoName = NoName
  Escrow = Escrow
  PageSize = 2
  LockTime = 1
  Expiry = 1
  MaxNow = 3
  ChunkSize = 2
  Tolerance = 1
  Operators = {o1, o2, o3}
  Weight <- WeightOf
  Draws <- DrawsOf
  MaxObservers = 2
  BatchSize = 2
  LeavePeriod = 0
  Retention = 1
  MaxTime = 2
  Precision = 2
  MaxAmount = 8
  NoOperator = NoOperator
  Calls = {c1, c2}
  Scenes <- AllScenes
  MaxEnv = 2
SYMMETRY CallSymmetry
CHECK_DEADLOCK FALSE
INVARIANTS TypeOK UnracedLands AclExact StatesOfOneMoment
PROPERTIES AclKept ReleasedOnlyAsSigned ChangeAtomic BitsNameGateways WalkComplete
