SPECIFICATION Spec
CONSTANTS
  g1 = g1
  g2 = g2
  Gateways = {g1, g2}
  Calls = {c1, c2}
  Buyers = {c1}
  MinDelegation <- Floors
  Started <- Starts
  DefaultMin = 2
  MinOperator = 1
  MaxPrice = 3
  MaxEnv = 1
  Amounts = {1}
  MaxFundingSources = 2
  MaxDelegationSources = 1
  SourceLists <- Lists
  Portfolios <- AllPortfolios
CHECK_DEADLOCK FALSE
INVARIANTS TypeOK PlanSound FloorsLast FailsOnlyIfShort
PROPERTIES UnracedAccepted InstantTakesItsOwn LiquidUntouched
