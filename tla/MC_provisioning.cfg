SPECIFICATION FairSpec
CONSTANTS
  Calls = {c1, c2, c3}
  Templates <- SomeTemplates
  Pools <- BothPools
  Room = 2
  Cancels = TRUE
  MaxFaults = 1
INVARIANTS
  TypeOK
  ClaimsAreAccountedFor
PROPERTIES
  EveryCallReturns
CHECK_DEADLOCK FALSE
