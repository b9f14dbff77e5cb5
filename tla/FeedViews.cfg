SPECIFICATION Spec
CONSTANTS
  c1 = c1
  Readers = {c1}
  Horizon = 4
  Derived <- DeriveTwo
  Views = {1, 2, 4}
  BarCount = 2
  Warmup = 1
  MinTradeable = 1
  MaxFiles = 2
INVARIANTS NothingPastTheEdge WindowCoversFeed ClosedIsWhole IngestedIsDerived
PROPERTY ClosedIsKept
CHECK_DEADLOCK FALSE
