SPECIFICATION SpineSpec
CONSTANTS
  r1 = r1
  r2 = r2
  Relays = {r1}
  Last = 2
  BatchSize = 2
  MaxAttempts = 2
  MaxFaults = 1
  MaxTries = 2
  MaxTroubles = 1
INVARIANTS ResendsAreCaused OvertakesOnlyForACause PublishedWasSent GivenUpWasTried HandledAgainOnlyByCause
CHECK_DEADLOCK FALSE
PROPERTY EveryEventArrives
