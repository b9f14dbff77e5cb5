SPECIFICATION SpineSpec
CONSTANTS
  r1 = r1
  r2 = r2
  Relays = {r1}
  Last = 2
  BatchSize = 2
  MaxAttempts = 2
  MaxFaults = 0
  MaxTries = 1
  MaxTroubles = 1
INVARIANT CommittedIsSettled
CHECK_DEADLOCK FALSE
