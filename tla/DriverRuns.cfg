SPECIFICATION FairSpec
CONSTANTS
  r1 = r1
  r2 = r2
  s1 = s1
  s2 = s2
  s3 = s3
  d1 = d1
  d2 = d2
  NoDrive = NoDrive
  Free = Free
  Orphaned = Orphaned
  Start = 1
  Replicas = {r1, r2}
  Sockets = {s1, s2, s3}
  Home <- TwoAndOne
  Drives = {d1, d2}
  LastBar = 3
  Flaky = TRUE
  MaxCommands = 1
  NamedHolder = TRUE
INVARIANTS ClockPerSockets TwoDriveForACause
PROPERTY ClockRuns
CHECK_DEADLOCK FALSE
