SPECIFICATION DeskSpec
CONSTANTS
  p1 = p1
  p2 = p2
  p3 = p3
  a1 = a1
  a2 = a2
  a3 = a3
  n1 = n1
  q1 = q1
  q2 = q2
  s1 = s1
  s2 = s2
  NoAccount = NoAccount
  NoHash = NoHash
  Requests = {p1, p2, p3}
  Accounts = {a1, a2, a3}
  Names = {n1}
  Starters = {q1, q2}
  Closer = Closer
  Sweeper = Sweeper
  Sessions = {s1, s2}
  SweepLimit = 2
  MaxFaults = 1
INVARIANTS TreeIsALine SealAttestsLedger AlarmsOnlyOnRounding EventWithChange OneLivePerAccount SealedStartsOnlyByRace EventsLostOnlyByFault
PROPERTY SealedIsReadOnly
SYMMETRY DeskSymmetry
CHECK_DEADLOCK FALSE
