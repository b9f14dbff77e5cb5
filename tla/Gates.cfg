SPECIFICATION GatesSpec
CONSTANTS
  r1 = r1
  address = address
  email = email
  ip = ip
  mail = mail
  t1 = t1
  t2 = t2
  s1 = s1
  s2 = s2
  h1 = h1
  h2 = h2
  Replicas = {r1}
  Groups = {address, email}
  Keys = {ip, mail}
  GroupOf <- TheGroups
  Limit <- TheLimits
  Window = 2
  SweepEvery = 1
  Routes <- TheRoutes
  Shared = Shared
  NoBucket = NoBucket
  Tokens = {t1, t2}
  Sessions = {s1, s2}
  TicketTTL = 2
  Handshakes = {h1, h2}
  Gone = Gone
  q1 = q1
  q2 = q2
  w1 = w1
  w2 = w2
  NoPassword = NoPassword
  Absent = Absent
  Requests = {q1, q2}
  Passwords = {w1, w2}
  Ops = {"register", "login", "google", "refresh", "logout", "password"}
  MaxTokens = 3
INVARIANTS FrontDoorBounded RefusedOnlyWhenUsed EvictionForgetsNothing OneSocketPerTicket MapHoldsOneTTL AlarmEndsSignIns SignInsEndForACause TradedTwiceOnlyByOverlap
SYMMETRY Symmetry
CHECK_DEADLOCK FALSE
