SPECIFICATION FairSpec
CONSTANTS
  s1 = s1
  s2 = s2
  t1 = t1
  t2 = t2
  NoTopic = NoTopic
  Sockets = {s1, s2}
  Topics = {t1, t2}
  Frames = 3
  Buffer = 2
  MaxJoins = 2
INVARIANTS TopicWhileWatched NewestIsKept
PROPERTY EndReachesSocket
CHECK_DEADLOCK FALSE
