SPECIFICATION Spec
CONSTANTS
  h1 = h1
  h2 = h2
  w1 = w1
  w2 = w2
  LastBar = 2
  Start = 0
  MaxCount = 2
  BaseTimeframe = 15
  MinSpeed = 1
  MaxSpeed = 2
  CheckpointEvery = 2
  Handlers = {h1, h2}
  Sweepers = {w1}
  Counts <- MCJump
  Seeks <- MCOneSeek
  Timeframes = {15}
  Speeds = {2}
  MaxVersion = 3
  Ops = {"step", "seek", "bars", "timeframe", "pause", "resume", "close", "tick"}
SYMMETRY Symmetry
CHECK_DEADLOCK FALSE
INVARIANTS CacheBehindRow NothingShownEarly ReadsNeverRegress ClosedOnce
PROPERTIES EndedIsFinal ClockRespectsPause ImplementsEdge
