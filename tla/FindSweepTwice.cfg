SPECIFICATION Spec
CONSTANTS
  h1 = h1
  h2 = h2
  w1 = w1
  w2 = w2
  LastBar = 3
  Start = 1
  MaxCount = 2
  BaseTimeframe = 15
  MinSpeed = 1
  MaxSpeed = 2
  CheckpointEvery = 2
  Handlers = {h1}
  Sweepers = {w1, w2}
  Counts <- MCOneCount
  Seeks <- MCNoSeeks
  Timeframes = {15}
  Speeds = {1}
  MaxVersion = 4
  Ops = {"tick"}
INVARIANT AbandonedOnce
CHECK_DEADLOCK FALSE
