SPECIFICATION MCSpec
CONSTANTS
  TimerIds = {"t"}
  TvrSize = 2
  TvnSize = 2
  Delays = {0, 1, 2, 3, 5, 6, 12, 17, 31, 32, 33, 40, 70}
  MaxJiffies = 130
  Nowhere = Nowhere
  FileNums = {0, 1, 2}
  MaxDay = 6
  MaxRuns = 3
  MaxBacks = 1
  Bufs = {b1, b2, b3}
  One = {g0}
  Two = {g1, g2}
  Nobody = nil
  MaxHold = 2
  b1 = b1
  b2 = b2
  b3 = b3
  g0 = g0
  g1 = g1
  g2 = g2
INVARIANTS
  WheelInPlace
  LogFiles
  InOnePlace
PROPERTIES
  FiresOnTime
CHECK_DEADLOCK FALSE
