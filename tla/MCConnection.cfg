SPECIFICATION MCSpec
CONSTANTS
  HeaderSize = 6
  BufSize = 1528
  MinSize = 42
  MaxSize = 1514
  EtherSize = 14
  Lens = {27, 28, 41, 42, 1500, 1501, 1514, 1515}
  IdCounts = {0, 750, 751, 757, 758, 762}
  Wide = 65536
  MaxFrames = 2
  Bufs = {b1, b2}
  Sources = {s1, s2}
  Clients = {c1, c2}
  Crypted = {c1}
  Recv = Recv
  Stat = Stat
  ChanSize = 1
  MaxTo = 2
  None = None
  W = 4
  MaxReq = 6
  MaxOpen = 2
  MaxNow = 4
  Nodes = {n1, n2}
  Askers = {n2}
  Joining = {n1, n2}
  Window = 1
  HeartbeatCnt = 1
  b1 = b1
  b2 = b2
  s1 = s1
  s2 = s2
  c1 = c1
  c2 = c2
  n1 = n1
  n2 = n2
INVARIANTS
  InStep
  Accepted
  BuffersSafe
  WireIsReadable
  DelaysRight
  HaltsOnlyAtBoth
CHECK_DEADLOCK FALSE
SYMMETRY MCSymmetry
