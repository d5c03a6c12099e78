SPECIFICATION FairSpec
CONSTANTS
  Ports = {p1, p2}
  Leavers = {p1}
  Macs = {m1}
  Nodes = {n1, n2, n3}
  StaleAge = 1
  OldAge = 2
  Room = 0
  MaxLag = 1
  MaxMoves = 2
  Loops = FALSE
  None = None
  p1 = p1
  p2 = p2
  m1 = m1
  n1 = n1
  n2 = n2
  n3 = n3
INVARIANTS
  NeverEchoes
  CleanRelease
PROPERTIES
  FoundAgain
