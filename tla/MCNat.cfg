SPECIFICATION MCSpec
CONSTANTS
  Hosts = {h1, h2}
  Snat = Snat
  Self = Self
  P = 2
  Used = {0}
  Called = {0}
  Cts = {k1, k2}
  Callers = {r1, r2}
  None = None
  OneDatagram = {{0, 1, 3, 4, 5}}
  TwoDatagrams = {{0, 1, 2, 3, 4}, {0, 2, 3}}
  MaxDup = 1
  h1 = h1
  h2 = h2
  r1 = r1
  r2 = r2
  k1 = k1
  k2 = k2
SYMMETRY MCSymmetry
INVARIANTS
  RightHost
  TableSafe
  Reassembled
CHECK_DEADLOCK FALSE
