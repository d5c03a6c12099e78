SPECIFICATION MCSpec
CONSTANTS
  c1 = c1
  c2 = c2
  c3 = c3
  Clients = {c1, c2, c3}
  Dialed = {c3}
  MAXPORT = 4
  NoPio = NoPio
  Fdbs = {f1, f2, f3, f4}
  Lasting = {f1, f2}
  None = None
  f1 = f1
  f2 = f2
  f3 = f3
  f4 = f4
INVARIANTS
  PoolExact
  CountSafe
  MembershipExact
  CountDecides
  JoinedAsTold
PROPERTIES
  Allocation
SYMMETRY MCSymmetry
