SPECIFICATION Spec
CONSTANTS
  Accepted = {a1, a2}
  Masters = {m1}
  Dialed = {m1}
  Ids = {1}
  Vids = {}
  TunIds = {}
  Capacity = 3
  Fdbs = {f1, f2, f3, f4}
  MaxMsgs = 1
  None = None
  a1 = a1
  a2 = a2
  m1 = m1
  f1 = f1
  f2 = f2
  f3 = f3
  f4 = f4
SYMMETRY AcceptedAreAlike
INVARIANTS
  ReportedAll
