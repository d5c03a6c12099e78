SPECIFICATION FairSpec
CONSTANTS
  Protos = {"tcp", "udp"}
  EndPoints = {"a", "b"}
  Cts = {1, 2}
  NoCt = NoCt
INVARIANTS
  BothWays
  OneTimer
  DeletedStaysDel
PROPERTIES
  OnlyOwnRemoval
  IdleIsForgotten
