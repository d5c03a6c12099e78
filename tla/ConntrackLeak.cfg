SPECIFICATION Spec
CONSTANTS
  Protos = {"tcp"}
  EndPoints = {"a", "b"}
  Cts = {1, 2}
  NoCt = NoCt
INVARIANTS
  DelIsArmed
