SPECIFICATION FairSpec
CONSTANTS
  Dialers = {"a", "b", "c"}
  MaxGen = 2
  None = None
INVARIANTS
  WgCountsActive
  SlotsExact
PROPERTIES
  IsFailover
  StandbyIsUsed
  DeadSlaveGoes
