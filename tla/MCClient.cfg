SPECIFICATION MCSpec
CONSTANTS
  Roles = {TRUE, FALSE}
  Vids = {1}
  ChanSize = 1
  HeartbeatCnt = 1
  Forwarders = {}
INVARIANTS
  ClosesOnce
  HbWokenByClose
  RedialClean
  IncMatchesDec
