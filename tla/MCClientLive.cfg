SPECIFICATION LiveSpec
CONSTANTS
  Roles = {TRUE}
  Vids = {1}
  ChanSize = 1
  HeartbeatCnt = 1
  Forwarders = {"fwd"}
PROPERTIES
  
  AllQuit
  ProvesOrCloses
