SPECIFICATION FairSpec
CONSTANTS
  Roles = {TRUE}
  Vids = {}
  ChanSize = 1
  HeartbeatCnt = 1
  Forwarders = {}
PROPERTIES
  AutoReconnect
