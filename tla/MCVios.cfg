CONSTANTS
  Threads = {t1, t2}
  Nobody = Nobody
  Bridges <- MCBridges
  Requests <- MCRequests
  Vioses <- MCVioses
  Foreign = {6}
  TopVid = 10
  MaxVlans = 3
  MaxVeas = 2
  MaxCalls = 4
  MaxTouches = 1
  Conns = {c1, c2, c3}
  Hosts <- MCHosts
  LastVlan = 3
  CrtVswitch = FALSE
  LuCallers = {t1, t2, t3}
  LuCalls <- MCLuCalls
  LuPools <- MCPools
  NoUdid = NoUdid
  SspFree = SspFree
  VoptCallers = {o1, o2}
  VoptVioses <- MCMediaVioses
  VoptGroups <- MCGroups
  MgmtVioses = {"m"}
  ConfiguredVgs = {"rootM", "rootA", "rootB"}
  NoRepo = NoRepo
  VoptTries = 2
  MaxOutages = 2
  MaxMedia = 1
SPECIFICATION MCSpec
CHECK_DEADLOCK FALSE
INVARIANTS
  ReturnedIsDone
  BridgesAreSound
  OthersStay
  PrivateVlan
PROPERTIES
  ImageGoesWithLastClone
  MediaStay
