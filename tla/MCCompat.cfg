CONSTANTS
  Uris = {u1, u2}
  General = General
  MaxEntries = 4
  Systems <- MCSystems
  Plans <- MCPlans
  Migrations <- MCMigrations
  AnyPair = AnyPair
  NoPort = NoPort
  MaxUse = 128
  MaxSteps = 6
  Agents = {a1, a2}
  Hardware <- MCHardware
  VnicCalls <- MCVnicCalls
  Labelings <- MCLabelings
  NoCap = NoCap
  NoAgent = NoAgent
  MaxVnicOps = 3
  Callers = {b1, b2}
  Names = {n1, n2}
  Host <- MCHost
  Dicts <- MCDicts
  None = None
  MaxBuilds = 3
  MaxPowers = 2
  HostVioses <- MCHostVioses
  LowWait = 2
  HighWait = 4
  UptimeCutoff = 3
  NoLimit = NoLimit
  Limits = {NoLimit, 0, 3}
  MaxGetFails = 2
  MaxViosEvents = 3
  Guests <- MCGuests
  Cores = 2
  Elsewhere = {2}
  NoSample = NoSample
  MaxStays = 2
  MaxSamples = 3
  MaxGaps = 1
  MaxRefreshes = 2
  MaxQueryFails = 1
  WrapObjects <- MCWrapObjects
  ChildOrder <- MCChildOrder
  TextTags = {"Name", "Mode"}
  ListTag = "Maps"
  RepeatedTag = "Vlan"
  ServerDocs <- MCServerDocs
  Vals = {1}
  Holders = {h1, h2}
  NoEtag = 0
  NoCache = NoCache
  NoList = NoList
  NoCall = NoCall
  MaxWrapOps = 5
  MaxWrappers = 4
  MaxForeign = 1
SPECIFICATION MCSpec
CHECK_DEADLOCK FALSE
PROPERTY
  RunningKeepsCompat
