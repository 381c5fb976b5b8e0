CONSTANTS
  NHosts = 3
  MaxCrashes = 1
  MaxJobFaults = 2
  Clients = {c1, c2}
  NoClient = NoClient
  MaxRepeaters = 2
  MaxKillers = 2
  MaxOpens = 2
  UserCloses = TRUE
  Uploads = {u1, u2}
  Kinds = {"vdisk", "lu", "path", "func"}
  Permits = 1
  NoUpload = NoUpload
  MaxAttempts = 4
  MaxCallFaults = 2
  MaxTouched = 1
  RetryConfigs <- MCConfigs
  NReqs = 2
  MaxBusy = 3
SPECIFICATION MCSpec
CHECK_DEADLOCK FALSE
INVARIANTS
  ReturnedIsComplete
  ProgressionIsSound
  OnlyMappedIsAlive
  GivesBack
  RetriesAreMeasured
PROPERTIES
  UploadedStays
  NeverDeletesLive
  EveryTaskEnds
