CONSTANTS
  Workers = {w1, w2}
  Nobody = Nobody
  Calls <- MCCalls
  Maps <- MCMaps
  Storage <- MCStorage
  NoStorage = NoStorage
  LparIds = {1, 2}
  Vgs <- MCVgs
  FuseLimit = 2
  MaxTries = 2
  MaxCalls = 3
  MaxOuter = 2
  Sources <- MCSources
  Elements <- MCElements
  Targets <- MCTargets
  DefMaxSlot = 64
  None = None
  MaxEdits = 3
  MaxFails = 1
SYMMETRY MCSymmetry
SPECIFICATION MCSpec
CHECK_DEADLOCK FALSE
INVARIANTS
  MappingsAreSound
  SlotsAreKept
PROPERTIES
  TouchesOnlyItsOwn
