CONSTANTS
  k1 = k1
  k2 = k2
  k3 = k3
  a = a
  None = None
  NoLabel = NoLabel
  Uuids = {u1, u2}
  Subtasks = {k1, k2, k3}
  Labels = {a}
  Provides <- MixedProvides
  TakesProvided <- MixedTakes
  FlagUpdate <- MixedFlags
  Specific = {k3}
  Tries = 2
SPECIFICATION FairSpec
INVARIANTS
  EverySubtaskReachesAll
  FinalTryCounts
PROPERTIES
  ExecuteEnds
