CONSTANTS
  t1 = t1
  t2 = t2
  t3 = t3
  u1 = u1
  u2 = u2
  u3 = u3
  Threads = {t1, t2, t3}
  Uuids = {u1, u2, u3}
  NoThread = NoThread
  NoWrap = NoWrap
  MaxDepth = 2
  Depth <- MixedDepth
  Plan <- MixedPlan
  UsesGetter <- MixedGetter
  Parent <- MixedParent
  Tries = 2
  MaxOOB = 1
SPECIFICATION FairSpec
INVARIANTS
  MutualExclusion
  RetriesAreForOutOfBandChanges
PROPERTIES
  NoLostUpdate
  EveryCallEnds
