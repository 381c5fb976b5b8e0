CONSTANTS
  k1 = k1
  k2 = k2
  k3 = k3
  a = a
  None = None
  NoLabel = NoLabel
  Uuids = {u1, u2}
  Subtasks = {k1, k2}
  Labels = {a}
  Provides <- LateProvides
  TakesProvided <- LateTakes
  FlagUpdate <- LateFlags
  Specific = {}
  Tries = 1
SPECIFICATION Spec
INVARIANTS
  ProvidedIsOwn
