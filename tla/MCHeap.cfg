SPECIFICATION Spec
CONSTANTS
  a = a
  b = b
  c = c
  NoTask = NoTask
  Tasks = {a, b, c}
  MaxSlots = 4
  MinThreshold = 2
  MaxOps = 2
  Kinds <- AllKinds
SYMMETRY Alike
INVARIANTS
  TypeOK
  SlotsAccountedFor
  OwnRootsSurvive
  QuietCollectionExact
  JamsNeedGrowth
CHECK_DEADLOCK FALSE
