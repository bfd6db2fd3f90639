SPECIFICATION Spec
CONSTANTS
  a = a
  b = b
  c = c
  NoTask = NoTask
  Tasks = {a, b}
  MaxSlots = 4
  MinThreshold = 2
  MaxOps = 4
  Kinds <- AllKinds
SYMMETRY Alike
CONSTRAINTS CollectsAlone NothingHidden
INVARIANT NothingDangles
CHECK_DEADLOCK FALSE
