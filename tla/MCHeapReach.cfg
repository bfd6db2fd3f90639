SPECIFICATION Spec
CONSTANTS
  a = a
  b = b
  c = c
  NoTask = NoTask
  Tasks = {a}
  MaxSlots = 4
  MinThreshold = 2
  MaxOps = 6
  Kinds <- KindsWithoutDefer
SYMMETRY Alike
INVARIANT NothingDangles
CHECK_DEADLOCK FALSE
