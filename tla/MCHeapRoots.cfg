SPECIFICATION Spec
CONSTANTS
  a = a
  b = b
  c = c
  NoTask = NoTask
  Tasks = {a, b, c}
  MaxSlots = 3
  MinThreshold = 2
  MaxOps = 2
  Kinds <- AllKinds
SYMMETRY Alike
INVARIANT QueuedTasksKeepTheirs
CHECK_DEADLOCK FALSE
