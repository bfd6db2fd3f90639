SPECIFICATION Spec
CONSTANTS
  m = m
  a = a
  b = b
  NoTask = NoTask
  Main = m
  Tasks = {m, a, b}
  NumWorkers = 3
  NativeTasks = {}
  Sleepers = {}
  IoTasks = {}
  Failing = {}
  Panicking = {}
  Blocking = {}
  Awaits <- NobodyAwaits
  MaxTimers = 0
  SpinLimit = 0
SYMMETRY Alike
INVARIANT
  EachTaskInOnePlace
