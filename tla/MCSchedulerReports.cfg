SPECIFICATION Spec
CONSTANTS
  m = m
  a = a
  b = b
  NoTask = NoTask
  Main = m
  Tasks = {m, a}
  NumWorkers = 2
  NativeTasks = {}
  Sleepers = {a}
  IoTasks = {m,a}
  Failing = {}
  Panicking = {}
  Blocking = {}
  Awaits <- NobodyAwaits
  MaxTimers = 1
  SpinLimit = 1
ACTION_CONSTRAINT
  NoLateSuspension
INVARIANT
  NoReport
