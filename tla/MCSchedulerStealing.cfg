SPECIFICATION FairSpec
CONSTANTS
  m = m
  a = a
  b = b
  NoTask = NoTask
  Main = m
  Tasks = {m, a, b}
  NumWorkers = 2
  NativeTasks = {}
  Sleepers = {}
  IoTasks = {}
  Failing = {}
  Panicking = {}
  Blocking = {a}
  Awaits <- NobodyAwaits
  MaxTimers = 0
  SpinLimit = 0
PROPERTY
  UnblockedTasksComplete
