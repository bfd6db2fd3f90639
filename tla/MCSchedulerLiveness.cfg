SPECIFICATION FairSpec
CONSTANTS
  m = m
  a = a
  b = b
  NoTask = NoTask
  Main = m
  Tasks = {m, a}
  NumWorkers = 2
  NativeTasks = {}
  Sleepers = {a}
  IoTasks = {m}
  Failing = {}
  Panicking = {}
  Blocking = {}
  Awaits <- MainAwaitsA
  MaxTimers = 0
  SpinLimit = 0
PROPERTIES
  SpawnedTasksComplete
  Termination
