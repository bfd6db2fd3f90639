SPECIFICATION Spec
CONSTANTS
  m = m
  a = a
  b = b
  NoTask = NoTask
  Main = m
  Tasks = {m, a, b}
  NumWorkers = 2
  NativeTasks = {b}
  Sleepers = {a, b}
  IoTasks = {a, b}
  Failing = {m, a}
  Panicking = {a}
  Blocking = {}
  Awaits <- NobodyAwaits
  MaxTimers = 1
  SpinLimit = 1
INVARIANTS
  TypeOK
  ActiveCountsTasks
  ExitMeansDone
  OkMeansAllDone
PROPERTY
  ImplementsTaskPool
