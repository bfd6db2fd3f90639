SPECIFICATION Spec
CONSTANTS
  m = m
  a = a
  b = b
  NoTask = NoTask
  Main = m
  Tasks = {m, a, b}
  NumWorkers = 2
  NativeTasks = {}
  Sleepers = {a}
  IoTasks = {}
  Failing = {}
  Panicking = {}
  Blocking = {}
  Awaits <- NobodyAwaits
  MaxTimers = 0
  SpinLimit = 1
PROPERTY
  ReportIsTruthful
