SPECIFICATION FairSpec
CONSTANTS
  m = m
  a = a
  b = b
  Main = m
  Nobody = Nobody
  Tasks = {m, a}
  Deferrable = {"call"}
  MaxDepth = 2
  MaxSteps = 3
INVARIANTS
  TypeOK
  LockIsOwed
  CountIsOwed
  CleanupRuns
PROPERTIES
  WaitMeansDone
  LastInFirstOut
  EveryTaskEnds
CHECK_DEADLOCK FALSE
