SPECIFICATION Spec
CONSTANTS
  m = m
  a = a
  b = b
  Main = m
  Nobody = Nobody
  Tasks = {m, a}
  Deferrable = {"call"}
  MaxDepth = 2
  MaxSteps = 2
INVARIANT
  EveryDeferRuns
CHECK_DEADLOCK FALSE
