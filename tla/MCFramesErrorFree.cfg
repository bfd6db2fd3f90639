SPECIFICATION Spec
CONSTANTS
  m = m
  a = a
  b = b
  Main = m
  Nobody = Nobody
  Tasks = {m, a}
  Deferrable = {"call"}
  MaxDepth = 2
  MaxSteps = 3
CONSTRAINT NobodyUnwinds
INVARIANT
  EveryDeferRuns
CHECK_DEADLOCK FALSE
