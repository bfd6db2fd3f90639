SPECIFICATION Spec
CONSTANTS
  m = m
  a = a
  b = b
  Main = m
  Nobody = Nobody
  Tasks = {m, a, b}
  Deferrable = {"call"}
  MaxDepth = 2
  MaxSteps = 2
INVARIANT
  NeverAllBlocked
CHECK_DEADLOCK FALSE
