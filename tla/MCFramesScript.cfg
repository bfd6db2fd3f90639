SPECIFICATION Spec
CONSTANTS
  m = m
  a = a
  b = b
  Main = m
  Nobody = Nobody
  Tasks = {m, a}
  Deferrable = {}
  MaxDepth = 2
  MaxSteps = 2
INVARIANT
  ScriptCleansUp
CHECK_DEADLOCK FALSE
