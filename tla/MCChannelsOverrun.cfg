SPECIFICATION Spec
CONSTANTS
  s = s
  p = p
  q = q
  A = A
  B = B
  D = D
  T = T
  v = v
  w = w
  Tasks = {s, p, q}
  Chans = {A, T}
  Capacity <- CapacityOne
  Timers = {T}
  Ops <- OverrunOps
  MaxOps = 2
  Nil = Nil
  Tick = Tick
  Sent = Sent
  Default = Default
  Nothing = Nothing
INVARIANTS
  OverrunIsBounded
CHECK_DEADLOCK FALSE
