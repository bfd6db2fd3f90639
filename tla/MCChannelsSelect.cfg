SPECIFICATION Spec
CONSTANTS
  s = s
  p = p
  q = q
  A = A
  B = B
  D = D
  T = T
  v = v
  w = w
  Tasks = {s, p, q}
  Chans = {A, B}
  Capacity <- CapacityOne
  Timers = {}
  Ops <- SharedReceiverOps
  MaxOps = 2
  Nil = Nil
  Tick = Tick
  Sent = Sent
  Default = Default
  Nothing = Nothing
INVARIANTS
  NilMeansClosed
CHECK_DEADLOCK FALSE
