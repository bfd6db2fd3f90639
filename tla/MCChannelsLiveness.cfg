SPECIFICATION FairSpec
CONSTANTS
  s = s
  p = p
  q = q
  A = A
  B = B
  D = D
  T = T
  v = v
  w = w
  Tasks = {s, p, q}
  Chans = {A, B, D, T}
  Capacity <- CapacityOne
  Timers = {T}
  Ops <- BlockingOps
  MaxOps = 2
  Nil = Nil
  Tick = Tick
  Sent = Sent
  Default = Default
  Nothing = Nothing
PROPERTIES
  CloseReleases
  ReadySelectFires
CHECK_DEADLOCK FALSE
