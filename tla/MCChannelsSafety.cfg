SPECIFICATION Spec
CONSTANTS
  s = s
  p = p
  q = q
  A = A
  B = B
  D = D
  T = T
  v = v
  w = w
  Tasks = {s, p, q}
  Chans = {A, B, D, T}
  Capacity <- CapacityTwoForD
  Timers = {T}
  Ops <- DisciplinedOps
  MaxOps = 2
  Nil = Nil
  Tick = Tick
  Sent = Sent
  Default = Default
  Nothing = Nothing
INVARIANTS
  TypeOK
  NilMeansClosed
PROPERTIES
  ClosedOnlyDrains
  ImplementsAtomicChannels
CHECK_DEADLOCK FALSE
