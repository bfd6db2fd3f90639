SPECIFICATION FairSpec
CONSTANTS
  r = r
  w = w
  c = c
  Nobody = Nobody
  Tasks = {r, w, c}
  Kinds <- MCKinds
  MaxStreams = 1
  MaxOps <- MCMaxOps
  MaxBytes = 1
  Room = 1
  Message <- MCMessage
INVARIANTS
  TypeOK
  WakeupPending
PROPERTIES
  WriteAllWhole
  WaitersProceed
CHECK_DEADLOCK FALSE
