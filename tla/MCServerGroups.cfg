SPECIFICATION Spec
CONSTANTS
  Script <- MCScript
  Frames <- MCFrames
  ChunkUnits = 3
  Middlewares = {"m", "n"}
  Methods = {"GET", "POST"}
  Paths <- TwoPaths
  MaxSetup = 5
  Served <- MCServed
  Targets <- OnePath
INVARIANT
  GroupsKeepTheirMiddlewares
CHECK_DEADLOCK FALSE
