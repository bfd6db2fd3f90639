SPECIFICATION Spec
CONSTANTS
  Script <- MCScript
  Frames <- MCFrames
  ChunkUnits = 3
  Middlewares = {"m", "n"}
  Methods = {"GET", "POST"}
  Paths <- MCPaths
  MaxSetup = 3
  Served <- MCServed
  Targets <- MCTargets
INVARIANT
  AllowedServed
CHECK_DEADLOCK FALSE
