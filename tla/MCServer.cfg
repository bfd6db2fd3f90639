SPECIFICATION FairSpec
CONSTANTS
  Script <- MCScript
  Frames <- MCFrames
  ChunkUnits = 3
  Middlewares = {"m", "n"}
  Methods = {"GET", "POST"}
  Paths <- MCPaths
  MaxSetup = 3
  Served <- MCServed
  Targets <- MCTargets
INVARIANTS
  TypeOK
  RequestsFindTheirHandlers
  ExchangesInOrder
  WholeRequestsServed
  MessagesExact
PROPERTIES
  MessagesReturned
CHECK_DEADLOCK FALSE
