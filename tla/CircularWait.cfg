CONSTANTS
  a = a
  b = b
  Conns = {a}
  Self = Self
  NoUuid = NoUuid
  Cap = 1
  ClientCap = 1
  MaxUp = 2
  AppKinds <- RequestTwice
  MayClose = {}
  MayStall = {}
  FirstRef = 1
  MaxRef = 1
  MaxTicks = 0
  MaxNotes = 2
  GatewayFaults = {}
  MayInterrupt = FALSE
SPECIFICATION FairSpec
PROPERTY LoopKeepsRunning
CHECK_DEADLOCK FALSE
