CONSTANTS
  a = a
  b = b
  Conns = {a}
  Self = Self
  NoUuid = NoUuid
  Cap = 1
  ClientCap = 1
  MaxUp = 1
  AppKinds <- RegisterOrRequest
  MayClose = {}
  MayStall = {}
  FirstRef = 1
  MaxRef = 1
  MaxTicks = 0
  MaxNotes = 0
  GatewayFaults = {"fin", "rst", "refuse"}
  MayInterrupt = TRUE
SPECIFICATION FairSpec
INVARIANT WaitGroupCountsTasks
INVARIANT CleanExit
INVARIANT NothingAfterClose
 
CHECK_DEADLOCK FALSE
