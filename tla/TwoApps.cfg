CONSTANTS
  a = a
  b = b
  Conns = {a, b}
  Self = Self
  NoUuid = NoUuid
  Cap = 1
  ClientCap = 1
  MaxUp = 2
  AppKinds <- RequestTwice
  MayClose = {}
  MayStall = {a, b}
  FirstRef = 1
  MaxRef = 1
  MaxTicks = 0
  MaxNotes = 0
  GatewayFaults = {}
  MayInterrupt = FALSE
SPECIFICATION Spec
 
INVARIANT GatewaySeesOneClient
INVARIANT AnswersReachTheirApp
CHECK_DEADLOCK FALSE
SYMMETRY ConnSymmetry
