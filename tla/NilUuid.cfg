CONSTANTS
  a = a
  b = b
  Conns = {a}
  Self = Self
  NoUuid = NoUuid
  Cap = 1
  ClientCap = 1
  MaxUp = 1
  AppKinds <- RegisterOnly
  MayClose = {}
  MayStall = {}
  FirstRef = 1
  MaxRef = 1
  MaxTicks = 0
  MaxNotes = 1
  GatewayFaults = {}
  MayInterrupt = FALSE
SPECIFICATION Spec
INVARIANT ReadyToSend

