CONSTANTS
  a = a
  b = b
  Conns = {a, b}
  Self = Self
  NoUuid = NoUuid
  Cap = 2
  ClientCap = 2
  MaxUp = 1
  AppKinds <- RequestOnly
  MayClose = {}
  MayStall = {}
  FirstRef = 1
  MaxRef = 1
  MaxTicks = 0
  MaxNotes = 1
  GatewayFaults = {}
  MayInterrupt = FALSE
SPECIFICATION FairSpec
INVARIANT DownstreamContiguous
PROPERTY RequestsAnswered
