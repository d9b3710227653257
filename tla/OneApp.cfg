CONSTANTS
  a = a
  b = b
  Conns = {a}
  Self = Self
  NoUuid = NoUuid
  Cap = 1
  ClientCap = 1
  MaxUp = 3
  AppKinds <- RegisterThenAny
  MayClose = {a}
  MayStall = {}
  FirstRef = 2
  MaxRef = 2
  MaxTicks = 1
  MaxNotes = 1
  GatewayFaults = {}
  MayInterrupt = FALSE
SPECIFICATION Spec
INVARIANT TypeOK
INVARIANT UpstreamFIFO
INVARIANT AddressedOnceKnown
INVARIANT LocalRepliesInOrder

