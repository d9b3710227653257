CONSTANTS
  a = a
  s = s
  t = t
  Conns = {a}
  Self = "proxy"
  NoUuid = "none"
  Seekers = {s, t}
  Lossy = TRUE
  Script <- Scripts
SPECIFICATION Spec
INVARIANT TypeOK
 
INVARIANT StopDrains
 
PROPERTY SearchesEnd
PROPERTY InterruptEnds
CHECK_DEADLOCK FALSE
