CONSTANTS
  a = a
  Apps = {a}
  QueueCap = 1
  Script <- Measurements
  Faults = {"fin", "rst", "refuse"}
  MayInterrupt = TRUE
SPECIFICATION Spec
INVARIANT TypeOK
 
PROPERTY IsPipe
PROPERTY IsLivePipe
PROPERTY EndOfOneEndsAll
PROPERTY InterruptEndsProcess
CHECK_DEADLOCK FALSE
