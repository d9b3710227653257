CONSTANTS
  NSensors = 1
  MaxReceives = 10
  MaxSessions = 2
  MaxTicks = 1
  MaxNotes = 0
  Faults = {"fin"}
SPECIFICATION Spec
INVARIANT ConfirmIsNext
CHECK_DEADLOCK FALSE
