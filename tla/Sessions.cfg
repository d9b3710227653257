CONSTANTS
  NSensors = 2
  MaxReceives = 2
  MaxSessions = 3
  MaxTicks = 2
  MaxNotes = 1
  Faults = {"fin", "rst"}
SPECIFICATION Spec
INVARIANT TypeOK
INVARIANT FollowsScript
INVARIANT OneRequestAtATime
PROPERTY Reconnects
 
CHECK_DEADLOCK FALSE
