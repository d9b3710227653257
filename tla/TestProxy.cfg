CONSTANTS
  a = a
  Apps = {a}
  Script <- Scripts
  Faults = {"fin", "rst", "refuse"}
SPECIFICATION Spec
INVARIANT TypeOK
PROPERTY IsPipe
PROPERTY IsLivePipe
PROPERTY EndIsNotPassedOn
PROPERTY StopReturns
CHECK_DEADLOCK FALSE
