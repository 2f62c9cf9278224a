CONSTANTS
  Fault = Fault
  MaxCalls = 2
  MaxProcesses = 4
  Targets <- MCTargets
SPECIFICATION Spec
CHECK_DEADLOCK FALSE
INVARIANTS
  TypeOK
PROPERTY ImplementsReport
