CONSTANTS
  Fault = Fault
  MaxCalls = 2
  MaxProcesses = 4
  Targets <- MCCompleteTargets
SPECIFICATION Spec
CHECK_DEADLOCK FALSE
INVARIANT OwnSessionShown
