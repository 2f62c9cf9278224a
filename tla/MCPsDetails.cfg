CONSTANTS
  Fault = Fault
  MaxCalls = 2
  Targets <- MCTargets
  Memories <- MCMemories
SPECIFICATION Spec
CHECK_DEADLOCK FALSE
INVARIANTS
  TypeOK
  LatestReadShown
  StringsOfOwnProcess
  BreaksOffWithoutBlock
