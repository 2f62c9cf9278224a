CONSTANTS
  Fault = Fault
  PageUnits = 3
  MaxEntries = 4
  Targets <- MCTargets
SPECIFICATION Spec
CHECK_DEADLOCK FALSE
INVARIANTS
  TypeOK
  EntriesOfTheContext
  ReadableShownInFull
  NullOnlyBeforeAnySize
  OverrunOnlyAtAnothersSize
