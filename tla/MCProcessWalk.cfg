CONSTANTS
  Fault = Fault
  LinksOffset = 1096
  MaxWalks = 2
  MaxRows = 9
  MaxProcesses = 3
  Targets <- MCTargets
SPECIFICATION FairSpec
INVARIANTS
  TypeOK
  ListIsPrefix
PROPERTIES
  ImplementsSnapshot
  WalkReturns
  ReturnsOnlyAtZero
