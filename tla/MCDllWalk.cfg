CONSTANTS
  Fault = Fault
  MaxModules = 3
  MaxRows = 6
  Targets <- MCTargets
SPECIFICATION FairSpec
INVARIANTS
  TypeOK
  OwnModulesWhereSwitched
  FollowsListFromSecond
  
  ShowsToFirstUnreadable
PROPERTIES
  ReturnsUnlessShuttingDown
