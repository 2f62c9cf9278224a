CONSTANTS
  Fault = Fault
  MaxThreads = 2
  Targets <- MCTargets
SPECIFICATION FairSpec
INVARIANTS
  TypeOK
  ForeignOnlyBehindUnreadableHead
  InListOrder
  LineIsOneThread
  ShowsAsManyAsRun
PROPERTIES
  WalkReturns
