CONSTANTS
  PageSize = 8
  MaxUnits = 4
  Environments <- MCEnvironments
SPECIFICATION FairSpec
INVARIANTS
  TypeOK
  ReadsInBounds
  LinesAreEntries
  DonePrintsAllButLast
  ThrowsOnlyWithoutSeparator
PROPERTIES
  ScanEnds
