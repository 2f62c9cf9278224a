CONSTANTS
  PageSize = 8
  MaxUnits = 2
  Environments <- MCEnvironments
SPECIFICATION Spec
INVARIANTS
  AllEntriesPrinted
