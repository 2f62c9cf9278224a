CONSTANTS
  Processes <- MCProcesses
  Live = TRUE
  Truncates = TRUE
  MaxCommands = 3
SPECIFICATION Spec
INVARIANTS
  TypeOK
  CacheIsOneLoad
  RowsMixedOnlyByReuse
  EnvarsNeedsInterface
PROPERTIES
  LinesMatchMemory
  PslistShowsLastLoad
