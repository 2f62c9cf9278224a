CONSTANTS
  Processes <- MCProcesses
  Live = TRUE
  Truncates = FALSE
  MaxCommands = 3
SPECIFICATION Spec
PROPERTIES
  PslistShowsRunning
