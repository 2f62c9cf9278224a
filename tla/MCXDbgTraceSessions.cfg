CONSTANTS
  Processes <- MCProcesses
  Live = FALSE
  Truncates = FALSE
  MaxCommands = 3
SPECIFICATION Spec
INVARIANTS
  SessionsListProcessesOnce
