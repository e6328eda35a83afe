SPECIFICATION Spec
CONSTANTS
  QueueMax = 2
  MaxQueue = 3
  MaxCmds = 4
INVARIANTS
  EnsuredRunning
