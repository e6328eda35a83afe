SPECIFICATION Spec
CONSTANTS
  NumListeners = 1
  MaxSessions = 2
INVARIANTS TypeOK PollSetAgrees NoOrphans
PROPERTIES ZombiesReaped ServesClients DaemonStops
CHECK_DEADLOCK FALSE
