SPECIFICATION Spec
CONSTANTS
  NumSessions = 1
  NumWorkers = 2
  MaxClients = 1
  MaxRuns = 1
  Resets = {}
INVARIANT StopClosesSessions
CHECK_DEADLOCK FALSE
