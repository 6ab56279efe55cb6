SPECIFICATION Spec
CONSTANTS
  NumSessions = 1
  NumWorkers = 2
  MaxClients = 1
  MaxRuns = 1
  Resets = {"open"}
INVARIANT ProcessSurvives
CHECK_DEADLOCK FALSE
