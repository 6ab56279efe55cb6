SPECIFICATION FairSpec
CONSTANTS
  NumSessions = 2
  NumWorkers = 2
  MaxClients = 1
  MaxRuns = 2
  Resets = {"new", "accepted", "open"}
INVARIANTS TypeOK NoOrphan ReadOrRemoved ClosedOnce
PROPERTIES StillWhileStopped GoneIsClosed SilentIsClosed
CHECK_DEADLOCK FALSE
