SPECIFICATION FairSpec
CONSTANTS
  Ids = {a, b}
  Strays = {x}
  Threads = 3
INVARIANTS TypeOK RepliesFindCallbacks InOnePlace WrittenBeforeExit
PROPERTIES AnsweredIsCalled JoinReturns
CHECK_DEADLOCK FALSE
