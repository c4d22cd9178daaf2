SPECIFICATION FairSpec
CONSTANTS
  MaxLogStr = 14
  ShortMax = 65535
  Calls <- MCCalls
  OpenFailed <- MCOpenFailed
  ConfLevels = {4}
  Time <- MCTime
  LevelName <- MCLevelName
  Pid = 72
  ErrText <- MCErrText
  MaxCalls = 2
INVARIANTS
  LineFaithful
  OverrunOnlyAtPoint
  EveryLineOnce
PROPERTIES
  CallReturns
CHECK_DEADLOCK FALSE
