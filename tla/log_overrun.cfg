SPECIFICATION Spec
CONSTANTS
  MaxLogStr = 14
  ShortMax = 65535
  Calls <- MCCalls
  OpenFailed <- MCOpenFailed
  ConfLevels = {4}
  Time <- MCTime
  LevelName <- MCLevelName
  Pid = 72
  ErrText <- MCErrText
  MaxCalls = 2
INVARIANTS
  NeverOverrun
CHECK_DEADLOCK FALSE
