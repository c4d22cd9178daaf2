SPECIFICATION Spec
CONSTANTS
  Channels = {1}
  NoChannel = 0
  Fds = {1}
  Loops = {0, 1}
  MaxThreads = 1
  ThreadNums = {0, 1}
  MaxConns = 1
  MaxMessages = 3
  Size = 2
  HighWaterMark = 3
  Users = {u}
  CallersWait = TRUE
INVARIANTS
  NoDeadTarget
  WireInOrder
  WriteArmed
PROPERTY
  NothingAfterFin
