SPECIFICATION FairSpec
CONSTANTS
  Channels = {1, 2}
  NoChannel = 0
  Fds = {1, 2}
  Loops = {0, 1, 2}
  MaxThreads = 2
  ThreadNums = {0, 1, 2}
  MaxConns = 2
  MaxMessages = 0
  Size = 1
  HighWaterMark = 0
  Users = {}
  CallersWait = TRUE
INVARIANTS
  PollerAgrees
  NoDanglingChannel
PROPERTIES
  CallbacksInOrder
  PeerCloseForgets
