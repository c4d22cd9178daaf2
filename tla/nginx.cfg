SPECIFICATION FairSpec
CONSTANTS
  Master = m
  Workers = {w1, w2}
  Shell = sh
  Signals = {SIGINT, SIGCHLD, SIGSYS}
  Masked = {SIGINT, SIGCHLD}
  IgnoredByDefault = {SIGCHLD}
  SIGCHLD = SIGCHLD
  Files <- MCFiles
  MaxSends = 2
INVARIANTS
  SpawnUndisturbed
  WorkersAsConfigured
PROPERTIES
  SignalsTaken
CHECK_DEADLOCK FALSE
