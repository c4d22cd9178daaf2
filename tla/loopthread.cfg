SPECIFICATION ThreadFairSpec
CONSTANTS
  Callers = {c1, c2}
  Functors = {f1, f2, f3}
  NoFunctor = NoFunctor
  Wired = TRUE
  EarlyQueue = FALSE
  MayQuit = {c1, "loop"}
  Owner = c1
INVARIANTS
  NoSleepOverFunctors
  LoopOutlivesItsUsers
PROPERTIES
  NoUseAfterDestroy
  KeepsOrder
  QueuedFunctorRuns
  StartReturns
  DtorReturns
