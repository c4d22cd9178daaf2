SPECIFICATION FairSpec
CONSTANTS
  Users = {u1, u2}
  Tasks = {t1, t2}
  NoTask = NoTask
  FirstId = 0
  MaxId = 3
  MaxTime = 1
  TASK_MAX_THRESH = 1
  THREAD_MAX_THRESH = 2
  THREAD_MAX_IDLE_TIME = 0
  Modes = {"MODE_CACHED"}
  TaskLimits = {0, 1}
  ThreadLimits = {1, 3}
  InitSizes = {1, 2}
INVARIANTS
  IdleExact
  SizeWithinBounds
  NoSleepOverTasks
  NoSleepOverRoom
  DtorNeverStranded
  EveryTaskOnce
PROPERTIES
  NoEraseDuringStart
  AcceptedTaskRuns
  DtorReturns
  SubmitReturns
  KeepsContract
