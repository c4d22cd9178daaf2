SPECIFICATION HistorySpec
CONSTANTS
  Users = {u1}
  Tasks = {t1, t2}
  NoTask = NoTask
  FirstId = 0
  MaxId = 2
  MaxTime = 3
  TASK_MAX_THRESH = 2
  THREAD_MAX_THRESH = 2
  THREAD_MAX_IDLE_TIME = 1
  Modes = {"MODE_CACHED"}
  TaskLimits = {}
  ThreadLimits = {}
  InitSizes = {1}
PROPERTY
  ReclaimedWhenIdle
