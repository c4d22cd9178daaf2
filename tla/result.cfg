SPECIFICATION FairSpec
CONSTANTS
  Tasks = {t1, t2}
  NoTask = NoTask
  Results = {r1, r2}
  NoResult = NoResult
  Workers = {w1, w2}
  SemInit <- AnyCount
INVARIANTS
  GetReturnsTheValue
  DanglingOnlyIfUnasked
  OneValuePerResult
PROPERTY
  GetReturns
CHECK_DEADLOCK FALSE
