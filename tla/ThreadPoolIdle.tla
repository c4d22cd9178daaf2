--------------------------- MODULE ThreadPoolIdle ---------------------------
(***************************************************************************)
(* ThreadPool with a history variable: when each worker last took a task   *)
(* (or was started).  The comments of threadFunc say that a worker is      *)
(* reclaimed when it has taken no task for more than THREAD_MAX_IDLE_TIME. *)
(***************************************************************************)
EXTENDS ThreadPool

VARIABLE lastTake

Began(w) == pc'[w] # pc[w] /\ (pc'[w] = "executing" \/ pc[w] \in {"none", "created"})

HistoryInit == Init /\ lastTake = [w \in Ids |-> 0]

HistoryNext ==
  /\ Next
  /\ lastTake' = [w \in Ids |-> IF Began(w) THEN now ELSE lastTake[w]]

HistorySpec == HistoryInit /\ [][HistoryNext]_<<vars, lastTake>>

\* A worker is reclaimed only after THREAD_MAX_IDLE_TIME without a task
\* (threadpool.cpp:342); lastTime, which is never refreshed, measures the
\* worker's age instead.
ReclaimedWhenIdle ==
  [][\A w \in Ids : pc'[w] = "reclaimed" /\ pc[w] # "reclaimed" =>
       now - lastTake[w] > THREAD_MAX_IDLE_TIME]_<<vars, lastTake>>
=============================================================================
