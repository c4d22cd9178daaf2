----------------------------- MODULE ThreadPool -----------------------------
(***************************************************************************)
(* The thread pool of ThreadPoolProject: a bounded task queue guarded by   *)
(* taskQueMtx_, user threads inside submitTask, worker threads inside      *)
(* threadFunc, and the owner, which configures, starts and destroys it.    *)
(*                                                                         *)
(* One step is one critical section under taskQueMtx_, from the moment the *)
(* lock is held to the moment it is released or given up in a wait.  That  *)
(* is sound here because each section reads the two atomics written        *)
(* without the lock (isPoolRunning_ and idleThreadSize_) at most once.     *)
(* What happens outside the lock (running a task, the idleThreadSize_++    *)
(* after it, isPoolRunning_ = false) is a step of its own.                 *)
(*                                                                         *)
(* The owner uses the pool as the example in threadpool.h does: configure, *)
(* start once, submit, destroy; nobody is inside submitTask when the       *)
(* destructor is called.  The limit of the queue, whose setter has no      *)
(* guard, may be changed at any moment before that.                        *)
(***************************************************************************)
EXTENDS Integers, Sequences, FiniteSets

CONSTANTS
  Users,                 \* threads that call submitTask
  Tasks,                 \* the tasks they submit, each at most once
  NoTask,                \* the null task pointer
  FirstId,               \* Thread::generateId_ when the pool is constructed
  MaxId,                 \* bound: the largest thread id a run may hand out
  MaxTime,               \* bound: the last value of the clock
  TASK_MAX_THRESH,       \* default limit of the task queue
  THREAD_MAX_THRESH,     \* default limit of the number of threads
  THREAD_MAX_IDLE_TIME,
  Modes,                 \* arguments of setMode
  TaskLimits,            \* arguments of setTaskQueMaxThreshHold
  ThreadLimits,          \* arguments of setThreadSizeMaxThreshHold
  InitSizes              \* arguments of start

ASSUME PoolAssumption ==
  /\ NoTask \notin Tasks
  /\ FirstId \in Nat /\ MaxId \in Nat /\ MaxTime \in Nat
  /\ TASK_MAX_THRESH \in Nat /\ THREAD_MAX_THRESH \in Nat
  /\ THREAD_MAX_IDLE_TIME \in Nat
  /\ Modes \subseteq {"MODE_FIXED", "MODE_CACHED"}
  /\ TaskLimits \subseteq Nat /\ ThreadLimits \subseteq Nat
  /\ InitSizes \subseteq Nat

VARIABLES
  poolMode, initThreadSize, threadSizeMaxThreshHold, taskQueMaxThreshHold,
  isPoolRunning,
  curThreadSize, idleThreadSize,
  tasks, taskSize,
  threads,               \* the keys of threads_
  generateId,
  owner,                 \* where the owning thread is
  started,               \* loop index i of start()
  call, user,            \* each user's argument of submitTask, and where it is
  fullAt,                \* the limit at which each user last found the queue full (history)
  returned,              \* isValid_ of the Result submitTask returned for a task
  pc, task, lastTime,    \* each worker: where it is, its locals
  executed,              \* how often each task was run (history)
  now

config == <<poolMode, initThreadSize, threadSizeMaxThreshHold, taskQueMaxThreshHold>>
counts == <<curThreadSize, idleThreadSize>>
queue  == <<tasks, taskSize>>
ids    == <<threads, generateId>>
dtor   == <<isPoolRunning, owner, started>>
users  == <<call, user, fullAt, returned>>
local  == <<task, lastTime>>
vars   == <<config, counts, queue, ids, dtor, users, pc, local, executed, now>>

Ids == 0..MaxId

\* A worker in one of these has not given up its place in the pool.
IdlePC == {"ready", "waiting", "woken", "timedout"}
BusyPC == {"executing", "executed"}
LivePC == {"created"} \cup IdlePC \cup BusyPC

Init ==
  /\ poolMode = "MODE_FIXED" /\ initThreadSize = 4
  /\ threadSizeMaxThreshHold = THREAD_MAX_THRESH
  /\ taskQueMaxThreshHold = TASK_MAX_THRESH
  /\ isPoolRunning = FALSE
  /\ curThreadSize = 0 /\ idleThreadSize = 0
  /\ tasks = <<>> /\ taskSize = 0
  /\ threads = {} /\ generateId = FirstId
  /\ owner = "config" /\ started = 0
  /\ call = [u \in Users |-> NoTask] /\ user = [u \in Users |-> "out"]
  /\ fullAt = [u \in Users |-> 0]
  /\ returned = [t \in Tasks |-> "none"]
  /\ pc = [w \in Ids |-> "none"]
  /\ task = [w \in Ids |-> NoTask] /\ lastTime = [w \in Ids |-> 0]
  /\ executed = [t \in Tasks |-> 0]
  /\ now = 0

\* Mutant: a notification that wakes nobody.
NotifyNobody(f) == f

\* cv.notify_all(): every thread f says is waiting competes for the lock again.
NotifyAll(f) == [x \in DOMAIN f |-> IF f[x] = "waiting" THEN "woken" ELSE f[x]]

-----------------------------------------------------------------------------
(* The owner: the setters, start and the destructor. *)

NobodyInSubmit == \A u \in Users : user[u] = "out"

SetMode(m) ==
  /\ owner \in {"config", "running"}
  /\ ~isPoolRunning
  /\ poolMode' = m
  /\ UNCHANGED <<initThreadSize, threadSizeMaxThreshHold, taskQueMaxThreshHold,
                 counts, queue, ids, dtor, users, pc, local, executed, now>>

\* Neither the lock is taken nor a caller told that sleeps on notFull_.
SetTaskQueMaxThreshHold(n) ==
  /\ owner \in {"config", "running"}
  /\ taskQueMaxThreshHold' = n
  /\ UNCHANGED <<poolMode, initThreadSize, threadSizeMaxThreshHold,
                 counts, queue, ids, dtor, users, pc, local, executed, now>>

SetThreadSizeMaxThreshHold(n) ==
  /\ owner \in {"config", "running"}
  /\ ~isPoolRunning
  /\ poolMode = "MODE_CACHED"
  /\ threadSizeMaxThreshHold' = n
  /\ UNCHANGED <<poolMode, initThreadSize, taskQueMaxThreshHold,
                 counts, queue, ids, dtor, users, pc, local, executed, now>>

\* start() up to its second loop: the Thread objects exist, none runs yet.
StartCreate(n) ==
  LET new == generateId .. generateId + n - 1
  IN /\ owner = "config"
     /\ new \subseteq Ids
     /\ isPoolRunning' = TRUE
     /\ initThreadSize' = n /\ curThreadSize' = n
     /\ threads' = threads \cup new /\ generateId' = generateId + n
     /\ pc' = [w \in Ids |-> IF w \in new THEN "created" ELSE pc[w]]
     /\ owner' = "starting" /\ started' = 0
     /\ UNCHANGED <<poolMode, threadSizeMaxThreshHold, taskQueMaxThreshHold,
                    idleThreadSize, queue, users, local, executed, now>>

\* One turn of the second loop: threads_[i]->start(), whatever ids the first
\* loop handed out; operator[] on a missing key yields a null pointer.
StartThread ==
  /\ owner = "starting" /\ started < initThreadSize
  /\ IF started \in threads
       THEN /\ pc' = [pc EXCEPT ![started] = "ready"]
            /\ lastTime' = [lastTime EXCEPT ![started] = now]
            /\ idleThreadSize' = idleThreadSize + 1
            /\ started' = started + 1
            /\ UNCHANGED owner
       ELSE /\ owner' = "crashed"
            /\ UNCHANGED <<pc, lastTime, idleThreadSize, started>>
  /\ UNCHANGED <<config, isPoolRunning, curThreadSize, queue, ids, users, task, executed, now>>

StartReturn ==
  /\ owner = "starting" /\ started = initThreadSize
  /\ owner' = "running"
  /\ UNCHANGED <<config, counts, queue, ids, isPoolRunning, started, users, pc, local, executed, now>>

\* ~ThreadPool: isPoolRunning_ = false comes before the lock.
Destroy ==
  /\ owner \in {"config", "running"} /\ NobodyInSubmit
  /\ isPoolRunning' = FALSE
  /\ owner' = "dtor"
  /\ UNCHANGED <<config, counts, queue, ids, started, users, pc, local, executed, now>>

\* Mutant: one wait without the predicate, which any wake-up ends.
AwaitExitOnce == owner' = IF owner = "dtorWoken" THEN "destroyed" ELSE "dtorWait"

\* exitCond_.wait(lock, pred): returns when the count is zero, else sleeps.
AwaitExit == owner' = IF curThreadSize = 0 THEN "destroyed" ELSE "dtorWait"

DestroyNotify ==
  /\ owner = "dtor"
  /\ pc' = NotifyAll(pc)
  /\ AwaitExit
  /\ UNCHANGED <<config, counts, queue, ids, isPoolRunning, started, users, local, executed, now>>

DestroyWoken ==
  /\ owner = "dtorWoken"
  /\ AwaitExit
  /\ UNCHANGED <<config, counts, queue, ids, isPoolRunning, started, users, pc, local, executed, now>>

-----------------------------------------------------------------------------
(* User threads: submitTask. *)

HasRoom == Len(tasks) < taskQueMaxThreshHold

\* Mutant: the limit on the number of threads is not looked at.
GrowUnbounded == poolMode = "MODE_CACHED" /\ idleThreadSize < taskSize + 1

\* In cached mode a task in the queue (this one is counted) may start a worker.
Grow ==
  /\ poolMode = "MODE_CACHED"
  /\ idleThreadSize < taskSize + 1
  /\ curThreadSize < threadSizeMaxThreshHold

\* The rest of submitTask once there is room: enqueue, wake every worker and
\* perhaps start one more, which counts as idle from the start.
Enqueue(t) ==
  /\ tasks' = Append(tasks, t)
  /\ taskSize' = taskSize + 1
  /\ IF Grow
       THEN /\ generateId \in Ids
            /\ pc' = [NotifyAll(pc) EXCEPT ![generateId] = "ready"]
            /\ lastTime' = [lastTime EXCEPT ![generateId] = now]
            /\ threads' = threads \cup {generateId}
            /\ generateId' = generateId + 1
            /\ curThreadSize' = curThreadSize + 1
            /\ idleThreadSize' = idleThreadSize + 1
       ELSE /\ pc' = NotifyAll(pc)
            /\ UNCHANGED <<lastTime, ids, counts>>
  /\ UNCHANGED <<config, dtor, task, executed, now>>

\* Mutant: the timeout decides, whatever the predicate says by then.
ReturnByTimeout(u, t, valid) ==
  /\ call' = [call EXCEPT ![u] = NoTask]
  /\ user' = [user EXCEPT ![u] = "out"]
  /\ fullAt' = [fullAt EXCEPT ![u] = 0]
  /\ returned' = [returned EXCEPT ![t] = IF user[u] = "timedout" THEN "invalid" ELSE valid]

\* return Result(sp) or Result(sp, false), and the call is over.
Return(u, t, valid) ==
  /\ call' = [call EXCEPT ![u] = NoTask]
  /\ user' = [user EXCEPT ![u] = "out"]
  /\ fullAt' = [fullAt EXCEPT ![u] = 0]
  /\ returned' = [returned EXCEPT ![t] = valid]

Untouched == UNCHANGED <<config, counts, queue, ids, dtor, pc, local, executed, now>>

\* A call of submitTask that finds room at once.
Submit(u, t) ==
  /\ owner = "running" /\ user[u] = "out"
  /\ returned[t] = "none" /\ t \notin {call[v] : v \in Users}
  /\ HasRoom
  /\ Enqueue(t)
  /\ Return(u, t, "valid")

\* The predicate is false: the caller sleeps on notFull_.
Sleep(u) ==
  /\ user' = [user EXCEPT ![u] = "waiting"]
  /\ fullAt' = [fullAt EXCEPT ![u] = taskQueMaxThreshHold]

\* A call of submitTask that finds the queue full.
SubmitWait(u, t) ==
  /\ owner = "running" /\ user[u] = "out"
  /\ returned[t] = "none" /\ t \notin {call[v] : v \in Users}
  /\ ~HasRoom
  /\ call' = [call EXCEPT ![u] = t]
  /\ Sleep(u)
  /\ UNCHANGED returned
  /\ Untouched

\* wait_for returns, by a notification or by the one-second timeout; the
\* predicate decides, and only a timed-out caller gives up.
SubmitResume(u) ==
  /\ user[u] \in {"woken", "timedout"} /\ HasRoom
  /\ Enqueue(call[u])
  /\ Return(u, call[u], "valid")

SubmitRetry(u) ==
  /\ user[u] = "woken" /\ ~HasRoom
  /\ Sleep(u)
  /\ UNCHANGED <<call, returned>>
  /\ Untouched

SubmitReject(u) ==
  /\ user[u] = "timedout" /\ ~HasRoom
  /\ Return(u, call[u], "invalid")
  /\ Untouched

\* Mutant: the wait without a time limit of the commented-out version.
NoUserTimeout(u) == user[u] = "waiting" /\ FALSE /\ UNCHANGED vars

\* The deadline may also pass while a notified caller waits for the lock.
UserTimeout(u) ==
  /\ user[u] \in {"waiting", "woken"}
  /\ user' = [user EXCEPT ![u] = "timedout"]
  /\ UNCHANGED <<call, fullAt, returned>>
  /\ Untouched

-----------------------------------------------------------------------------
(* Worker threads: threadFunc. *)

\* lastTime is read from the clock once, when the thread starts.
Expired(w) == now - lastTime[w] > THREAD_MAX_IDLE_TIME

\* Mutant: the pool may shrink below the size it was started with.
ReclaimableAny(w) == Expired(w)

Reclaimable(w) == Expired(w) /\ curThreadSize > initThreadSize

\* The lock is held and control is at the test of while (taskSize_ == 0).
AtLoopTest(w) ==
  \/ pc[w] \in {"ready", "woken"}
  \/ pc[w] = "timedout" /\ ~Reclaimable(w)

\* What a worker that ends takes out of the pool's books, whichever way it ends.
Leave(w) ==
  /\ threads' = threads \ {w}
  /\ curThreadSize' = curThreadSize - 1

\* A thread whose wait_for timed out leaves a pool that is larger than it
\* began; neither the queue nor isPoolRunning_ is looked at.
Reclaim(w) ==
  /\ pc[w] = "timedout" /\ Reclaimable(w)
  /\ pc' = [pc EXCEPT ![w] = "reclaimed"]
  /\ Leave(w)
  /\ idleThreadSize' = idleThreadSize - 1
  /\ UNCHANGED <<config, queue, generateId, dtor, users, local, executed, now>>

\* Mutant: the commented-out version, which leaves tasks in the queue.
MayExitEarly(w) == AtLoopTest(w) /\ ~isPoolRunning

MayExit(w) == AtLoopTest(w) /\ taskSize = 0 /\ ~isPoolRunning

\* Mutant: the worker that leaves last does not say so.
OwnerStaysAsleep == owner

\* exitCond_.notify_all() by the worker whose exit brings the count to zero.
OwnerAfterExit ==
  IF curThreadSize = 1 /\ owner = "dtorWait" THEN "dtorWoken" ELSE owner

\* The queue is empty and the pool is being destroyed; idleThreadSize_ stays.
Exit(w) ==
  /\ MayExit(w)
  /\ pc' = [pc EXCEPT ![w] = "exited"]
  /\ Leave(w)
  /\ owner' = OwnerAfterExit
  /\ UNCHANGED <<config, idleThreadSize, queue, generateId, isPoolRunning, started,
                 users, local, executed, now>>

Wait(w) ==
  /\ AtLoopTest(w) /\ taskSize = 0 /\ isPoolRunning
  /\ pc' = [pc EXCEPT ![w] = "waiting"]
  /\ UNCHANGED <<config, counts, queue, ids, dtor, users, local, executed, now>>

Take(w) ==
  LET woken == IF Len(tasks) > 1 THEN NotifyAll(pc) ELSE pc
  IN /\ AtLoopTest(w) /\ taskSize # 0
     /\ idleThreadSize' = idleThreadSize - 1
     /\ task' = [task EXCEPT ![w] = Head(tasks)]
     /\ tasks' = Tail(tasks)
     /\ taskSize' = taskSize - 1
     /\ pc' = [woken EXCEPT ![w] = "executing"]
     /\ user' = NotifyAll(user)
     /\ UNCHANGED <<config, curThreadSize, ids, dtor, call, fullAt, returned, lastTime, executed, now>>

\* task->exec(), outside the lock.
Exec(w) ==
  /\ pc[w] = "executing"
  /\ pc' = [pc EXCEPT ![w] = "executed"]
  /\ executed' = [executed EXCEPT ![task[w]] = @ + 1]
  /\ UNCHANGED <<config, counts, queue, ids, dtor, users, local, now>>

\* Mutant: the worker is not counted as idle again.
BackUncounted(w) ==
  /\ pc[w] = "executed"
  /\ pc' = [pc EXCEPT ![w] = "ready"]
  /\ task' = [task EXCEPT ![w] = NoTask]
  /\ UNCHANGED <<config, counts, queue, ids, dtor, users, lastTime, executed, now>>

\* idleThreadSize_++, still outside the lock; the local task goes out of scope.
BackToIdle(w) ==
  /\ pc[w] = "executed"
  /\ pc' = [pc EXCEPT ![w] = "ready"]
  /\ task' = [task EXCEPT ![w] = NoTask]
  /\ idleThreadSize' = idleThreadSize + 1
  /\ UNCHANGED <<config, curThreadSize, queue, ids, dtor, users, lastTime, executed, now>>

\* wait_for of cached mode gives up after a second, which may also pass while a
\* notified worker waits for the lock; fixed mode has no timeout.
WorkerTimeout(w) ==
  /\ pc[w] \in {"waiting", "woken"} /\ poolMode = "MODE_CACHED"
  /\ pc' = [pc EXCEPT ![w] = "timedout"]
  /\ UNCHANGED <<config, counts, queue, ids, dtor, users, local, executed, now>>

-----------------------------------------------------------------------------
(* The environment: condition variables may wake a thread for no reason. *)

SpuriousWorker(w) ==
  /\ pc[w] = "waiting"
  /\ pc' = [pc EXCEPT ![w] = "woken"]
  /\ UNCHANGED <<config, counts, queue, ids, dtor, users, local, executed, now>>

SpuriousUser(u) ==
  /\ user[u] = "waiting"
  /\ user' = [user EXCEPT ![u] = "woken"]
  /\ UNCHANGED <<call, fullAt, returned>>
  /\ Untouched

SpuriousOwner ==
  /\ owner = "dtorWait"
  /\ owner' = "dtorWoken"
  /\ UNCHANGED <<config, counts, queue, ids, isPoolRunning, started, users, pc, local, executed, now>>

Tick ==
  /\ now < MaxTime
  /\ now' = now + 1
  /\ UNCHANGED <<config, counts, queue, ids, dtor, users, pc, local, executed>>

\* The pool is gone, or start() has brought the process down.
Terminated ==
  /\ owner \in {"destroyed", "crashed"}
  /\ UNCHANGED vars

-----------------------------------------------------------------------------
OwnerStep ==
  \/ StartThread \/ StartReturn \/ DestroyNotify \/ DestroyWoken

OwnerCall ==
  \/ \E m \in Modes : SetMode(m)
  \/ \E n \in TaskLimits : SetTaskQueMaxThreshHold(n)
  \/ \E n \in ThreadLimits : SetThreadSizeMaxThreshHold(n)
  \/ \E n \in InitSizes : StartCreate(n)
  \/ Destroy

UserCall(u) == \E t \in Tasks : Submit(u, t) \/ SubmitWait(u, t)

UserStep(u) == SubmitResume(u) \/ SubmitRetry(u) \/ SubmitReject(u)

WorkerStep(w) ==
  \/ Reclaim(w) \/ Exit(w) \/ Wait(w) \/ Take(w) \/ Exec(w) \/ BackToIdle(w)

Environment ==
  \/ \E w \in Ids : WorkerTimeout(w) \/ SpuriousWorker(w)
  \/ \E u \in Users : UserTimeout(u) \/ SpuriousUser(u)
  \/ SpuriousOwner
  \/ Tick

Running == owner \notin {"destroyed", "crashed"}

Next ==
  \/ /\ Running
     /\ \/ OwnerCall \/ OwnerStep
        \/ \E u \in Users : UserCall(u) \/ UserStep(u)
        \/ \E w \in Ids : WorkerStep(w)
        \/ Environment
  \/ Terminated

Spec == Init /\ [][Next]_vars

(***************************************************************************)
(* What the scheduling of the program justifies: a thread that can run     *)
(* does run, the mutex is handed to every thread that keeps asking for it, *)
(* run() of a task returns, and the deadline of submitTask passes.  Users  *)
(* need not submit, the owner need not destroy the pool, and no worker's   *)
(* wait need ever time out.                                                *)
(***************************************************************************)
Fairness ==
  /\ WF_vars(Running /\ OwnerStep)
  /\ \A u \in Users : WF_vars(Running /\ UserStep(u)) /\ WF_vars(Running /\ UserTimeout(u))
  /\ \A w \in Ids : WF_vars(Running /\ WorkerStep(w))

FairSpec == Spec /\ Fairness

-----------------------------------------------------------------------------
(* Safety. *)

OwnerStates ==
  {"config", "starting", "running", "dtor", "dtorWait", "dtorWoken", "destroyed", "crashed"}

TypeOK ==
  /\ poolMode \in {"MODE_FIXED", "MODE_CACHED"}
  /\ initThreadSize \in Nat /\ threadSizeMaxThreshHold \in Nat
  /\ taskQueMaxThreshHold \in Nat
  /\ isPoolRunning \in BOOLEAN
  /\ curThreadSize \in Nat /\ idleThreadSize \in Nat
  /\ tasks \in Seq(Tasks) /\ taskSize \in Nat
  /\ threads \subseteq Ids /\ generateId \in Nat
  /\ owner \in OwnerStates /\ started \in Nat
  /\ call \in [Users -> Tasks \cup {NoTask}]
  /\ user \in [Users -> {"out", "waiting", "woken", "timedout"}]
  /\ fullAt \in [Users -> Nat]
  /\ \A u \in Users : user[u] # "out" => call[u] \in Tasks
  /\ returned \in [Tasks -> {"none", "valid", "invalid"}]
  /\ pc \in [Ids -> LivePC \cup {"none", "exited", "reclaimed"}]
  /\ task \in [Ids -> Tasks \cup {NoTask}]
  /\ lastTime \in [Ids -> Nat]
  /\ executed \in [Tasks -> Nat]
  /\ now \in Nat

Live == {w \in Ids : pc[w] \in LivePC}
Idle == {w \in Ids : pc[w] \in IdlePC}
Exited == {w \in Ids : pc[w] = "exited"}

\* The counters kept by hand agree with what they count: taskSize_ with tasks_,
\* curThreadSize_ and the keys of threads_ with the threads that exist.
CountsExact ==
  /\ taskSize = Len(tasks)
  /\ threads = Live
  /\ curThreadSize = Cardinality(Live)

\* idleThreadSize_, changed in five places of which one is outside the lock,
\* counts the workers that are not running a task; the workers that left at
\* shutdown stay counted (threadpool.cpp:349 is commented out).
IdleExact == idleThreadSize = Cardinality(Idle) + Cardinality(Exited)

\* A running pool never falls below the size it was started with, grows only
\* in cached mode, and then at most to the limit in force.
SizeWithinBounds ==
  isPoolRunning =>
    /\ curThreadSize >= initThreadSize
    /\ curThreadSize > initThreadSize =>
         poolMode = "MODE_CACHED" /\ curThreadSize <= threadSizeMaxThreshHold

\* No lost wake-up on notEmpty_: no worker sleeps while there are tasks.
NoSleepOverTasks == tasks # <<>> => \A w \in Ids : pc[w] # "waiting"

\* No lost wake-up on notFull_: no caller sleeps over room that a worker has made.
\* Room that a higher limit makes is not announced: the queue is compared with the
\* limit at which the caller went to sleep.
NoSleepOverRoom == \A u \in Users : user[u] = "waiting" => Len(tasks) >= fullAt[u]

\* No worker sleeps through shutdown: isPoolRunning_ is cleared before the lock
\* is taken for notify_all, so none can miss both.
NoSleepThroughShutdown ==
  owner \in {"dtorWait", "dtorWoken", "destroyed"} => \A w \in Ids : pc[w] # "waiting"

\* The destructor sleeps on exitCond_ only while a worker is left to wake it.
DtorNeverStranded == owner = "dtorWait" => Live # {}

\* When the destructor returns no worker is left that could touch the pool.
NoUseAfterDestroy == owner = "destroyed" => Live = {}

RunBy(t) == {w \in Ids : pc[w] = "executing" /\ task[w] = t}

\* A task is run by one worker, once, and only if submitTask accepted it; an
\* accepted task is in the queue, being run, or has been run, and never two of them.
EveryTaskOnce ==
  \A t \in Tasks :
    LET places == Cardinality({i \in 1..Len(tasks) : tasks[i] = t})
                  + Cardinality(RunBy(t)) + executed[t]
    IN places = IF returned[t] = "valid" THEN 1 ELSE 0

\* The destructor returns only when every accepted task has been run
\* (threadpool.cpp:319).
DrainedAtDestroy ==
  owner = "destroyed" => \A t \in Tasks : returned[t] = "valid" => executed[t] > 0

\* start() walks threads_ without the lock: no worker erases its entry until it
\* has returned.
NoEraseDuringStart == [][owner = "starting" => threads \subseteq threads']_vars

-----------------------------------------------------------------------------
(* The inductive invariant behind the safety properties. *)

\* Ids not handed out yet belong to no thread.
Unborn == \A w \in Ids : w >= generateId => pc[w] = "none"

\* Where the owner is decides the flag, who may be inside submitTask, and
\* which threads have not been let go.
OwnerPhase ==
  /\ isPoolRunning <=> owner \in {"starting", "running", "crashed"}
  /\ owner # "running" => NobodyInSubmit
  /\ owner = "config" => Live = {} /\ tasks = <<>>
  /\ owner = "starting" =>
       /\ curThreadSize = initThreadSize
       /\ \A w \in threads : w >= started => pc[w] = "created"

\* As long as there are tasks, or the destructor sleeps, a worker is left.
WorkersRemain ==
  /\ initThreadSize >= 1
  /\ tasks # <<>> => curThreadSize >= 1
  /\ owner = "dtorWait" => curThreadSize >= 1
  /\ owner = "destroyed" => curThreadSize = 0

\* An accepted task is somewhere.
NothingLost ==
  \A t \in Tasks : returned[t] = "valid" =>
    \/ \E i \in 1..Len(tasks) : tasks[i] = t
    \/ RunBy(t) # {}
    \/ executed[t] > 0

\* What every step of the pool preserves when it is started with a thread at least.
IInv ==
  /\ TypeOK /\ CountsExact /\ IdleExact /\ SizeWithinBounds
  /\ NoSleepOverTasks /\ NoSleepOverRoom /\ NoSleepThroughShutdown
  /\ Unborn /\ OwnerPhase /\ WorkersRemain /\ NothingLost

-----------------------------------------------------------------------------
(* Liveness. *)

\* Every accepted task is run, whether or not the pool is being destroyed.
AcceptedTaskRuns == \A t \in Tasks : returned[t] = "valid" ~> executed[t] = 1

\* The destructor returns.
DtorReturns == owner = "dtor" ~> owner = "destroyed"

\* submitTask returns, with a queue that is full forever as well.
SubmitReturns == \A u \in Users : user[u] # "out" ~> user[u] = "out"

-----------------------------------------------------------------------------
(* The pool as the code that submits tasks sees it. *)

Contract == INSTANCE WorkQueue WITH
  pending  <- tasks,
  running  <- {task[w] : w \in {v \in Ids : pc[v] = "executing"}},
  finished <- {t \in Tasks : executed[t] > 0},
  refused  <- {t \in Tasks : returned[t] = "invalid"},
  closed   <- owner = "destroyed"

\* The pool keeps the contract of WorkQueue, its liveness included.
KeepsContract == Contract!Spec
=============================================================================
