-------------------------- MODULE ThreadPoolProofs --------------------------
(***************************************************************************)
(* Proofs about ThreadPool, for any number of users, tasks and threads, any *)
(* limits and any length of the run: IInv is inductive when the pool is     *)
(* started with at least one thread.                                        *)
(***************************************************************************)
EXTENDS ThreadPool, TLAPS, FiniteSetTheorems, SequenceTheorems

USE PoolAssumption

\* Sets of thread ids are finite, and so are the sets the counters count.
LEMMA PlacesFinite ==
  /\ IsFiniteSet(Ids)
  /\ IsFiniteSet(Live) /\ IsFiniteSet(Idle) /\ IsFiniteSet(Exited)
  /\ Cardinality(Live) \in Nat /\ Cardinality(Idle) \in Nat /\ Cardinality(Exited) \in Nat
<1>1. IsFiniteSet(Ids)
  BY FS_Interval DEF Ids
<1>2. Live \subseteq Ids /\ Idle \subseteq Ids /\ Exited \subseteq Ids
  BY DEF Live, Idle, Exited
<1>3. QED
  BY <1>1, <1>2, FS_Subset, FS_CardinalityType

\* The initial state satisfies the inductive invariant.
LEMMA InitIInv == Init => IInv
<1> SUFFICES ASSUME Init PROVE IInv
  OBVIOUS
<1>1. Live = {} /\ Idle = {} /\ Exited = {}
  BY DEF Init, Live, Idle, Exited, LivePC, IdlePC, BusyPC
<1>2. Cardinality(Live) = 0 /\ Cardinality(Idle) = 0 /\ Cardinality(Exited) = 0
  BY <1>1, FS_EmptySet
<1>3. TypeOK
  <2>1. generateId \in Nat /\ threadSizeMaxThreshHold \in Nat /\ taskQueMaxThreshHold \in Nat
    BY PoolAssumption DEF Init
  <2>2. lastTime \in [Ids -> Nat] /\ executed \in [Tasks -> Nat]
    BY DEF Init
  <2>3. tasks \in Seq(Tasks)
    BY DEF Init
  <2>4. QED
    BY <2>1, <2>2, <2>3 DEF Init, TypeOK, OwnerStates
<1>4. CountsExact /\ IdleExact
  BY <1>1, <1>2 DEF Init, CountsExact, IdleExact
<1>5. SizeWithinBounds /\ NoSleepOverTasks /\ NoSleepOverRoom /\ NoSleepThroughShutdown
  BY DEF Init, SizeWithinBounds, NoSleepOverTasks, NoSleepOverRoom, NoSleepThroughShutdown
<1>6. Unborn /\ OwnerPhase /\ WorkersRemain /\ NothingLost
  <2>1. Unborn
    BY DEF Init, Unborn
  <2>2. OwnerPhase
    BY <1>1 DEF Init, OwnerPhase, NobodyInSubmit
  <2>3. WorkersRemain
    BY DEF Init, WorkersRemain
  <2>4. NothingLost
    BY DEF Init, NothingLost
  <2>5. QED
    BY <2>1, <2>2, <2>3, <2>4
<1>7. QED
  BY <1>3, <1>4, <1>5, <1>6 DEF IInv

-----------------------------------------------------------------------------
(* Steps that leave every worker where it is. *)

USE DEF config, counts, queue, ids, dtor, users, local, Untouched, Return, Sleep

\* When no worker moves, the live, idle and exited workers stay the same sets.
LEMMA PlacesStay ==
  ASSUME UNCHANGED pc
  PROVE  Live' = Live /\ Idle' = Idle /\ Exited' = Exited
BY DEF Live, Idle, Exited

\* The setters change the configuration and nothing else.
LEMMA ConfigStep ==
  ASSUME IInv,
         \/ \E m \in Modes : SetMode(m)
         \/ \E n \in TaskLimits : SetTaskQueMaxThreshHold(n)
         \/ \E n \in ThreadLimits : SetThreadSizeMaxThreshHold(n)
  PROVE  IInv'
<1> USE DEF SetMode, SetTaskQueMaxThreshHold, SetThreadSizeMaxThreshHold
<1>1. TypeOK'
  BY PoolAssumption DEF IInv, TypeOK, OwnerStates
<1>2. CountsExact' /\ IdleExact'
  BY PlacesStay DEF IInv, CountsExact, IdleExact
<1>3. SizeWithinBounds' /\ NoSleepThroughShutdown' /\ Unborn' /\ WorkersRemain'
  BY PlacesStay DEF IInv, TypeOK, CountsExact, SizeWithinBounds, NoSleepThroughShutdown,
                    Unborn, WorkersRemain, OwnerPhase
<1>4. NoSleepOverTasks' /\ NoSleepOverRoom'
  BY DEF IInv, TypeOK, NoSleepOverTasks, NoSleepOverRoom, OwnerPhase, NobodyInSubmit
<1>5. OwnerPhase'
  BY PlacesStay DEF IInv, TypeOK, OwnerPhase, NobodyInSubmit
<1>6. NothingLost'
  <2>1. UNCHANGED <<tasks, pc, task, executed>>
    OBVIOUS
  <2>2. \A t \in Tasks : returned'[t] = "valid" => returned[t] = "valid"
    BY DEF IInv, TypeOK
  <2>3. QED
    BY <2>1, <2>2 DEF IInv, NothingLost, RunBy
<1>7. QED
  BY <1>1, <1>2, <1>3, <1>4, <1>5, <1>6 DEF IInv

\* Steps of the owner that no worker notices.
LEMMA OwnerMoves ==
  ASSUME IInv,
         \/ StartReturn
         \/ Destroy
         \/ DestroyWoken
         \/ SpuriousOwner
  PROVE  IInv'
<1> USE DEF StartReturn, Destroy, DestroyWoken, SpuriousOwner, AwaitExit
<1>1. TypeOK'
  BY PoolAssumption DEF IInv, TypeOK, OwnerStates
<1>2. CountsExact' /\ IdleExact'
  BY PlacesStay DEF IInv, CountsExact, IdleExact
<1>3. SizeWithinBounds' /\ NoSleepThroughShutdown' /\ Unborn' /\ WorkersRemain'
  BY PlacesStay DEF IInv, TypeOK, CountsExact, SizeWithinBounds, NoSleepThroughShutdown,
                    Unborn, WorkersRemain, OwnerPhase
<1>4. NoSleepOverTasks' /\ NoSleepOverRoom'
  BY DEF IInv, TypeOK, NoSleepOverTasks, NoSleepOverRoom, OwnerPhase, NobodyInSubmit
<1>5. OwnerPhase'
  BY PlacesStay DEF IInv, TypeOK, OwnerPhase, NobodyInSubmit
<1>6. NothingLost'
  <2>1. UNCHANGED <<tasks, pc, task, executed>>
    OBVIOUS
  <2>2. \A t \in Tasks : returned'[t] = "valid" => returned[t] = "valid"
    BY DEF IInv, TypeOK
  <2>3. QED
    BY <2>1, <2>2 DEF IInv, NothingLost, RunBy
<1>7. QED
  BY <1>1, <1>2, <1>3, <1>4, <1>5, <1>6 DEF IInv

\* Steps of a caller that enqueue nothing.
LEMMA UserMoves ==
  ASSUME IInv, NEW u \in Users,
         \/ \E t \in Tasks : SubmitWait(u, t)
         \/ SubmitRetry(u)
         \/ SubmitReject(u)
         \/ UserTimeout(u)
         \/ SpuriousUser(u)
  PROVE  IInv'
<1> USE DEF SubmitWait, SubmitRetry, SubmitReject, UserTimeout, SpuriousUser, HasRoom
<1>1. UNCHANGED <<config, counts, queue, ids, dtor, pc, local, executed, now>>
  OBVIOUS
<1>2. PICK t \in Tasks \cup {NoTask}, t2 \in Tasks \cup {NoTask},
            at \in {"out", "waiting", "woken", "timedout"} :
        /\ user' = [user EXCEPT ![u] = at]
        /\ call' = [call EXCEPT ![u] = t]
        /\ \/ UNCHANGED returned
           \/ returned' = [returned EXCEPT ![t2] = "invalid"]
        /\ \/ UNCHANGED fullAt /\ at # "waiting"
           \/ fullAt' = [fullAt EXCEPT ![u] = 0] /\ at # "waiting"
           \/ fullAt' = [fullAt EXCEPT ![u] = taskQueMaxThreshHold] /\ ~HasRoom
        /\ at # "out" => t \in Tasks
        /\ owner = "running"
  <2>1. CASE \E t \in Tasks : SubmitWait(u, t)
    <3>1. PICK t \in Tasks : SubmitWait(u, t)
      BY <2>1
    <3>2. /\ user' = [user EXCEPT ![u] = "waiting"]
          /\ call' = [call EXCEPT ![u] = t]
          /\ fullAt' = [fullAt EXCEPT ![u] = taskQueMaxThreshHold]
          /\ UNCHANGED returned /\ ~HasRoom /\ owner = "running"
      BY <3>1
    <3>3. QED
      BY <3>2
  <2>2. CASE SubmitRetry(u)
    <3>1. /\ user' = [user EXCEPT ![u] = "waiting"]
          /\ call' = [call EXCEPT ![u] = call[u]] /\ call[u] \in Tasks
          /\ fullAt' = [fullAt EXCEPT ![u] = taskQueMaxThreshHold]
          /\ UNCHANGED returned /\ ~HasRoom /\ owner = "running"
      BY <2>2 DEF IInv, TypeOK, OwnerPhase, NobodyInSubmit
    <3>2. QED
      BY <3>1
  <2>3. CASE SubmitReject(u)
    <3>1. /\ user' = [user EXCEPT ![u] = "out"]
          /\ call' = [call EXCEPT ![u] = NoTask]
          /\ fullAt' = [fullAt EXCEPT ![u] = 0]
          /\ returned' = [returned EXCEPT ![call[u]] = "invalid"]
          /\ call[u] \in Tasks /\ owner = "running"
      BY <2>3 DEF IInv, TypeOK, OwnerPhase, NobodyInSubmit
    <3>2. QED
      BY <3>1
  <2>4. CASE UserTimeout(u)
    <3>1. /\ user' = [user EXCEPT ![u] = "timedout"]
          /\ call' = [call EXCEPT ![u] = call[u]] /\ call[u] \in Tasks
          /\ UNCHANGED <<fullAt, returned>> /\ owner = "running"
      BY <2>4 DEF IInv, TypeOK, OwnerPhase, NobodyInSubmit
    <3>2. QED
      BY <3>1
  <2>5. CASE SpuriousUser(u)
    <3>1. /\ user' = [user EXCEPT ![u] = "woken"]
          /\ call' = [call EXCEPT ![u] = call[u]] /\ call[u] \in Tasks
          /\ UNCHANGED <<fullAt, returned>> /\ owner = "running"
      BY <2>5 DEF IInv, TypeOK, OwnerPhase, NobodyInSubmit
    <3>2. QED
      BY <3>1
  <2>6. QED
    BY <2>1, <2>2, <2>3, <2>4, <2>5
<1> HIDE DEF SubmitWait, SubmitRetry, SubmitReject, UserTimeout, SpuriousUser
<1>3. TypeOK'
  <2>1. fullAt' \in [Users -> Nat]
    BY <1>2 DEF IInv, TypeOK
  <2>2. /\ user' \in [Users -> {"out", "waiting", "woken", "timedout"}]
        /\ call' \in [Users -> Tasks \cup {NoTask}]
        /\ \A v \in Users : user'[v] # "out" => call'[v] \in Tasks
        /\ returned' \in [Tasks -> {"none", "valid", "invalid"}]
    BY <1>2 DEF IInv, TypeOK
  <2>3. QED
    BY <1>1, <2>1, <2>2 DEF IInv, TypeOK, OwnerStates
<1>4. CountsExact' /\ IdleExact'
  BY <1>1, PlacesStay DEF IInv, CountsExact, IdleExact
<1>5. SizeWithinBounds' /\ NoSleepThroughShutdown' /\ Unborn' /\ WorkersRemain'
  BY <1>1, PlacesStay DEF IInv, SizeWithinBounds, NoSleepThroughShutdown, Unborn, WorkersRemain
<1>6. NoSleepOverTasks' /\ NoSleepOverRoom'
  BY <1>1, <1>2 DEF IInv, TypeOK, NoSleepOverTasks, NoSleepOverRoom
<1>7. OwnerPhase'
  BY <1>1, <1>2, PlacesStay DEF IInv, OwnerPhase
<1>8. NothingLost'
  <2>1. \A x \in Tasks : returned'[x] = "valid" => returned[x] = "valid"
    BY <1>2 DEF IInv, TypeOK
  <2>2. QED
    BY <1>1, <2>1 DEF IInv, NothingLost, RunBy
<1>9. QED
  BY <1>3, <1>4, <1>5, <1>6, <1>7, <1>8 DEF IInv

\* The clock, and stuttering.
LEMMA ClockStep ==
  ASSUME IInv,
         \/ Tick
         \/ UNCHANGED vars
  PROVE  IInv'
<1> USE DEF Tick, vars
<1>1. TypeOK'
  <2>1. now \in Nat => now' \in Nat
    OBVIOUS
  <2>2. QED
    BY <2>1 DEF IInv, TypeOK, OwnerStates
<1>2. CountsExact' /\ IdleExact'
  BY PlacesStay DEF IInv, CountsExact, IdleExact
<1>3. SizeWithinBounds' /\ NoSleepThroughShutdown' /\ Unborn' /\ WorkersRemain'
  BY PlacesStay DEF IInv, TypeOK, CountsExact, SizeWithinBounds, NoSleepThroughShutdown,
                    Unborn, WorkersRemain, OwnerPhase
<1>4. NoSleepOverTasks' /\ NoSleepOverRoom'
  BY DEF IInv, TypeOK, NoSleepOverTasks, NoSleepOverRoom, OwnerPhase, NobodyInSubmit
<1>5. OwnerPhase'
  BY PlacesStay DEF IInv, TypeOK, OwnerPhase, NobodyInSubmit
<1>6. NothingLost'
  <2>1. UNCHANGED <<tasks, pc, task, executed>>
    OBVIOUS
  <2>2. \A t \in Tasks : returned'[t] = "valid" => returned[t] = "valid"
    BY DEF IInv, TypeOK
  <2>3. QED
    BY <2>1, <2>2 DEF IInv, NothingLost, RunBy
<1>7. QED
  BY <1>1, <1>2, <1>3, <1>4, <1>5, <1>6 DEF IInv


-----------------------------------------------------------------------------
(* Steps that move workers about without changing how many there are. *)

\* A worker that waits, wakes up or times out stays idle.
LEMMA IdleMoves ==
  ASSUME IInv, NEW w \in Ids,
         \/ Wait(w)
         \/ WorkerTimeout(w)
         \/ SpuriousWorker(w)
  PROVE  IInv'
<1> USE DEF Wait, WorkerTimeout, SpuriousWorker, AtLoopTest
<1>1. UNCHANGED <<config, counts, queue, ids, dtor, users, local, executed, now>>
  OBVIOUS
<1>2. PICK at \in IdlePC :
        /\ pc[w] \in IdlePC
        /\ pc' = [pc EXCEPT ![w] = at]
        /\ at = "waiting" => taskSize = 0 /\ isPoolRunning
  BY DEF IdlePC
<1> HIDE DEF Wait, WorkerTimeout, SpuriousWorker, AtLoopTest
<1> USE DEF IdlePC, BusyPC, LivePC
<1>3. Live' = Live /\ Idle' = Idle /\ Exited' = Exited
  BY <1>2 DEF IInv, TypeOK, Live, Idle, Exited
<1>4. TypeOK'
  BY <1>1, <1>2 DEF IInv, TypeOK, OwnerStates
<1>5. CountsExact' /\ IdleExact'
  BY <1>1, <1>3 DEF IInv, CountsExact, IdleExact
<1>6. SizeWithinBounds' /\ WorkersRemain' /\ NoSleepOverRoom'
  BY <1>1 DEF IInv, SizeWithinBounds, WorkersRemain, NoSleepOverRoom
<1>7. NoSleepOverTasks' /\ NoSleepThroughShutdown'
  BY <1>1, <1>2 DEF IInv, TypeOK, CountsExact, NoSleepOverTasks, NoSleepThroughShutdown, OwnerPhase
<1>8. Unborn' /\ OwnerPhase'
  BY <1>1, <1>2, <1>3 DEF IInv, TypeOK, Unborn, OwnerPhase, NobodyInSubmit
<1>9. NothingLost'
  <2>1. \A t \in Tasks : RunBy(t)' = RunBy(t)
    BY <1>1, <1>2 DEF IInv, TypeOK, RunBy
  <2>2. QED
    BY <1>1, <2>1 DEF IInv, NothingLost
<1>10. QED
  BY <1>4, <1>5, <1>6, <1>7, <1>8, <1>9 DEF IInv

\* What a notification of every worker changes, and what it leaves alone.
LEMMA NotifyAllWorkers ==
  ASSUME TypeOK
  PROVE  LET woken == NotifyAll(pc)
         IN /\ woken \in [Ids -> LivePC \cup {"none", "exited", "reclaimed"}]
            /\ \A w \in Ids : woken[w] # "waiting"
            /\ \A w \in Ids : woken[w] = pc[w] \/ (pc[w] = "waiting" /\ woken[w] = "woken")
BY DEF TypeOK, NotifyAll, LivePC, IdlePC, BusyPC

\* The destructor wakes every worker and then sleeps, or returns when there is none.
LEMMA DestroyNotifyStep ==
  ASSUME IInv, DestroyNotify
  PROVE  IInv'
<1> USE DEF IdlePC, BusyPC, LivePC
<1>1. /\ UNCHANGED <<config, counts, queue, ids, isPoolRunning, started, users, local, executed, now>>
      /\ pc' = NotifyAll(pc)
      /\ owner = "dtor"
      /\ owner' = IF curThreadSize = 0 THEN "destroyed" ELSE "dtorWait"
  BY DEF DestroyNotify, AwaitExit
<1>2. /\ pc' \in [Ids -> LivePC \cup {"none", "exited", "reclaimed"}]
      /\ \A w \in Ids : pc'[w] # "waiting"
      /\ \A w \in Ids : pc'[w] = pc[w] \/ (pc[w] = "waiting" /\ pc'[w] = "woken")
  BY <1>1, NotifyAllWorkers DEF IInv
<1>3. Live' = Live /\ Idle' = Idle /\ Exited' = Exited
  BY <1>2 DEF IInv, TypeOK, Live, Idle, Exited
<1>4. TypeOK'
  BY <1>1, <1>2 DEF IInv, TypeOK, OwnerStates
<1>5. CountsExact' /\ IdleExact'
  BY <1>1, <1>3 DEF IInv, CountsExact, IdleExact
<1>6. SizeWithinBounds' /\ WorkersRemain' /\ NoSleepOverRoom'
  BY <1>1 DEF IInv, TypeOK, SizeWithinBounds, WorkersRemain, NoSleepOverRoom
<1>7. NoSleepOverTasks' /\ NoSleepThroughShutdown'
  BY <1>2 DEF NoSleepOverTasks, NoSleepThroughShutdown
<1>8. Unborn' /\ OwnerPhase'
  BY <1>1, <1>2, <1>3 DEF IInv, Unborn, OwnerPhase, NobodyInSubmit
<1>9. NothingLost'
  <2>1. \A t \in Tasks : RunBy(t)' = RunBy(t)
    BY <1>1, <1>2 DEF RunBy
  <2>2. QED
    BY <1>1, <2>1 DEF IInv, NothingLost
<1>10. QED
  BY <1>4, <1>5, <1>6, <1>7, <1>8, <1>9 DEF IInv
-----------------------------------------------------------------------------
(* A worker takes a task, runs it and becomes idle again. *)

\* Taking the oldest task: the worker stops being idle, every caller is woken.
LEMMA TakeStep ==
  ASSUME IInv, NEW w \in Ids, Take(w)
  PROVE  IInv'
<1> USE DEF IdlePC, BusyPC, LivePC
<1>1. /\ UNCHANGED <<config, curThreadSize, ids, dtor, call, fullAt, returned, lastTime, executed, now>>
      /\ pc[w] \in IdlePC
      /\ idleThreadSize' = idleThreadSize - 1
      /\ task' = [task EXCEPT ![w] = Head(tasks)]
      /\ tasks' = Tail(tasks) /\ taskSize' = taskSize - 1
      /\ user' = NotifyAll(user)
  BY DEF Take, AtLoopTest
<1>2. tasks # <<>> /\ Head(tasks) \in Tasks /\ Tail(tasks) \in Seq(Tasks)
      /\ Len(tasks) \in Nat /\ Len(tasks) >= 1 /\ Len(Tail(tasks)) = Len(tasks) - 1
  BY DEF Take, IInv, TypeOK, CountsExact
<1>3. /\ pc' \in [Ids -> LivePC \cup {"none", "exited", "reclaimed"}]
      /\ pc'[w] = "executing"
      /\ \A v \in Ids : pc'[v] # "waiting"
      /\ \A v \in Ids \ {w} : pc'[v] = pc[v] \/ (pc[v] = "waiting" /\ pc'[v] = "woken")
  <2>1. \A v \in Ids : pc[v] # "waiting"
    BY <1>2 DEF IInv, NoSleepOverTasks
  <2>2. QED
    BY <2>1, NotifyAllWorkers DEF Take, IInv, TypeOK
<1>4. Live' = Live /\ Idle' = Idle \ {w} /\ w \in Idle /\ Exited' = Exited
  <2>1. pc[w] \in IdlePC /\ pc'[w] = "executing"
    BY <1>1, <1>3
  <2>2. ASSUME NEW v \in Ids \ {w}
        PROVE  /\ pc'[v] \in LivePC <=> pc[v] \in LivePC
               /\ pc'[v] \in IdlePC <=> pc[v] \in IdlePC
               /\ pc'[v] = "exited" <=> pc[v] = "exited"
    BY <1>3
  <2>3. QED
    BY <2>1, <2>2 DEF Live, Idle, Exited
<1>5. CountsExact' /\ IdleExact' /\ idleThreadSize' \in Nat /\ taskSize' \in Nat
  <2>1. Cardinality(Idle') = Cardinality(Idle) - 1 /\ Cardinality(Idle') \in Nat
    BY <1>4, PlacesFinite, FS_RemoveElement, FS_CardinalityType
  <2>2. /\ taskSize = Len(tasks) /\ threads = Live /\ curThreadSize = Cardinality(Live)
        /\ idleThreadSize = Cardinality(Idle) + Cardinality(Exited)
        /\ Cardinality(Exited) \in Nat /\ Cardinality(Idle) \in Nat
    BY PlacesFinite, FS_CardinalityType DEF IInv, CountsExact, IdleExact
  <2>3. CountsExact' /\ taskSize' \in Nat
    BY <1>1, <1>2, <1>4, <2>2 DEF CountsExact
  <2>4. IdleExact' /\ idleThreadSize' \in Nat
    BY <1>1, <1>4, <2>1, <2>2 DEF IdleExact
  <2>5. QED
    BY <2>3, <2>4
<1>6. user' \in [Users -> {"out", "waiting", "woken", "timedout"}]
      /\ \A u \in Users : user'[u] # "waiting" /\ (user'[u] = "out" <=> user[u] = "out")
  BY <1>1 DEF IInv, TypeOK, NotifyAll
<1>7. TypeOK'
  BY <1>1, <1>2, <1>3, <1>5, <1>6 DEF IInv, TypeOK, OwnerStates
<1>8. SizeWithinBounds' /\ WorkersRemain'
  BY <1>1, <1>2 DEF IInv, SizeWithinBounds, WorkersRemain
<1>9. NoSleepOverTasks' /\ NoSleepOverRoom' /\ NoSleepThroughShutdown'
  BY <1>3, <1>6 DEF NoSleepOverTasks, NoSleepOverRoom, NoSleepThroughShutdown
<1>10. Unborn' /\ OwnerPhase'
  <2>1. Unborn'
    BY <1>1, <1>3 DEF IInv, Unborn
  <2>2. NobodyInSubmit => NobodyInSubmit'
    BY <1>6 DEF NobodyInSubmit
  <2>3. owner = "config" => tasks = <<>>
    BY DEF IInv, OwnerPhase
  <2>4. owner = "starting" => \A v \in threads : v >= started => pc'[v] = "created"
    BY <1>1, <1>3 DEF IInv, TypeOK, OwnerPhase
  <2>5. QED
    BY <1>1, <1>2, <2>1, <2>2, <2>3, <2>4 DEF IInv, OwnerPhase
<1>11. NothingLost'
  <2> SUFFICES ASSUME NEW t \in Tasks, returned'[t] = "valid"
               PROVE  (\E i \in 1..Len(tasks') : tasks'[i] = t) \/ RunBy(t)' # {} \/ executed'[t] > 0
    BY DEF NothingLost
  <2>1. CASE t = Head(tasks)
    <3>1. w \in RunBy(t)'
      BY <2>1, <1>1, <1>3 DEF IInv, TypeOK, RunBy
    <3>2. QED
      BY <3>1
  <2>2. CASE RunBy(t) # {}
    <3>1. RunBy(t) \subseteq RunBy(t)'
      BY <1>1, <1>3, <1>4 DEF IInv, TypeOK, RunBy, Idle
    <3>2. QED
      BY <2>2, <3>1
  <2>3. CASE executed[t] > 0
    BY <2>3, <1>1
  <2>4. ASSUME NEW i \in 1..Len(tasks), tasks[i] = t, t # Head(tasks)
        PROVE  \E k \in 1..Len(tasks') : tasks'[k] = t
    <3>1. i # 1
      BY <2>4, <1>2
    <3>2. i - 1 \in 1..Len(tasks') /\ tasks'[i - 1] = t
      BY <3>1, <2>4, <1>1, <1>2 DEF IInv, TypeOK
    <3>3. QED
      BY <3>2
  <2>5. QED
    BY <1>1, <2>1, <2>2, <2>3, <2>4 DEF IInv, NothingLost
<1>12. QED
  BY <1>5, <1>7, <1>8, <1>9, <1>10, <1>11 DEF IInv

\* Running the task: it is done before the worker lets go of it.
LEMMA ExecStep ==
  ASSUME IInv, NEW w \in Ids, Exec(w)
  PROVE  IInv'
<1> USE DEF IdlePC, BusyPC, LivePC
<1>1. /\ UNCHANGED <<config, counts, queue, ids, dtor, users, local, now>>
      /\ pc[w] = "executing" /\ pc' = [pc EXCEPT ![w] = "executed"]
      /\ executed' = [executed EXCEPT ![task[w]] = @ + 1]
  BY DEF Exec
<1>2. Live' = Live /\ Idle' = Idle /\ Exited' = Exited
  BY <1>1 DEF IInv, TypeOK, Live, Idle, Exited
<1>3. TypeOK'
  <2>1. executed' \in [Tasks -> Nat]
    <3>1. executed \in [Tasks -> Nat]
      BY DEF IInv, TypeOK
    <3>2. executed' = [t \in Tasks |-> IF t = task[w] THEN executed[t] + 1 ELSE executed[t]]
      BY <1>1, <3>1, Zenon
    <3>3. QED
      BY <3>1, <3>2
  <2>2. pc' \in [Ids -> LivePC \cup {"none", "exited", "reclaimed"}]
    BY <1>1 DEF IInv, TypeOK
  <2>3. QED
    BY <1>1, <2>1, <2>2 DEF IInv, TypeOK, OwnerStates
<1>4. CountsExact' /\ IdleExact'
  BY <1>1, <1>2 DEF IInv, CountsExact, IdleExact
<1>5. SizeWithinBounds' /\ WorkersRemain' /\ NoSleepOverRoom'
  BY <1>1 DEF IInv, SizeWithinBounds, WorkersRemain, NoSleepOverRoom
<1>6. NoSleepOverTasks' /\ NoSleepThroughShutdown'
  BY <1>1 DEF IInv, TypeOK, NoSleepOverTasks, NoSleepThroughShutdown
<1>7. Unborn' /\ OwnerPhase'
  BY <1>1, <1>2 DEF IInv, TypeOK, Unborn, OwnerPhase, NobodyInSubmit
<1>8. NothingLost'
  <2> SUFFICES ASSUME NEW t \in Tasks, returned'[t] = "valid"
               PROVE  (\E i \in 1..Len(tasks') : tasks'[i] = t) \/ RunBy(t)' # {} \/ executed'[t] > 0
    BY DEF NothingLost
  <2>1. CASE t = task[w]
    <3>1. executed \in [Tasks -> Nat]
      BY DEF IInv, TypeOK
    <3>2. executed'[t] = executed[t] + 1 /\ executed[t] \in Nat
      BY <2>1, <3>1, <1>1
    <3>3. QED
      BY <3>2
  <2>2. CASE t # task[w]
    <3>1. RunBy(t)' = RunBy(t) /\ executed'[t] = executed[t]
      BY <2>2, <1>1 DEF IInv, TypeOK, RunBy
    <3>2. QED
      BY <1>1, <3>1 DEF IInv, NothingLost
  <2>3. QED
    BY <2>1, <2>2
<1>9. QED
  BY <1>3, <1>4, <1>5, <1>6, <1>7, <1>8 DEF IInv

\* Back to the loop: the worker is counted as idle again.
LEMMA BackToIdleStep ==
  ASSUME IInv, NEW w \in Ids, BackToIdle(w)
  PROVE  IInv'
<1> USE DEF IdlePC, BusyPC, LivePC
<1>1. /\ UNCHANGED <<config, curThreadSize, queue, ids, dtor, users, lastTime, executed, now>>
      /\ pc[w] = "executed" /\ pc' = [pc EXCEPT ![w] = "ready"]
      /\ task' = [task EXCEPT ![w] = NoTask]
      /\ idleThreadSize' = idleThreadSize + 1
  BY DEF BackToIdle
<1>2. Live' = Live /\ Idle' = Idle \cup {w} /\ w \notin Idle /\ Exited' = Exited
  BY <1>1 DEF IInv, TypeOK, Live, Idle, Exited
<1>3. TypeOK'
  BY <1>1 DEF IInv, TypeOK, OwnerStates
<1>4. CountsExact' /\ IdleExact'
  <2>1. Cardinality(Idle') = Cardinality(Idle) + 1
    BY <1>2, PlacesFinite, FS_AddElement
  <2>2. QED
    BY <1>1, <1>2, <2>1, PlacesFinite DEF IInv, TypeOK, CountsExact, IdleExact
<1>5. SizeWithinBounds' /\ WorkersRemain' /\ NoSleepOverRoom'
  BY <1>1 DEF IInv, SizeWithinBounds, WorkersRemain, NoSleepOverRoom
<1>6. NoSleepOverTasks' /\ NoSleepThroughShutdown'
  BY <1>1 DEF IInv, TypeOK, NoSleepOverTasks, NoSleepThroughShutdown
<1>7. Unborn' /\ OwnerPhase'
  BY <1>1, <1>2 DEF IInv, TypeOK, Unborn, OwnerPhase, NobodyInSubmit
<1>8. NothingLost'
  <2>1. \A t \in Tasks : RunBy(t)' = RunBy(t)
    BY <1>1 DEF IInv, TypeOK, RunBy
  <2>2. QED
    BY <1>1, <2>1 DEF IInv, NothingLost
<1>9. QED
  BY <1>3, <1>4, <1>5, <1>6, <1>7, <1>8 DEF IInv
-----------------------------------------------------------------------------
(* Workers leave. *)

\* A reclaimed worker leaves a pool that is still at least as large as it began.
LEMMA ReclaimStep ==
  ASSUME IInv, NEW w \in Ids, Reclaim(w)
  PROVE  IInv'
<1> USE DEF IdlePC, BusyPC, LivePC
<1>1. /\ UNCHANGED <<config, queue, generateId, dtor, users, local, executed, now>>
      /\ pc[w] = "timedout" /\ pc' = [pc EXCEPT ![w] = "reclaimed"]
      /\ curThreadSize > initThreadSize
      /\ threads' = threads \ {w}
      /\ curThreadSize' = curThreadSize - 1 /\ idleThreadSize' = idleThreadSize - 1
  BY DEF Reclaim, Reclaimable, Leave
<1>2. /\ Live' = Live \ {w} /\ w \in Live
      /\ Idle' = Idle \ {w} /\ w \in Idle
      /\ Exited' = Exited
  BY <1>1 DEF IInv, TypeOK, Live, Idle, Exited
<1>3. CountsExact' /\ IdleExact' /\ curThreadSize' \in Nat /\ idleThreadSize' \in Nat
  <2>1. /\ Cardinality(Live') = Cardinality(Live) - 1 /\ Cardinality(Live') \in Nat
        /\ Cardinality(Idle') = Cardinality(Idle) - 1 /\ Cardinality(Idle') \in Nat
    BY <1>2, PlacesFinite, FS_RemoveElement, FS_CardinalityType
  <2>2. /\ taskSize = Len(tasks) /\ threads = Live /\ curThreadSize = Cardinality(Live)
        /\ idleThreadSize = Cardinality(Idle) + Cardinality(Exited)
        /\ Cardinality(Exited) \in Nat /\ Cardinality(Idle) \in Nat
    BY PlacesFinite, FS_CardinalityType DEF IInv, CountsExact, IdleExact
  <2>3. CountsExact' /\ curThreadSize' \in Nat
    BY <1>1, <1>2, <2>1, <2>2 DEF CountsExact
  <2>4. IdleExact' /\ idleThreadSize' \in Nat
    BY <1>1, <1>2, <2>1, <2>2 DEF IdleExact
  <2>5. QED
    BY <2>3, <2>4
<1>4. TypeOK'
  BY <1>1, <1>3 DEF IInv, TypeOK, OwnerStates
<1>5. SizeWithinBounds' /\ WorkersRemain' /\ NoSleepOverRoom'
  BY <1>1 DEF IInv, TypeOK, OwnerPhase, SizeWithinBounds, WorkersRemain, NoSleepOverRoom
<1>6. NoSleepOverTasks' /\ NoSleepThroughShutdown'
  BY <1>1 DEF IInv, TypeOK, NoSleepOverTasks, NoSleepThroughShutdown
<1>7. Unborn' /\ OwnerPhase'
  BY <1>1, <1>2 DEF IInv, TypeOK, Unborn, OwnerPhase, NobodyInSubmit
<1>8. NothingLost'
  <2>1. \A t \in Tasks : RunBy(t)' = RunBy(t)
    BY <1>1 DEF IInv, TypeOK, RunBy
  <2>2. QED
    BY <1>1, <2>1 DEF IInv, NothingLost
<1>9. QED
  BY <1>3, <1>4, <1>5, <1>6, <1>7, <1>8 DEF IInv

\* A worker that exits leaves no task behind, and wakes the destructor if it is the last.
LEMMA ExitStep ==
  ASSUME IInv, NEW w \in Ids, Exit(w)
  PROVE  IInv'
<1> USE DEF IdlePC, BusyPC, LivePC
<1>1. /\ UNCHANGED <<config, idleThreadSize, queue, generateId, isPoolRunning, started,
                      users, local, executed, now>>
      /\ pc[w] \in IdlePC /\ pc' = [pc EXCEPT ![w] = "exited"]
      /\ taskSize = 0 /\ ~isPoolRunning
      /\ threads' = threads \ {w} /\ curThreadSize' = curThreadSize - 1
      /\ owner' = IF curThreadSize = 1 /\ owner = "dtorWait" THEN "dtorWoken" ELSE owner
  BY DEF Exit, MayExit, AtLoopTest, Leave, OwnerAfterExit
<1>2. /\ Live' = Live \ {w} /\ w \in Live
      /\ Idle' = Idle \ {w} /\ w \in Idle
      /\ Exited' = Exited \cup {w} /\ w \notin Exited
  BY <1>1 DEF IInv, TypeOK, Live, Idle, Exited
<1>3. CountsExact' /\ IdleExact' /\ curThreadSize' \in Nat
  <2>1. /\ Cardinality(Live') = Cardinality(Live) - 1 /\ Cardinality(Live') \in Nat
        /\ Cardinality(Idle') = Cardinality(Idle) - 1
        /\ Cardinality(Exited') = Cardinality(Exited) + 1
    BY <1>2, PlacesFinite, FS_RemoveElement, FS_AddElement, FS_CardinalityType
  <2>2. QED
    BY <1>1, <1>2, <2>1, PlacesFinite DEF IInv, TypeOK, CountsExact, IdleExact
<1>4. TypeOK'
  BY <1>1, <1>3 DEF IInv, TypeOK, OwnerStates
<1>5. tasks = <<>>
  BY <1>1, EmptySeq DEF IInv, TypeOK, CountsExact
<1>6. curThreadSize >= 1
  BY <1>2, PlacesFinite, FS_EmptySet DEF IInv, TypeOK, CountsExact
<1>7. SizeWithinBounds' /\ WorkersRemain' /\ NoSleepOverRoom'
  BY <1>1, <1>5, <1>6 DEF IInv, TypeOK, SizeWithinBounds, WorkersRemain, NoSleepOverRoom
<1>8. NoSleepOverTasks' /\ NoSleepThroughShutdown'
  BY <1>1 DEF IInv, TypeOK, NoSleepOverTasks, NoSleepThroughShutdown
<1>9. Unborn' /\ OwnerPhase'
  BY <1>1, <1>2 DEF IInv, TypeOK, Unborn, OwnerPhase, NobodyInSubmit
<1>10. NothingLost'
  <2>1. \A t \in Tasks : RunBy(t)' = RunBy(t)
    BY <1>1 DEF IInv, TypeOK, RunBy
  <2>2. QED
    BY <1>1, <2>1 DEF IInv, NothingLost
<1>11. QED
  BY <1>3, <1>4, <1>7, <1>8, <1>9, <1>10 DEF IInv

-----------------------------------------------------------------------------
(* Workers arrive. *)

\* The first loop of start(): as many threads as were asked for, with new ids.
LEMMA StartCreateStep ==
  ASSUME 0 \notin InitSizes, IInv, NEW n \in InitSizes, StartCreate(n)
  PROVE  IInv'
<1> DEFINE new == generateId .. generateId + n - 1
<1> USE DEF IdlePC, BusyPC, LivePC
<1>1. /\ UNCHANGED <<poolMode, threadSizeMaxThreshHold, taskQueMaxThreshHold,
                      idleThreadSize, queue, users, local, executed, now>>
      /\ owner = "config" /\ new \subseteq Ids
      /\ isPoolRunning' = TRUE
      /\ initThreadSize' = n /\ curThreadSize' = n
      /\ threads' = threads \cup new /\ generateId' = generateId + n
      /\ pc' = [w \in Ids |-> IF w \in new THEN "created" ELSE pc[w]]
      /\ owner' = "starting" /\ started' = 0
  BY DEF StartCreate
<1>2. n \in Nat /\ n >= 1
  BY PoolAssumption
<1>3. /\ \A w \in new : pc[w] = "none"
      /\ Live = {} /\ threads = {} /\ tasks = <<>>
  BY <1>1, <1>2 DEF IInv, TypeOK, Unborn, OwnerPhase, CountsExact
<1>4. Live' = new /\ Idle' = Idle /\ Exited' = Exited
  BY <1>1, <1>3 DEF IInv, TypeOK, Live, Idle, Exited
<1>5. Cardinality(new) = n
  BY <1>2, FS_Interval DEF IInv, TypeOK
<1> HIDE DEF new
<1>6. TypeOK'
  BY <1>1, <1>2, <1>3 DEF IInv, TypeOK, OwnerStates
<1>7. CountsExact' /\ IdleExact'
  BY <1>1, <1>3, <1>4, <1>5 DEF IInv, CountsExact, IdleExact
<1>8. SizeWithinBounds' /\ WorkersRemain' /\ NoSleepOverRoom'
  BY <1>1, <1>2 DEF IInv, SizeWithinBounds, WorkersRemain, NoSleepOverRoom
<1>9. NoSleepOverTasks' /\ NoSleepThroughShutdown'
  BY <1>1, <1>3 DEF NoSleepOverTasks, NoSleepThroughShutdown
<1>10. Unborn'
  BY <1>1, <1>2 DEF new, IInv, TypeOK, Unborn, Ids
<1>11. OwnerPhase'
  BY <1>1, <1>3 DEF IInv, OwnerPhase, NobodyInSubmit
<1>12. NothingLost'
  <2>1. \A t \in Tasks : RunBy(t)' = RunBy(t)
    BY <1>1, <1>3 DEF RunBy
  <2>2. QED
    BY <1>1, <2>1 DEF IInv, NothingLost
<1>13. QED
  BY <1>6, <1>7, <1>8, <1>9, <1>10, <1>11, <1>12 DEF IInv

\* The second loop of start(): the next thread begins to run, or there is none.
LEMMA StartThreadStep ==
  ASSUME IInv, StartThread
  PROVE  IInv'
<1> USE DEF IdlePC, BusyPC, LivePC
<1>1. /\ UNCHANGED <<config, isPoolRunning, curThreadSize, queue, ids, users, task, executed, now>>
      /\ owner = "starting"
  BY DEF StartThread
<1>2. CASE started \in threads
  <2>1. /\ pc' = [pc EXCEPT ![started] = "ready"]
        /\ lastTime' = [lastTime EXCEPT ![started] = now]
        /\ idleThreadSize' = idleThreadSize + 1
        /\ started' = started + 1 /\ owner' = owner
        /\ started \in Ids /\ pc[started] = "created" /\ started \in Live
    BY <1>1, <1>2 DEF StartThread, IInv, TypeOK, OwnerPhase, CountsExact
  <2>2. Live' = Live /\ Idle' = Idle \cup {started} /\ started \notin Idle /\ Exited' = Exited
    BY <2>1 DEF IInv, TypeOK, Live, Idle, Exited
  <2>3. TypeOK'
    BY <1>1, <2>1 DEF IInv, TypeOK, OwnerStates
  <2>4. CountsExact' /\ IdleExact'
    <3>1. Cardinality(Idle') = Cardinality(Idle) + 1
      BY <2>2, PlacesFinite, FS_AddElement
    <3>2. QED
      BY <1>1, <2>1, <2>2, <3>1, PlacesFinite DEF IInv, TypeOK, CountsExact, IdleExact
  <2>5. SizeWithinBounds' /\ WorkersRemain' /\ NoSleepOverRoom'
    BY <1>1, <2>1 DEF IInv, SizeWithinBounds, WorkersRemain, NoSleepOverRoom
  <2>6. NoSleepOverTasks' /\ NoSleepThroughShutdown'
    BY <1>1, <2>1 DEF IInv, TypeOK, NoSleepOverTasks, NoSleepThroughShutdown
  <2>7. Unborn' /\ OwnerPhase'
    BY <1>1, <2>1 DEF IInv, TypeOK, Unborn, OwnerPhase, NobodyInSubmit, Ids
  <2>8. NothingLost'
    <3>1. \A t \in Tasks : RunBy(t)' = RunBy(t)
      BY <1>1, <2>1 DEF IInv, TypeOK, RunBy
    <3>2. QED
      BY <1>1, <3>1 DEF IInv, NothingLost
  <2>9. QED
    BY <2>3, <2>4, <2>5, <2>6, <2>7, <2>8 DEF IInv
<1>3. CASE started \notin threads
  <2>1. owner' = "crashed" /\ UNCHANGED <<pc, lastTime, idleThreadSize, started>>
    BY <1>3 DEF StartThread
  <2>2. TypeOK'
    BY <1>1, <2>1 DEF IInv, TypeOK, OwnerStates
  <2>3. CountsExact' /\ IdleExact'
    BY <1>1, <2>1, PlacesStay DEF IInv, CountsExact, IdleExact
  <2>4. SizeWithinBounds' /\ WorkersRemain' /\ NoSleepOverRoom' /\ NoSleepOverTasks'
        /\ NoSleepThroughShutdown' /\ Unborn'
    BY <1>1, <2>1 DEF IInv, SizeWithinBounds, WorkersRemain, NoSleepOverRoom, NoSleepOverTasks,
                      NoSleepThroughShutdown, Unborn
  <2>5. OwnerPhase' /\ NothingLost'
    BY <1>1, <2>1 DEF IInv, OwnerPhase, NobodyInSubmit, NothingLost, RunBy
  <2>6. QED
    BY <2>2, <2>3, <2>4, <2>5 DEF IInv
<1>4. QED
  BY <1>2, <1>3
\* submitTask with room in the queue: every worker is woken, one more may start.
LEMMA EnqueueStep ==
  ASSUME IInv, NEW u \in Users, NEW t \in Tasks,
         owner = "running", Enqueue(t), Return(u, t, "valid")
  PROVE  IInv'
<1> USE DEF IdlePC, BusyPC, LivePC
<1> DEFINE g == generateId
<1>1. /\ UNCHANGED <<config, dtor, task, executed, now>>
      /\ owner = "running" /\ isPoolRunning /\ curThreadSize >= 1
      /\ tasks' = Append(tasks, t) /\ taskSize' = taskSize + 1
  BY DEF Enqueue, IInv, TypeOK, OwnerPhase, SizeWithinBounds, WorkersRemain
<1>2. /\ call' = [call EXCEPT ![u] = NoTask]
      /\ user' = [user EXCEPT ![u] = "out"]
      /\ fullAt' = [fullAt EXCEPT ![u] = 0]
      /\ returned' = [returned EXCEPT ![t] = "valid"]
  OBVIOUS
<1>3. /\ tasks' \in Seq(Tasks) /\ Len(tasks') = Len(tasks) + 1 /\ Len(tasks) \in Nat
      /\ tasks'[Len(tasks) + 1] = t
      /\ \A i \in 1..Len(tasks) : tasks'[i] = tasks[i]
  BY <1>1 DEF IInv, TypeOK
<1>4. /\ pc' \in [Ids -> LivePC \cup {"none", "exited", "reclaimed"}]
      /\ \A w \in Ids : pc'[w] # "waiting"
      /\ lastTime' \in [Ids -> Nat]
      /\ \/ /\ Grow /\ g \in Ids /\ pc[g] = "none" /\ pc'[g] = "ready"
            /\ threads' = threads \cup {g} /\ generateId' = g + 1
            /\ curThreadSize' = curThreadSize + 1 /\ idleThreadSize' = idleThreadSize + 1
            /\ \A w \in Ids \ {g} : pc'[w] = pc[w] \/ (pc[w] = "waiting" /\ pc'[w] = "woken")
         \/ /\ UNCHANGED <<threads, generateId, counts>>
            /\ \A w \in Ids : pc'[w] = pc[w] \/ (pc[w] = "waiting" /\ pc'[w] = "woken")
  <2> DEFINE woken == NotifyAll(pc)
  <2>1. /\ woken \in [Ids -> LivePC \cup {"none", "exited", "reclaimed"}]
        /\ \A w \in Ids : woken[w] # "waiting"
        /\ \A w \in Ids : woken[w] = pc[w] \/ (pc[w] = "waiting" /\ woken[w] = "woken")
    BY NotifyAllWorkers DEF IInv
  <2>2. CASE Grow
    <3>1. /\ g \in Ids /\ pc' = [woken EXCEPT ![g] = "ready"]
          /\ lastTime' = [lastTime EXCEPT ![g] = now]
          /\ threads' = threads \cup {g} /\ generateId' = g + 1
          /\ curThreadSize' = curThreadSize + 1 /\ idleThreadSize' = idleThreadSize + 1
      BY <2>2 DEF Enqueue
    <3>2. pc[g] = "none"
      BY <3>1 DEF IInv, TypeOK, Unborn
    <3>3. lastTime' \in [Ids -> Nat]
      BY <3>1 DEF IInv, TypeOK
    <3> HIDE DEF woken
    <3>4. QED
      BY <2>1, <2>2, <3>1, <3>2, <3>3
  <2>3. CASE ~Grow
    <3>1. pc' = woken /\ UNCHANGED <<lastTime, threads, generateId, counts>>
      BY <2>3 DEF Enqueue
    <3>2. lastTime' \in [Ids -> Nat]
      BY <3>1 DEF IInv, TypeOK
    <3> HIDE DEF woken
    <3>3. QED
      BY <2>1, <3>1, <3>2
  <2>4. QED
    BY <2>2, <2>3
<1>5. \A x \in Tasks : RunBy(x)' = RunBy(x)
  <2>1. \A w \in Ids : pc'[w] = "executing" <=> pc[w] = "executing"
    BY <1>4
  <2>2. task' = task
    BY <1>1
  <2>3. QED
    BY <2>1, <2>2 DEF RunBy
<1>6. /\ CountsExact' /\ IdleExact' /\ SizeWithinBounds' /\ Unborn'
      /\ curThreadSize' \in Nat /\ curThreadSize' >= 1
      /\ idleThreadSize' \in Nat /\ threads' \subseteq Ids /\ generateId' \in Nat
  <2>1. CASE UNCHANGED <<threads, generateId, counts>> /\ \A w \in Ids : pc'[w] = pc[w] \/ (pc[w] = "waiting" /\ pc'[w] = "woken")
    <3>1. Live' = Live /\ Idle' = Idle /\ Exited' = Exited
      BY <2>1, <1>4 DEF IInv, TypeOK, Live, Idle, Exited
    <3>2. QED
      BY <1>1, <1>3, <2>1, <3>1 DEF IInv, TypeOK, CountsExact, IdleExact, SizeWithinBounds, Unborn
  <2>2. CASE /\ Grow /\ g \in Ids /\ pc[g] = "none" /\ pc'[g] = "ready"
             /\ threads' = threads \cup {g} /\ generateId' = g + 1
             /\ curThreadSize' = curThreadSize + 1 /\ idleThreadSize' = idleThreadSize + 1
             /\ \A w \in Ids \ {g} : pc'[w] = pc[w] \/ (pc[w] = "waiting" /\ pc'[w] = "woken")
    <3>1. /\ Live' = Live \cup {g} /\ g \notin Live
          /\ Idle' = Idle \cup {g} /\ g \notin Idle
          /\ Exited' = Exited
      <4>1. /\ \A w \in Ids \ {g} : (pc'[w] \in LivePC <=> pc[w] \in LivePC) /\ (pc'[w] \in IdlePC <=> pc[w] \in IdlePC)
            /\ \A w \in Ids \ {g} : pc'[w] = "exited" <=> pc[w] = "exited"
        BY <2>2
      <4>2. g \in Ids /\ pc'[g] = "ready" /\ pc[g] = "none"
        BY <2>2
      <4>3. QED
        BY <4>1, <4>2 DEF Live, Idle, Exited
    <3>2. /\ Cardinality(Live') = Cardinality(Live) + 1
          /\ Cardinality(Idle') = Cardinality(Idle) + 1
      BY <3>1, PlacesFinite, FS_AddElement
    <3>3. CountsExact' /\ IdleExact'
      BY <1>1, <1>3, <2>2, <3>1, <3>2, PlacesFinite DEF IInv, TypeOK, CountsExact, IdleExact
    <3>4. SizeWithinBounds'
      BY <1>1, <2>2 DEF IInv, TypeOK, SizeWithinBounds, Grow
    <3>5. Unborn'
      BY <2>2 DEF IInv, TypeOK, Unborn, Ids
    <3>6. QED
      BY <1>1, <2>2, <3>3, <3>4, <3>5 DEF IInv, TypeOK
  <2>3. QED
    BY <1>4, <2>1, <2>2
<1>7. TypeOK'
  <2>1. fullAt' \in [Users -> Nat]
    BY <1>2 DEF IInv, TypeOK
  <2>2. /\ user' \in [Users -> {"out", "waiting", "woken", "timedout"}]
        /\ call' \in [Users -> Tasks \cup {NoTask}]
        /\ \A v \in Users : user'[v] # "out" => call'[v] \in Tasks
        /\ returned' \in [Tasks -> {"none", "valid", "invalid"}]
    BY <1>2 DEF IInv, TypeOK
  <2>3. /\ pc' \in [Ids -> LivePC \cup {"none", "exited", "reclaimed"}]
        /\ lastTime' \in [Ids -> Nat]
    BY <1>4
  <2>4. taskSize' \in Nat
    BY <1>1 DEF IInv, TypeOK
  <2>5. QED
    BY <1>1, <1>3, <1>6, <2>1, <2>2, <2>3, <2>4 DEF IInv, TypeOK, OwnerStates
<1>8. NoSleepOverTasks' /\ NoSleepThroughShutdown'
  BY <1>4 DEF NoSleepOverTasks, NoSleepThroughShutdown
<1>9. NoSleepOverRoom'
  BY <1>1, <1>2, <1>3 DEF IInv, TypeOK, NoSleepOverRoom
<1>10. OwnerPhase' /\ WorkersRemain'
  BY <1>1, <1>6 DEF IInv, OwnerPhase, WorkersRemain, NobodyInSubmit
<1>11. NothingLost'
  <2> SUFFICES ASSUME NEW x \in Tasks, returned'[x] = "valid"
               PROVE  (\E i \in 1..Len(tasks') : tasks'[i] = x) \/ RunBy(x)' # {} \/ executed'[x] > 0
    BY DEF NothingLost
  <2>1. CASE x = t
    <3>1. Len(tasks) + 1 \in 1..Len(tasks')
      BY <1>3
    <3>2. QED
      BY <2>1, <3>1, <1>3
  <2>2. CASE x # t
    <3>1. returned[x] = "valid"
      BY <2>2, <1>2 DEF IInv, TypeOK
    <3>2. \A i \in 1..Len(tasks) : i \in 1..Len(tasks')
      BY <1>3
    <3>3. QED
      BY <3>1, <3>2, <1>1, <1>3, <1>5 DEF IInv, NothingLost
  <2>3. QED
    BY <2>1, <2>2
<1>12. QED
  BY <1>6, <1>7, <1>8, <1>9, <1>10, <1>11 DEF IInv
-----------------------------------------------------------------------------
(* The invariance theorem and what follows from it. *)

\* Every step of the specification preserves the inductive invariant.
LEMMA StepIInv ==
  ASSUME 0 \notin InitSizes
  PROVE  IInv /\ [Next]_vars => IInv'
<1> SUFFICES ASSUME IInv, [Next]_vars PROVE IInv'
  OBVIOUS
<1>1. CASE OwnerCall
  BY <1>1, ConfigStep, StartCreateStep, OwnerMoves DEF OwnerCall
<1>2. CASE OwnerStep
  BY <1>2, StartThreadStep, OwnerMoves, DestroyNotifyStep DEF OwnerStep
<1>3. ASSUME NEW u \in Users, UserCall(u)
      PROVE  IInv'
  <2>1. CASE \E t \in Tasks : Submit(u, t)
    BY <2>1, EnqueueStep DEF Submit
  <2>2. CASE \E t \in Tasks : SubmitWait(u, t)
    BY <2>2, UserMoves
  <2>3. QED
    BY <1>3, <2>1, <2>2 DEF UserCall
<1>4. ASSUME NEW u \in Users, UserStep(u)
      PROVE  IInv'
  <2>1. CASE SubmitResume(u)
    <3>1. call[u] \in Tasks /\ owner = "running"
      BY <2>1 DEF SubmitResume, IInv, TypeOK, OwnerPhase, NobodyInSubmit
    <3>2. QED
      BY <2>1, <3>1, EnqueueStep DEF SubmitResume
  <2>2. QED
    BY <1>4, <2>1, UserMoves DEF UserStep
<1>5. ASSUME NEW w \in Ids, WorkerStep(w)
      PROVE  IInv'
  BY <1>5, ReclaimStep, ExitStep, IdleMoves, TakeStep, ExecStep, BackToIdleStep DEF WorkerStep
<1>6. CASE Environment
  BY <1>6, IdleMoves, UserMoves, OwnerMoves, ClockStep DEF Environment
<1>7. CASE Terminated \/ UNCHANGED vars
  BY <1>7, ClockStep DEF Terminated
<1>8. QED
  BY <1>1, <1>2, <1>3, <1>4, <1>5, <1>6, <1>7 DEF Next

\* IInv is an invariant of the pool.
THEOREM Invariance ==
  ASSUME 0 \notin InitSizes
  PROVE  Spec => []IInv
BY InitIInv, StepIInv, PTL DEF Spec

\* Every variable keeps its type; no counter goes below zero.
THEOREM TypeCorrect ==
  ASSUME 0 \notin InitSizes
  PROVE  Spec => []TypeOK
<1>1. IInv => TypeOK
  BY DEF IInv
<1>2. QED
  BY <1>1, Invariance, PTL

\* The three counters kept by hand are exact in every state.
THEOREM CountersCorrect ==
  ASSUME 0 \notin InitSizes
  PROVE  Spec => [](CountsExact /\ IdleExact)
<1>1. IInv => CountsExact /\ IdleExact
  BY DEF IInv
<1>2. QED
  BY <1>1, Invariance, PTL

\* The number of threads stays between its bounds as long as the pool runs.
THEOREM SizeCorrect ==
  ASSUME 0 \notin InitSizes
  PROVE  Spec => []SizeWithinBounds
<1>1. IInv => SizeWithinBounds
  BY DEF IInv
<1>2. QED
  BY <1>1, Invariance, PTL

\* No wake-up of a worker is lost on notEmpty_, at shutdown either.
THEOREM NoLostWakeup ==
  ASSUME 0 \notin InitSizes
  PROVE  Spec => [](NoSleepOverTasks /\ NoSleepThroughShutdown)
<1>1. IInv => NoSleepOverTasks /\ NoSleepThroughShutdown
  BY DEF IInv
<1>2. QED
  BY <1>1, Invariance, PTL

\* No wake-up of a caller of submitTask is lost on notFull_.
THEOREM NoLostWakeupOfCallers ==
  ASSUME 0 \notin InitSizes
  PROVE  Spec => []NoSleepOverRoom
<1>1. IInv => NoSleepOverRoom
  BY DEF IInv
<1>2. QED
  BY <1>1, Invariance, PTL

\* The destructor never sleeps without a worker that will wake it, and no
\* worker outlives it.
THEOREM DestructorSafe ==
  ASSUME 0 \notin InitSizes
  PROVE  Spec => [](DtorNeverStranded /\ NoUseAfterDestroy)
<1>1. IInv => DtorNeverStranded /\ NoUseAfterDestroy
  <2> SUFFICES ASSUME IInv PROVE DtorNeverStranded /\ NoUseAfterDestroy
    OBVIOUS
  <2>1. Live = {} <=> curThreadSize = 0
    BY PlacesFinite, FS_EmptySet DEF IInv, CountsExact
  <2>2. QED
    BY <2>1 DEF IInv, TypeOK, WorkersRemain, DtorNeverStranded, NoUseAfterDestroy
<1>2. QED
  BY <1>1, Invariance, PTL

\* When the destructor has returned, every accepted task has been run.
THEOREM DestroyDrains ==
  ASSUME 0 \notin InitSizes
  PROVE  Spec => []DrainedAtDestroy
<1>1. IInv => DrainedAtDestroy
  <2> SUFFICES ASSUME IInv, owner = "destroyed", NEW t \in Tasks, returned[t] = "valid"
               PROVE  executed[t] > 0
    BY DEF DrainedAtDestroy
  <2>1. curThreadSize = 0 /\ tasks = <<>>
    BY DEF IInv, TypeOK, WorkersRemain
  <2>2. Live = {}
    BY <2>1, PlacesFinite, FS_EmptySet DEF IInv, CountsExact
  <2>3. RunBy(t) = {}
    BY <2>2 DEF RunBy, Live, LivePC, BusyPC
  <2>4. ~ \E i \in 1..Len(tasks) : tasks[i] = t
    BY <2>1
  <2>5. QED
    BY <2>3, <2>4 DEF IInv, NothingLost
<1>2. QED
  BY <1>1, Invariance, PTL

\* No worker's entry is erased while start() walks threads_ without the lock.
THEOREM StartNotDisturbed ==
  ASSUME 0 \notin InitSizes
  PROVE  Spec => NoEraseDuringStart
<1> DEFINE Kept == owner = "starting" => threads \subseteq threads'
<1>1. ASSUME IInv, Next, owner = "starting" PROVE threads \subseteq threads'
  <2>1. curThreadSize = initThreadSize /\ isPoolRunning /\ curThreadSize \in Nat
    BY <1>1 DEF IInv, OwnerPhase, TypeOK
  <2>2. ASSUME NEW w \in Ids, WorkerStep(w) PROVE threads \subseteq threads'
    <3>1. ~Reclaim(w)
      <4>1. ~(curThreadSize > initThreadSize)
        BY <2>1
      <4>2. QED
        BY <4>1 DEF Reclaim, Reclaimable
    <3>2. ~Exit(w)
      BY <2>1 DEF Exit, MayExit
    <3>3. QED
      BY <2>2, <3>1, <3>2 DEF WorkerStep, Wait, Take, Exec, BackToIdle
  <2>3. ASSUME NEW u \in Users, UserCall(u) \/ UserStep(u) PROVE threads \subseteq threads'
    BY <2>3 DEF UserCall, UserStep, Submit, SubmitWait, SubmitResume, SubmitRetry, SubmitReject, Enqueue
  <2>4. CASE OwnerCall \/ OwnerStep \/ Environment \/ Terminated
    BY <2>4 DEF OwnerCall, SetMode, SetTaskQueMaxThreshHold, SetThreadSizeMaxThreshHold, StartCreate,
       Destroy, OwnerStep, StartThread, StartReturn, DestroyNotify, DestroyWoken, Environment,
       WorkerTimeout, SpuriousWorker, UserTimeout, SpuriousUser, SpuriousOwner, Tick, Terminated, vars
  <2>5. QED
    BY <1>1, <2>2, <2>3, <2>4 DEF Next
<1>2. IInv /\ [Next]_vars => [Kept]_vars
  BY <1>1
<1>3. QED
  BY <1>2, Invariance, PTL DEF Spec, NoEraseDuringStart

-----------------------------------------------------------------------------
(* The pool runs every accepted task once, on one worker, in the order of     *)
(* the queue, and so implements the safety part of WorkQueue.  All that        *)
(* matters here of a step is what it does with tasks: it accepts one, refuses  *)
(* one, begins one, finishes one, or leaves them alone.                        *)

HIDE PoolAssumption

Runs(w) == pc[w] = "executing"

\* Worker w goes on with what it was doing.
Stays(w) == (Runs(w)' <=> Runs(w)) /\ (Runs(w) => task'[w] = task[w])

AllStay == \A w \in Ids : Stays(w)

LeavesTasksAlone == UNCHANGED <<tasks, executed, returned>> /\ AllStay

Accepts(t) ==
  /\ owner = "running" /\ owner' = owner /\ returned[t] = "none"
  /\ tasks' = Append(tasks, t)
  /\ returned' = [returned EXCEPT ![t] = "valid"]
  /\ UNCHANGED executed /\ AllStay

Refuses(t) ==
  /\ owner = "running" /\ owner' = owner /\ returned[t] = "none"
  /\ returned' = [returned EXCEPT ![t] = "invalid"]
  /\ UNCHANGED <<tasks, executed>> /\ AllStay

Begins(w) ==
  /\ tasks # <<>> /\ ~Runs(w) /\ owner' = owner
  /\ tasks' = Tail(tasks)
  /\ Runs(w)' /\ task'[w] = Head(tasks)
  /\ \A v \in Ids \ {w} : Stays(v)
  /\ UNCHANGED <<executed, returned>>

Finishes(w) ==
  /\ Runs(w) /\ ~Runs(w)' /\ owner' = owner
  /\ executed' = [executed EXCEPT ![task[w]] = @ + 1]
  /\ \A v \in Ids \ {w} : Stays(v)
  /\ UNCHANGED <<tasks, returned>>

-----------------------------------------------------------------------------
(* Where a task is. *)

\* A queued task is in one place of the queue, accepted, and has not begun.
QueuedOnce ==
  \A i \in 1..Len(tasks) :
    /\ returned[tasks[i]] = "valid" /\ executed[tasks[i]] = 0
    /\ \A j \in 1..Len(tasks) : tasks[j] = tasks[i] => j = i
    /\ \A w \in Ids : Runs(w) => task[w] # tasks[i]

\* A task that runs does so on one worker, and has not run before.
RunsOnce ==
  \A w \in Ids : Runs(w) =>
    /\ task[w] \in Tasks /\ returned[task[w]] = "valid" /\ executed[task[w]] = 0
    /\ \A v \in Ids : Runs(v) /\ task[v] = task[w] => v = w

RanOnce == \A t \in Tasks : executed[t] > 0 => executed[t] = 1 /\ returned[t] = "valid"

\* Callers inside submitTask bring different tasks, none of them answered yet.
CallsApart ==
  \A u \in Users :
    /\ user[u] = "out" => call[u] = NoTask
    /\ user[u] # "out" => returned[call[u]] = "none"
                          /\ \A v \in Users : call[v] = call[u] => v = u

Once == QueuedOnce /\ RunsOnce /\ RanOnce

-----------------------------------------------------------------------------
(* What steps do with tasks. *)

\* notify_all leaves those that run running.
LEMMA NotifiedStay ==
  ASSUME IInv, NEW w \in Ids
  PROVE  /\ NotifyAll(pc)[w] = "executing" <=> pc[w] = "executing"
         /\ w \in DOMAIN NotifyAll(pc)
BY NotifyAllWorkers DEF IInv, TypeOK, NotifyAll

LEMMA EnqueueAccepts ==
  ASSUME IInv, NEW t \in Tasks, owner = "running", returned[t] = "none",
         Enqueue(t), returned' = [returned EXCEPT ![t] = "valid"]
  PROVE  Accepts(t)
<1>1. tasks' = Append(tasks, t) /\ UNCHANGED <<owner, executed, task>>
  BY DEF Enqueue
<1>2. ASSUME NEW w \in Ids PROVE Stays(w)
  <2>1. CASE Grow
    <3>1. pc' = [NotifyAll(pc) EXCEPT ![generateId] = "ready"] /\ generateId \in Ids
      BY <2>1 DEF Enqueue
    <3>2. pc[generateId] = "none"
      BY <3>1 DEF IInv, TypeOK, Unborn
    <3>3. QED
      BY <1>1, <3>1, <3>2, NotifiedStay DEF Stays, Runs
  <2>2. CASE ~Grow
    <3>1. pc' = NotifyAll(pc)
      BY <2>2 DEF Enqueue
    <3>2. QED
      BY <1>1, <3>1, NotifiedStay DEF Stays, Runs
  <2>3. QED
    BY <2>1, <2>2
<1>3. QED
  BY <1>1, <1>2 DEF Accepts, AllStay

\* A caller's step accepts its task, refuses it, or leaves all tasks alone.
LEMMA UserEffect ==
  ASSUME IInv, CallsApart, NEW u \in Users,
         UserCall(u) \/ UserStep(u) \/ UserTimeout(u) \/ SpuriousUser(u)
  PROVE  \/ LeavesTasksAlone /\ owner' = owner
         \/ \E t \in Tasks : Accepts(t) \/ Refuses(t)
<1>1. ASSUME NEW t \in Tasks, Submit(u, t) PROVE Accepts(t)
  BY <1>1, EnqueueAccepts DEF Submit
<1>2. ASSUME user[u] # "out"
      PROVE  owner = "running" /\ call[u] \in Tasks /\ returned[call[u]] = "none"
  BY <1>2 DEF IInv, TypeOK, OwnerPhase, NobodyInSubmit, CallsApart
<1>3. CASE SubmitResume(u)
  <2>1. user[u] # "out"
    BY <1>3 DEF SubmitResume
  <2>2. Accepts(call[u])
    BY <1>2, <1>3, <2>1, EnqueueAccepts DEF SubmitResume
  <2>3. QED
    BY <1>2, <2>1, <2>2
<1>4. CASE SubmitReject(u)
  <2>1. user[u] # "out"
    BY <1>4 DEF SubmitReject
  <2>2. Refuses(call[u])
    BY <1>2, <1>4, <2>1 DEF SubmitReject, Refuses, AllStay, Stays, Runs
  <2>3. QED
    BY <1>2, <2>1, <2>2
<1>5. ASSUME NEW t \in Tasks, SubmitWait(u, t) PROVE LeavesTasksAlone /\ owner' = owner
  BY <1>5 DEF SubmitWait, LeavesTasksAlone, AllStay, Stays, Runs
<1>6. CASE SubmitRetry(u) \/ UserTimeout(u) \/ SpuriousUser(u)
  BY <1>6 DEF SubmitRetry, UserTimeout, SpuriousUser, LeavesTasksAlone, AllStay, Stays, Runs
<1>7. QED
  BY <1>1, <1>3, <1>4, <1>5, <1>6 DEF UserCall, UserStep

\* A worker's step begins its next task, finishes its own, or leaves all alone.
LEMMA WorkerEffect ==
  ASSUME IInv, NEW w \in Ids,
         WorkerStep(w) \/ WorkerTimeout(w) \/ SpuriousWorker(w)
  PROVE  \/ LeavesTasksAlone /\ (owner' = "destroyed" <=> owner = "destroyed")
         \/ Begins(w)
         \/ Finishes(w)
<1>1. pc \in [Ids -> LivePC \cup {"none", "exited", "reclaimed"}] /\ task \in [Ids -> Tasks \cup {NoTask}]
  BY DEF IInv, TypeOK
<1>2. CASE Reclaim(w)
  BY <1>1, <1>2 DEF Reclaim, LeavesTasksAlone, AllStay, Stays, Runs
<1>3. CASE Exit(w)
  <2>1. owner' = "destroyed" <=> owner = "destroyed"
    BY <1>3 DEF Exit, OwnerAfterExit
  <2>2. pc[w] # "executing"
    BY <1>3 DEF Exit, MayExit, AtLoopTest
  <2>3. QED
    BY <1>1, <1>3, <2>1, <2>2 DEF Exit, LeavesTasksAlone, AllStay, Stays, Runs
<1>4. CASE Wait(w)
  BY <1>1, <1>4 DEF Wait, AtLoopTest, LeavesTasksAlone, AllStay, Stays, Runs
<1>5. CASE Take(w)
  <2>1. pc[w] # "executing" /\ tasks # <<>>
    BY <1>5 DEF Take, AtLoopTest, IInv, TypeOK, CountsExact
  <2>2. /\ task' = [task EXCEPT ![w] = Head(tasks)] /\ tasks' = Tail(tasks)
        /\ UNCHANGED <<owner, executed, returned>>
        /\ \/ pc' = [NotifyAll(pc) EXCEPT ![w] = "executing"]
           \/ pc' = [pc EXCEPT ![w] = "executing"]
    BY <1>5 DEF Take
  <2>3. pc'[w] = "executing" /\ \A v \in Ids \ {w} : pc'[v] = "executing" <=> pc[v] = "executing"
    BY <1>1, <2>2, NotifiedStay
  <2>4. QED
    BY <1>1, <2>1, <2>2, <2>3 DEF Begins, Stays, Runs
<1>6. CASE Exec(w)
  BY <1>1, <1>6 DEF Exec, Finishes, Stays, Runs
<1>7. CASE BackToIdle(w)
  BY <1>1, <1>7 DEF BackToIdle, LeavesTasksAlone, AllStay, Stays, Runs
<1>8. CASE WorkerTimeout(w) \/ SpuriousWorker(w)
  BY <1>1, <1>8 DEF WorkerTimeout, SpuriousWorker, LeavesTasksAlone, AllStay, Stays, Runs
<1>9. QED
  BY <1>2, <1>3, <1>4, <1>5, <1>6, <1>7, <1>8 DEF WorkerStep

\* The owner leaves all tasks alone, and closes the pool only when it is empty.
LEMMA OwnerEffect ==
  ASSUME IInv, owner # "destroyed", OwnerCall \/ OwnerStep \/ SpuriousOwner \/ Tick
  PROVE  /\ LeavesTasksAlone
         /\ owner' = "destroyed" => tasks = <<>> /\ \A w \in Ids : ~Runs(w)
<1>1. pc \in [Ids -> LivePC \cup {"none", "exited", "reclaimed"}]
  BY DEF IInv, TypeOK
<1>2. curThreadSize = 0 => tasks = <<>> /\ \A w \in Ids : ~Runs(w)
  <2>1. SUFFICES ASSUME curThreadSize = 0 PROVE tasks = <<>> /\ \A w \in Ids : ~Runs(w)
    OBVIOUS
  <2>2. Live = {}
    BY <2>1, PlacesFinite, FS_EmptySet DEF IInv, CountsExact
  <2>3. QED
    BY <2>1, <2>2 DEF IInv, WorkersRemain, Live, Runs, LivePC, BusyPC
<1>3. ASSUME NEW n \in InitSizes, StartCreate(n) PROVE LeavesTasksAlone /\ owner' # "destroyed"
  <2>1. \A w \in Ids : pc[w] # "executing" /\ pc'[w] # "executing"
    BY <1>1, <1>3 DEF StartCreate, IInv, OwnerPhase, Live, LivePC, BusyPC
  <2>2. QED
    BY <1>3, <2>1 DEF StartCreate, LeavesTasksAlone, AllStay, Stays, Runs
<1>4. CASE StartThread
  <2>1. UNCHANGED <<tasks, executed, returned, task>> /\ owner' # "destroyed"
    BY <1>4 DEF StartThread
  <2>2. \/ UNCHANGED pc
        \/ started \in Ids /\ pc[started] = "created" /\ pc' = [pc EXCEPT ![started] = "ready"]
    BY <1>4 DEF StartThread, IInv, TypeOK, OwnerPhase
  <2>3. QED
    BY <1>1, <2>1, <2>2 DEF LeavesTasksAlone, AllStay, Stays, Runs
<1>5. CASE DestroyNotify
  <2>1. UNCHANGED <<tasks, executed, returned, task>> /\ pc' = NotifyAll(pc)
        /\ (owner' = "destroyed" => curThreadSize = 0)
    BY <1>5 DEF DestroyNotify, AwaitExit
  <2>2. QED
    BY <1>2, <2>1, NotifiedStay DEF LeavesTasksAlone, AllStay, Stays, Runs
<1>6. CASE DestroyWoken
  <2>1. UNCHANGED <<tasks, executed, returned, task, pc>> /\ (owner' = "destroyed" => curThreadSize = 0)
    BY <1>6 DEF DestroyWoken, AwaitExit
  <2>2. QED
    BY <1>2, <2>1 DEF LeavesTasksAlone, AllStay, Stays, Runs
<1>7. ASSUME \/ \E m \in Modes : SetMode(m)
             \/ \E n \in TaskLimits : SetTaskQueMaxThreshHold(n)
             \/ \E n \in ThreadLimits : SetThreadSizeMaxThreshHold(n)
             \/ Destroy \/ StartReturn \/ SpuriousOwner \/ Tick
      PROVE  LeavesTasksAlone /\ owner' # "destroyed"
  BY <1>7 DEF SetMode, SetTaskQueMaxThreshHold, SetThreadSizeMaxThreshHold, Destroy, StartReturn,
              SpuriousOwner, Tick, LeavesTasksAlone, AllStay, Stays, Runs
<1>8. QED
  BY <1>3, <1>4, <1>5, <1>6, <1>7 DEF OwnerCall, OwnerStep

\* Every step does one of five things with tasks.
LEMMA StepEffect ==
  ASSUME IInv, CallsApart, [Next]_vars
  PROVE  \/ /\ LeavesTasksAlone
            /\ owner' = "destroyed" /\ owner # "destroyed" => tasks = <<>> /\ \A w \in Ids : ~Runs(w)
            /\ owner = "destroyed" => owner' = "destroyed"
         \/ \E t \in Tasks : Accepts(t) \/ Refuses(t)
         \/ \E w \in Ids : Begins(w) \/ Finishes(w)
<1>1. CASE Running /\ (OwnerCall \/ OwnerStep \/ SpuriousOwner \/ Tick)
  BY <1>1, OwnerEffect DEF Running
<1>2. CASE \E u \in Users : UserCall(u) \/ UserStep(u) \/ UserTimeout(u) \/ SpuriousUser(u)
  BY <1>2, UserEffect
<1>3. CASE \E w \in Ids : WorkerStep(w) \/ WorkerTimeout(w) \/ SpuriousWorker(w)
  BY <1>3, WorkerEffect
<1>4. CASE UNCHANGED vars
  BY <1>4 DEF vars, LeavesTasksAlone, AllStay, Stays, Runs
<1>5. QED
  BY <1>1, <1>2, <1>3, <1>4 DEF Next, Environment, Terminated

-----------------------------------------------------------------------------
(* Once is kept, and so are the callers apart. *)

LEMMA TasksAloneKeeps ==
  ASSUME IInv, Once, LeavesTasksAlone
  PROVE  Once'
<1>1. /\ UNCHANGED <<tasks, executed, returned>>
      /\ \A w \in Ids : (Runs(w)' <=> Runs(w)) /\ (Runs(w) => task'[w] = task[w])
  BY DEF LeavesTasksAlone, AllStay, Stays
<1>2. QueuedOnce'
  BY <1>1 DEF Once, QueuedOnce
<1>3. RunsOnce'
  BY <1>1 DEF Once, RunsOnce
<1>4. RanOnce'
  BY <1>1 DEF Once, RanOnce
<1>5. QED
  BY <1>2, <1>3, <1>4 DEF Once

LEMMA AcceptKeeps ==
  ASSUME IInv, Once, NEW t \in Tasks, Accepts(t)
  PROVE  Once'
<1>1. /\ tasks \in Seq(Tasks) /\ returned \in [Tasks -> {"none", "valid", "invalid"}]
      /\ executed \in [Tasks -> Nat]
  BY DEF IInv, TypeOK
<1>2. /\ Len(tasks') = Len(tasks) + 1 /\ Len(tasks) \in Nat /\ tasks'[Len(tasks) + 1] = t
      /\ \A i \in 1..Len(tasks) : tasks'[i] = tasks[i]
  BY <1>1 DEF Accepts
<1>3. /\ \A i \in 1..Len(tasks) : tasks[i] # t
      /\ \A w \in Ids : Runs(w) => task[w] # t
      /\ executed[t] = 0
  BY <1>1 DEF Once, QueuedOnce, RunsOnce, RanOnce, Accepts
<1>4. QueuedOnce'
  <2>1. ASSUME NEW i \in 1..Len(tasks')
        PROVE  /\ returned'[tasks'[i]] = "valid" /\ executed'[tasks'[i]] = 0
               /\ \A j \in 1..Len(tasks') : tasks'[j] = tasks'[i] => j = i
               /\ \A w \in Ids : Runs(w)' => task'[w] # tasks'[i]
    <3>1. CASE i = Len(tasks) + 1
      <4>1. tasks'[i] = t /\ returned'[t] = "valid" /\ executed'[t] = 0
        BY <1>1, <1>2, <1>3, <3>1 DEF Accepts
      <4>2. \A j \in 1..Len(tasks') : tasks'[j] = t => j = i
        BY <1>2, <1>3, <3>1
      <4>3. \A w \in Ids : Runs(w)' => task'[w] # t
        BY <1>3 DEF Accepts, AllStay, Stays
      <4>4. QED
        BY <4>1, <4>2, <4>3
    <3>2. CASE i \in 1..Len(tasks)
      BY <1>1, <1>2, <1>3, <3>2 DEF Once, QueuedOnce, Accepts, AllStay, Stays
    <3>3. QED
      BY <1>2, <3>1, <3>2
  <2>2. QED
    BY <2>1 DEF QueuedOnce
<1>5. RunsOnce' /\ RanOnce'
  BY <1>1, <1>3 DEF Once, RunsOnce, RanOnce, Accepts, AllStay, Stays
<1>6. QED
  BY <1>4, <1>5 DEF Once

LEMMA RefuseKeeps ==
  ASSUME IInv, Once, NEW t \in Tasks, Refuses(t)
  PROVE  Once'
<1>1. /\ tasks \in Seq(Tasks) /\ returned \in [Tasks -> {"none", "valid", "invalid"}]
  BY DEF IInv, TypeOK
<1>2. UNCHANGED tasks /\ AllStay /\ UNCHANGED executed
  BY DEF Refuses
<1>3. \A s \in Tasks : returned[s] = "valid" => returned'[s] = "valid"
  BY <1>1 DEF Refuses
<1>4. \A i \in 1..Len(tasks) : tasks[i] \in Tasks
  BY <1>1
<1>5. QED
  BY <1>2, <1>3, <1>4 DEF Once, QueuedOnce, RunsOnce, RanOnce, AllStay, Stays

LEMMA BeginKeeps ==
  ASSUME IInv, Once, NEW w \in Ids, Begins(w)
  PROVE  Once'
<1>1. tasks \in Seq(Tasks) /\ tasks # <<>>
  BY DEF IInv, TypeOK, Begins
<1>2. /\ Len(tasks) \in Nat /\ Len(tasks') = Len(tasks) - 1 /\ 1 \in 1..Len(tasks)
      /\ \A i \in 1..Len(tasks') : tasks'[i] = tasks[i + 1] /\ i + 1 \in 1..Len(tasks) /\ i + 1 # 1
      /\ task'[w] = tasks[1] /\ tasks[1] \in Tasks
  BY <1>1 DEF Begins
<1>3. /\ returned[tasks[1]] = "valid" /\ executed[tasks[1]] = 0
      /\ \A i \in 1..Len(tasks) : tasks[i] = tasks[1] => i = 1
      /\ \A v \in Ids : Runs(v) => task[v] # tasks[1]
  BY <1>2 DEF Once, QueuedOnce
<1>4. UNCHANGED <<executed, returned>> /\ \A v \in Ids \ {w} : Stays(v)
  BY DEF Begins
<1>5. QueuedOnce'
  <2>1. ASSUME NEW i \in 1..Len(tasks')
        PROVE  /\ returned[tasks'[i]] = "valid" /\ executed[tasks'[i]] = 0
               /\ \A j \in 1..Len(tasks') : tasks'[j] = tasks'[i] => j = i
               /\ \A v \in Ids : Runs(v)' => task'[v] # tasks'[i]
    <3>1. tasks'[i] = tasks[i + 1] /\ i + 1 \in 1..Len(tasks) /\ tasks[i + 1] # tasks[1]
      BY <1>2, <1>3
    <3>2. returned[tasks'[i]] = "valid" /\ executed[tasks'[i]] = 0
      BY <3>1 DEF Once, QueuedOnce
    <3>3. ASSUME NEW j \in 1..Len(tasks'), tasks'[j] = tasks'[i] PROVE j = i
      <4>1. tasks[j + 1] = tasks[i + 1] /\ j + 1 \in 1..Len(tasks)
        BY <1>2, <3>1, <3>3
      <4>2. j + 1 = i + 1
        BY <3>1, <4>1 DEF Once, QueuedOnce
      <4>3. QED
        BY <1>2, <4>2
    <3>4. ASSUME NEW v \in Ids, Runs(v)' PROVE task'[v] # tasks'[i]
      <4>1. CASE v = w
        BY <1>2, <3>1, <4>1
      <4>2. CASE v # w
        BY <1>4, <3>1, <3>4, <4>2 DEF Stays, Once, QueuedOnce
      <4>3. QED
        BY <4>1, <4>2
    <3>5. QED
      BY <3>2, <3>3, <3>4
  <2>2. QED
    BY <1>4, <2>1 DEF QueuedOnce
<1>6. RunsOnce'
  BY <1>2, <1>3, <1>4 DEF Once, RunsOnce, Begins, Stays
<1>7. RanOnce'
  BY <1>4 DEF Once, RanOnce
<1>8. QED
  BY <1>5, <1>6, <1>7 DEF Once

LEMMA FinishKeeps ==
  ASSUME IInv, Once, NEW w \in Ids, Finishes(w)
  PROVE  Once'
<1>1. /\ tasks \in Seq(Tasks) /\ executed \in [Tasks -> Nat]
      /\ task[w] \in Tasks /\ returned[task[w]] = "valid" /\ executed[task[w]] = 0
      /\ \A v \in Ids : Runs(v) /\ task[v] = task[w] => v = w
      /\ UNCHANGED <<tasks, returned>>
  BY DEF IInv, TypeOK, Finishes, Once, RunsOnce
<1>2. executed'[task[w]] = 1 /\ \A t \in Tasks \ {task[w]} : executed'[t] = executed[t]
  BY <1>1 DEF Finishes
<1>3. ASSUME NEW v \in Ids, Runs(v)' PROVE v # w /\ Runs(v) /\ task'[v] = task[v] /\ task[v] # task[w]
  BY <1>1, <1>3 DEF Finishes, Stays
<1>4. QueuedOnce'
  BY <1>1, <1>2, <1>3 DEF Once, QueuedOnce, Finishes
<1>5. RunsOnce'
  BY <1>1, <1>2, <1>3 DEF Once, RunsOnce
<1>6. RanOnce'
  BY <1>1, <1>2 DEF Once, RanOnce
<1>7. QED
  BY <1>4, <1>5, <1>6 DEF Once

LEMMA CallsApartKeeps == IInv /\ CallsApart /\ [Next]_vars => CallsApart'
<1> SUFFICES ASSUME IInv, CallsApart, [Next]_vars PROVE CallsApart'
  OBVIOUS
<1> USE DEF CallsApart
<1>1. /\ call \in [Users -> Tasks \cup {NoTask}] /\ user \in [Users -> {"out", "waiting", "woken", "timedout"}]
      /\ returned \in [Tasks -> {"none", "valid", "invalid"}] /\ NoTask \notin Tasks
      /\ \A u \in Users : user[u] # "out" => call[u] \in Tasks
  BY PoolAssumption DEF IInv, TypeOK
<1>2. ASSUME NEW u \in Users, NEW t \in Tasks, NEW valid, Return(u, t, valid),
             t = call[u] \/ t \notin {call[v] : v \in Users}
      PROVE  CallsApart'
  BY <1>1, <1>2
<1>3. ASSUME NEW u \in Users, NEW t \in Tasks, SubmitWait(u, t) PROVE CallsApart'
  BY <1>1, <1>3 DEF SubmitWait
<1>4. ASSUME NEW u \in Users, SubmitRetry(u) \/ UserTimeout(u) \/ SpuriousUser(u) PROVE CallsApart'
  BY <1>1, <1>4 DEF SubmitRetry, UserTimeout, SpuriousUser
<1>5. ASSUME NEW u \in Users, SubmitResume(u) \/ SubmitReject(u) PROVE CallsApart'
  <2>1. call[u] \in Tasks
    BY <1>1, <1>5 DEF SubmitResume, SubmitReject
  <2>2. QED
    BY <1>2, <1>5, <2>1 DEF SubmitResume, SubmitReject
<1>6. ASSUME NEW u \in Users, UserCall(u) \/ UserStep(u) PROVE CallsApart'
  BY <1>2, <1>3, <1>4, <1>5, <1>6 DEF UserCall, UserStep, Submit
<1>7. ASSUME UNCHANGED users PROVE CallsApart'
  BY <1>7
<1>8. ASSUME NEW w \in Ids, WorkerStep(w) PROVE CallsApart'
  <2>1. CASE Take(w)
    <3>1. UNCHANGED <<call, returned>> /\ user' = NotifyAll(user)
      BY <2>1 DEF Take
    <3>2. \A u \in Users : user'[u] = "out" <=> user[u] = "out"
      BY <1>1, <3>1 DEF NotifyAll
    <3>3. QED
      BY <3>1, <3>2
  <2>2. CASE ~Take(w)
    BY <1>7, <1>8, <2>2 DEF WorkerStep, Reclaim, Exit, Wait, Exec, BackToIdle
  <2>3. QED
    BY <2>1, <2>2
<1>9. CASE OwnerCall \/ OwnerStep
  BY <1>7, <1>9 DEF OwnerCall, OwnerStep, SetMode, SetTaskQueMaxThreshHold, SetThreadSizeMaxThreshHold,
     StartCreate, Destroy, StartThread, StartReturn, DestroyNotify, DestroyWoken
<1>10. CASE Environment
  BY <1>4, <1>7, <1>10 DEF Environment, WorkerTimeout, SpuriousWorker, SpuriousOwner, Tick
<1>11. CASE UNCHANGED vars
  BY <1>7, <1>11 DEF vars
<1>12. QED
  BY <1>6, <1>8, <1>9, <1>10, <1>11 DEF Next, Terminated

LEMMA OnceStep == IInv /\ Once /\ CallsApart /\ [Next]_vars => Once'
BY StepEffect, TasksAloneKeeps, AcceptKeeps, RefuseKeeps, BeginKeeps, FinishKeeps

LEMMA InitOnce == Init => Once /\ CallsApart
BY DEF Init, Once, QueuedOnce, RunsOnce, RanOnce, CallsApart, Runs

LEMMA OnceAlways ==
  ASSUME 0 \notin InitSizes
  PROVE  Spec => [](IInv /\ Once /\ CallsApart)
BY InitIInv, StepIInv, InitOnce, OnceStep, CallsApartKeeps, PTL DEF Spec

-----------------------------------------------------------------------------
(* The theorems. *)

\* No task that submitTask accepted is lost, none is run twice, and none that it
\* refused is run, whatever the workers do.
THEOREM TasksRunOnce ==
  ASSUME 0 \notin InitSizes
  PROVE  Spec => []EveryTaskOnce
<1>1. IInv /\ Once => EveryTaskOnce
  <2> SUFFICES ASSUME IInv, Once, NEW t \in Tasks
               PROVE  LET places == Cardinality({i \in 1..Len(tasks) : tasks[i] = t})
                                    + Cardinality(RunBy(t)) + executed[t]
                      IN places = IF returned[t] = "valid" THEN 1 ELSE 0
    BY DEF EveryTaskOnce
  <2> DEFINE Places == {i \in 1..Len(tasks) : tasks[i] = t}
  <2>1. executed[t] \in Nat /\ executed[t] \in {0, 1}
    BY DEF IInv, TypeOK, Once, RanOnce
  <2>2. CASE Places # {}
    <3>1. PICK i \in 1..Len(tasks) : tasks[i] = t
      BY <2>2
    <3>2. returned[t] = "valid" /\ executed[t] = 0 /\ Places = {i} /\ RunBy(t) = {}
      BY <3>1 DEF Once, QueuedOnce, RunBy, Runs
    <3>3. Cardinality(Places) = 1 /\ Cardinality(RunBy(t)) = 0
      BY <3>2, FS_EmptySet, FS_Singleton
    <3>4. QED
      BY <3>2, <3>3
  <2>3. CASE Places = {} /\ RunBy(t) # {}
    <3>1. PICK w \in Ids : Runs(w) /\ task[w] = t
      BY <2>3 DEF RunBy, Runs
    <3>2. returned[t] = "valid" /\ executed[t] = 0 /\ RunBy(t) = {w}
      BY <3>1 DEF Once, RunsOnce, RunBy, Runs
    <3>3. Cardinality(Places) = 0 /\ Cardinality(RunBy(t)) = 1
      BY <2>3, <3>2, FS_EmptySet, FS_Singleton
    <3>4. QED
      BY <3>2, <3>3
  <2>4. CASE Places = {} /\ RunBy(t) = {}
    <3>1. Cardinality(Places) = 0 /\ Cardinality(RunBy(t)) = 0
      BY <2>4, FS_EmptySet
    <3>2. returned[t] = "valid" <=> executed[t] > 0
      BY <2>1, <2>4 DEF IInv, NothingLost, Once, RanOnce
    <3>3. executed[t] = IF returned[t] = "valid" THEN 1 ELSE 0
      BY <2>1, <3>2
    <3>4. QED
      BY <2>1, <3>1, <3>3
  <2>5. QED
    BY <2>2, <2>3, <2>4
<1>2. QED
  BY <1>1, OnceAlways, PTL

\* The refinement mapping: tasks at workers, tasks that ran, tasks turned down.
InHand == {task[w] : w \in {v \in Ids : pc[v] = "executing"}}
Finished == {t \in Tasks : executed[t] > 0}
Refused == {t \in Tasks : returned[t] = "invalid"}

\* What stays as it is, seen through the refinement mapping.
LEMMA StayMaps == AllStay => InHand' = InHand
BY DEF AllStay, Stays, Runs, InHand

LEMMA AcceptMaps ==
  ASSUME IInv, Once, NEW t \in Tasks, Accepts(t)
  PROVE  Contract!Accept(t)
<1>1. /\ returned \in [Tasks -> {"none", "valid", "invalid"}] /\ executed \in [Tasks -> Nat]
      /\ returned[t] = "none"
  BY DEF IInv, TypeOK, Accepts
<1>2. t \notin InHand \cup Finished \cup Refused
  BY <1>1 DEF Once, RunsOnce, RanOnce, Runs, InHand, Finished, Refused
<1>3. \A i \in 1..Len(tasks) : tasks[i] # t
  BY <1>1 DEF Once, QueuedOnce
<1>4. InHand' = InHand /\ Finished' = Finished
  BY StayMaps DEF Accepts, Finished
<1>5. Refused' = Refused
  BY <1>1 DEF Accepts, Refused
<1>6. QED
  BY <1>2, <1>3, <1>4, <1>5 DEF Contract!Accept, Contract!Fresh, Accepts, InHand, Finished, Refused

LEMMA RefuseMaps ==
  ASSUME IInv, Once, NEW t \in Tasks, Refuses(t)
  PROVE  Contract!Refuse(t)
<1>1. /\ returned \in [Tasks -> {"none", "valid", "invalid"}] /\ executed \in [Tasks -> Nat]
      /\ returned[t] = "none"
  BY DEF IInv, TypeOK, Refuses
<1>2. t \notin InHand \cup Finished \cup Refused
  BY <1>1 DEF Once, RunsOnce, RanOnce, Runs, InHand, Finished, Refused
<1>3. \A i \in 1..Len(tasks) : tasks[i] # t
  BY <1>1 DEF Once, QueuedOnce
<1>4. InHand' = InHand /\ Finished' = Finished
  BY StayMaps DEF Refuses, Finished
<1>5. Refused' = Refused \cup {t}
  BY <1>1 DEF Refuses, Refused
<1>6. QED
  BY <1>2, <1>3, <1>4, <1>5 DEF Contract!Refuse, Contract!Fresh, Refuses, InHand, Finished, Refused

LEMMA BeginMaps ==
  ASSUME IInv, Once, NEW w \in Ids, Begins(w)
  PROVE  Contract!Begin
<1>1. InHand' = InHand \cup {Head(tasks)}
  BY DEF Begins, Stays, Runs, InHand
<1>2. Finished' = Finished /\ Refused' = Refused
  BY DEF Begins, Finished, Refused
<1>3. QED
  BY <1>1, <1>2 DEF Contract!Begin, Begins, InHand, Finished, Refused

LEMMA FinishMaps ==
  ASSUME IInv, Once, NEW w \in Ids, Finishes(w), NEW t \in Tasks, t = task[w]
  PROVE  Contract!Finish(t)
<1>1. /\ executed \in [Tasks -> Nat] /\ task[w] \in Tasks
      /\ \A v \in Ids : Runs(v) /\ task[v] = task[w] => v = w
  BY DEF IInv, TypeOK, Finishes, Once, RunsOnce
<1>2. InHand' = InHand \ {task[w]} /\ task[w] \in InHand
  BY <1>1 DEF Finishes, Stays, Runs, InHand
<1>3. Finished' = Finished \cup {task[w]} /\ Refused' = Refused
  BY <1>1 DEF Finishes, Finished, Refused
<1>4. QED
  BY <1>1, <1>2, <1>3 DEF Contract!Finish, Finishes, InHand, Finished, Refused

\* The pool is a queue of work: tasks begin in the order in which they were
\* accepted, each once, and the pool is gone only when all have finished.
THEOREM PoolKeepsOrder ==
  ASSUME 0 \notin InitSizes
  PROVE  Spec => Contract!Safe
<1>1. Init => Contract!Init
  BY DEF Init, Contract!Init
<1>2. IInv /\ Once /\ CallsApart /\ [Next]_vars => [Contract!Next]_Contract!vars
  <2> SUFFICES ASSUME IInv, Once, CallsApart, [Next]_vars PROVE [Contract!Next]_Contract!vars
    OBVIOUS
  <2>1. ASSUME NEW t \in Tasks, Accepts(t) \/ Refuses(t) PROVE Contract!Next
    BY <2>1, AcceptMaps, RefuseMaps DEF Contract!Next
  <2>2. ASSUME NEW w \in Ids, Begins(w) \/ Finishes(w) PROVE Contract!Next
    <3>1. CASE Begins(w)
      BY <3>1, BeginMaps DEF Contract!Next
    <3>2. CASE Finishes(w)
      <4>1. task[w] \in Tasks
        BY <3>2 DEF Finishes, Once, RunsOnce
      <4>2. PICK t \in Tasks : t = task[w]
        BY <4>1
      <4>3. Contract!Finish(t)
        BY <3>2, <4>2, FinishMaps
      <4>4. QED
        BY <4>3 DEF Contract!Next
    <3>3. QED
      BY <2>2, <3>1, <3>2
  <2>3. ASSUME LeavesTasksAlone,
               owner' = "destroyed" /\ owner # "destroyed" => tasks = <<>> /\ \A w \in Ids : ~Runs(w),
               owner = "destroyed" => owner' = "destroyed"
        PROVE  Contract!Close \/ UNCHANGED Contract!vars
    <3>1. InHand' = InHand /\ Finished' = Finished /\ Refused' = Refused /\ UNCHANGED tasks
      BY <2>3, StayMaps DEF LeavesTasksAlone, Finished, Refused
    <3>2. CASE owner' = "destroyed" /\ owner # "destroyed"
      <4>1. InHand = {} /\ tasks = <<>>
        BY <2>3, <3>2 DEF InHand, Runs
      <4>2. QED
        BY <3>1, <3>2, <4>1 DEF Contract!Close, InHand, Finished, Refused
    <3>3. CASE (owner' = "destroyed") = (owner = "destroyed")
      BY <3>1, <3>3 DEF Contract!vars, InHand, Finished, Refused
    <3>4. QED
      BY <2>3, <3>2, <3>3
  <2>4. QED
    BY <2>1, <2>2, <2>3, StepEffect DEF Contract!Next
<1>3. QED
  BY <1>1, <1>2, OnceAlways, PTL DEF Spec, Contract!Safe
=============================================================================
