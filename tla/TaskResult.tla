----------------------------- MODULE TaskResult -----------------------------
(***************************************************************************)
(* How a value travels from a worker to the thread that submitted the      *)
(* task: Task, Result and the Semaphore inside Result.  A Task keeps a     *)
(* plain pointer to one Result; the Result lives in the frame of the       *)
(* caller of submitTask.                                                   *)
(*                                                                         *)
(* The pool appears as the bag of tasks it has accepted and not begun, and *)
(* as workers; ThreadPool models it.  A Result is built and bound to its   *)
(* task under the pool's lock, so submitting is one step here.             *)
(*                                                                         *)
(* Two things the code leaves open are left open here as well: the count   *)
(* that rescLimit_ begins with, which no constructor sets, and whether a   *)
(* caller asks a Result for its value before it drops it.                  *)
(***************************************************************************)
EXTENDS Integers, FiniteSets

CONSTANTS
  Tasks, NoTask,
  Results, NoResult,     \* the Result objects, one per call of submitTask
  Workers,
  SemInit                \* what rescLimit_, which nothing initialises, may hold at first

ASSUME ResultAssumption ==
  /\ NoTask \notin Tasks /\ NoResult \notin Results
  /\ SemInit \subseteq Int       \* an int; that ++ may pass INT_MAX is left out

Empty == NoTask          \* an Any without a value; the value of a task is the task
Nothing == "nothing"     \* the "" that get() returns for a refused task

VARIABLES
  result,                \* Task::result_
  life,                  \* Results: unborn, alive, dead
  boundTo, isValid,      \* Result::task_, Result::isValid_
  any, rescLimit,        \* Result::any_, Result::sem_
  first,                 \* what each Result's rescLimit_ held at first (history)
  get, got,              \* each Result's reader: where it is, what it was given
  queued,                \* how often each task is in the pool's queue
  pc, task, target,      \* each worker, its task, the Result it writes to
  dangling               \* the dead Results that workers have written to (history)

client == <<life, boundTo, isValid, first, get, got>>
worker == <<pc, task, target>>
value  == <<any, rescLimit>>
vars   == <<result, client, value, queued, worker, dangling>>

Init ==
  /\ result = [t \in Tasks |-> NoResult]
  /\ life = [r \in Results |-> "unborn"]
  /\ boundTo = [r \in Results |-> NoTask]
  /\ isValid = [r \in Results |-> FALSE]
  /\ any = [r \in Results |-> Empty]
  /\ rescLimit = [r \in Results |-> 0]
  /\ first = [r \in Results |-> 0]
  /\ get = [r \in Results |-> "out"]
  /\ got = [r \in Results |-> Empty]
  /\ queued = [t \in Tasks |-> 0]
  /\ pc = [w \in Workers |-> "idle"]
  /\ task = [w \in Workers |-> NoTask]
  /\ target = [w \in Workers |-> NoResult]
  /\ dangling = {}

\* The pool holds t: in its queue or in the hands of a worker.
InPool(t) == queued[t] > 0 \/ \E w \in Workers : task[w] = t

-----------------------------------------------------------------------------
(* The thread that submits. *)

\* Mutant: the second argument of Result(sp, false) is forgotten.
BindAccepted(r, t, valid) ==
  /\ life' = [life EXCEPT ![r] = "alive"]
  /\ boundTo' = [boundTo EXCEPT ![r] = t]
  /\ isValid' = [isValid EXCEPT ![r] = TRUE]
  /\ result' = [result EXCEPT ![t] = r]
  /\ \E n \in SemInit : rescLimit' = [rescLimit EXCEPT ![r] = n] /\ first' = [first EXCEPT ![r] = n]

\* Result::Result: task_->setResult(this), for a refused task as well.
Bind(r, t, valid) ==
  /\ life' = [life EXCEPT ![r] = "alive"]
  /\ boundTo' = [boundTo EXCEPT ![r] = t]
  /\ isValid' = [isValid EXCEPT ![r] = valid]
  /\ result' = [result EXCEPT ![t] = r]
  /\ \E n \in SemInit : rescLimit' = [rescLimit EXCEPT ![r] = n] /\ first' = [first EXCEPT ![r] = n]

\* A caller does not submit a task again while the pool still has it.
Submit(r, t) ==
  /\ life[r] = "unborn"
  /\ ~InPool(t)
  /\ \/ Bind(r, t, TRUE) /\ queued' = [queued EXCEPT ![t] = @ + 1]
     \/ Bind(r, t, FALSE) /\ UNCHANGED queued
  /\ UNCHANGED <<any, get, got, worker, dangling>>

\* get() of a refused task returns at once.
GetRefused(r) ==
  /\ life[r] = "alive" /\ get[r] = "out" /\ ~isValid[r]
  /\ get' = [get EXCEPT ![r] = "done"]
  /\ got' = [got EXCEPT ![r] = Nothing]
  /\ UNCHANGED <<result, life, boundTo, isValid, first, value, queued, worker, dangling>>

GetCall(r) ==
  /\ life[r] = "alive" /\ get[r] = "out" /\ isValid[r]
  /\ get' = [get EXCEPT ![r] = "waiting"]
  /\ UNCHANGED <<result, life, boundTo, isValid, first, got, value, queued, worker, dangling>>

\* Mutant: a wait that does not look at the count.
HasResource(r) == rescLimit[r] >= 0

Available(r) == rescLimit[r] > 0

\* Mutant: the resource is not counted down.
AcquireKept(r) ==
  /\ get[r] = "waiting" /\ Available(r)
  /\ get' = [get EXCEPT ![r] = "taking"]
  /\ UNCHANGED <<result, life, boundTo, isValid, first, got, value, queued, worker, dangling>>

\* sem_.wait()
GetAcquire(r) ==
  /\ get[r] = "waiting" /\ Available(r)
  /\ rescLimit' = [rescLimit EXCEPT ![r] = @ - 1]
  /\ get' = [get EXCEPT ![r] = "taking"]
  /\ UNCHANGED <<result, life, boundTo, isValid, first, got, any, queued, worker, dangling>>

\* return std::move(any_): the pointer inside is copied, ...
GetTake(r) ==
  /\ get[r] = "taking"
  /\ got' = [got EXCEPT ![r] = any[r]]
  /\ get' = [get EXCEPT ![r] = "taken"]
  /\ UNCHANGED <<result, life, boundTo, isValid, first, value, queued, worker, dangling>>

\* ... then cleared.
GetClear(r) ==
  /\ get[r] = "taken"
  /\ any' = [any EXCEPT ![r] = Empty]
  /\ get' = [get EXCEPT ![r] = "done"]
  /\ UNCHANGED <<result, life, boundTo, isValid, first, got, rescLimit, queued, worker, dangling>>

\* The Result goes out of scope: at any time but inside get().
Destroy(r) ==
  /\ life[r] = "alive" /\ get[r] \in {"out", "done"}
  /\ life' = [life EXCEPT ![r] = "dead"]
  /\ UNCHANGED <<result, boundTo, isValid, first, get, got, value, queued, worker, dangling>>

-----------------------------------------------------------------------------
(* The worker: Task::exec. *)

\* The worker has taken t and found result_ not null; run() begins.
Begin(w, t) ==
  /\ pc[w] = "idle" /\ queued[t] > 0
  /\ queued' = [queued EXCEPT ![t] = @ - 1]
  /\ pc' = [pc EXCEPT ![w] = "running"]
  /\ task' = [task EXCEPT ![w] = t]
  /\ target' = [target EXCEPT ![w] = result[t]]
  /\ UNCHANGED <<result, client, value, dangling>>

\* What a write to a Result that is gone destroys is left out.
Touch(r) == dangling' = dangling \cup {q \in Results : q = r /\ life[q] = "dead"}

\* run() has returned; any_ is assigned without a lock.
Store(w) ==
  /\ pc[w] = "running"
  /\ any' = [any EXCEPT ![target[w]] = task[w]]
  /\ Touch(target[w])
  /\ pc' = [pc EXCEPT ![w] = "stored"]
  /\ UNCHANGED <<result, client, rescLimit, queued, task, target>>

\* sem_.post()
Post(w) ==
  /\ pc[w] = "stored"
  /\ rescLimit' = [rescLimit EXCEPT ![target[w]] = @ + 1]
  /\ Touch(target[w])
  /\ pc' = [pc EXCEPT ![w] = "idle"]
  /\ task' = [task EXCEPT ![w] = NoTask]
  /\ target' = [target EXCEPT ![w] = NoResult]
  /\ UNCHANGED <<result, client, any, queued>>

ClientCall == \E r \in Results : (\E t \in Tasks : Submit(r, t)) \/ GetCall(r) \/ Destroy(r)

ClientStep(r) == GetRefused(r) \/ GetAcquire(r) \/ GetTake(r) \/ GetClear(r)

WorkerStep(w) == (\E t \in Tasks : Begin(w, t)) \/ Store(w) \/ Post(w)

Next ==
  \/ ClientCall
  \/ \E r \in Results : ClientStep(r)
  \/ \E w \in Workers : WorkerStep(w)

Spec == Init /\ [][Next]_vars

\* A caller inside get() goes on when it can, and so does a worker.
Fairness ==
  /\ \A r \in Results : WF_vars(ClientStep(r))
  /\ \A w \in Workers : WF_vars(WorkerStep(w))

FairSpec == Spec /\ Fairness

-----------------------------------------------------------------------------
TypeOK ==
  /\ result \in [Tasks -> Results \cup {NoResult}]
  /\ life \in [Results -> {"unborn", "alive", "dead"}]
  /\ boundTo \in [Results -> Tasks \cup {NoTask}]
  /\ isValid \in [Results -> BOOLEAN]
  /\ any \in [Results -> Tasks \cup {Empty}] /\ rescLimit \in [Results -> Int]
  /\ first \in [Results -> Int]
  /\ get \in [Results -> {"out", "waiting", "taking", "taken", "done"}]
  /\ got \in [Results -> Tasks \cup {Empty, Nothing}]
  /\ queued \in [Tasks -> Nat]
  /\ pc \in [Workers -> {"idle", "running", "stored"}]
  /\ task \in [Workers -> Tasks \cup {NoTask}]
  /\ target \in [Workers -> Results \cup {NoResult}]
  /\ dangling \subseteq Results

\* get() never gives a caller another task's value, and gives "" exactly for a
\* refused task; what may go wrong is that it returns before the task has run,
\* with an empty Any, and then rescLimit_ began above zero.
GetReturnsTheValue ==
  \A r \in Results : get[r] = "done" =>
    IF isValid[r]
    THEN got[r] = boundTo[r] \/ (got[r] = Empty /\ first[r] > 0)
    ELSE got[r] = Nothing

\* When Task::exec writes to a Result that is gone, its caller dropped it without
\* asking for the value, or rescLimit_ began above zero: asking for the value is
\* enough to keep the Result until the worker is done with it.
DanglingOnlyIfUnasked == \A r \in dangling : get[r] = "out" \/ first[r] > 0

\* The semaphore is posted at most once, and who gets past one that did not
\* begin above zero is alone with a value that has been stored.
OneValuePerResult ==
  \A r \in Results :
    LET writers == {w \in Workers : pc[w] = "stored" /\ target[w] = r}
    IN /\ rescLimit[r] + Cardinality(writers) <= first[r] + 1
       /\ get[r] \in {"taking", "taken"} /\ first[r] <= 0 =>
            writers = {} /\ rescLimit[r] = first[r] /\ any[r] = boundTo[r]

\* A caller inside get() gets out of it, unless rescLimit_ began below zero.
GetReturns == \A r \in Results : get[r] = "waiting" /\ first[r] >= 0 ~> get[r] = "done"
=============================================================================
