-------------------------- MODULE TaskResultProofs --------------------------
(***************************************************************************)
(* Proofs about TaskResult, for any number of tasks, Results and workers,  *)
(* whatever the counts of the semaphores begin with and whether or not     *)
(* callers ask for the values of their tasks.                              *)
(***************************************************************************)
EXTENDS TaskResult, FiniteSetTheorems, TLAPS

\* The value of r is still to come: its task is queued for it, or at a worker.
Expected(r) ==
  \/ \E t \in Tasks : queued[t] > 0 /\ result[t] = r
  \/ \E w \in Workers : target[w] = r

\* A queued task writes to the Result of the call that was accepted last.
TaskOK(t) ==
  queued[t] > 0 =>
    /\ queued[t] = 1
    /\ \A w \in Workers : task[w] # t
    /\ result[t] \in Results
    /\ life[result[t]] # "unborn" /\ isValid[result[t]] /\ boundTo[result[t]] = t

\* A worker that runs a task runs it alone and writes to the Result it was bound
\* to; what it has stored stays there unless the semaphore let the reader in early.
WorkerOK(w) ==
  /\ pc[w] = "idle" => task[w] = NoTask /\ target[w] = NoResult
  /\ pc[w] # "idle" =>
       /\ task[w] \in Tasks /\ target[w] \in Results
       /\ life[target[w]] # "unborn" /\ isValid[target[w]]
       /\ boundTo[target[w]] = task[w]
       /\ \A v \in Workers : task[v] = task[w] => v = w
  /\ pc[w] = "stored" /\ first[target[w]] <= 0 => any[target[w]] = task[w]

\* The semaphore is above its first count only once the value has come.
CountOK(r) ==
  /\ rescLimit[r] <= first[r] + 1
  /\ Expected(r) => rescLimit[r] <= first[r]
  /\ life[r] = "unborn" => get[r] = "out" /\ any[r] = Empty /\ rescLimit[r] = first[r]

\* With a count that did not begin above zero the value is expected, then there,
\* then taken: never two of these at once.
ResultOK(r) ==
  /\ first[r] <= 0 /\ rescLimit[r] > first[r] =>
       isValid[r] /\ any[r] = boundTo[r] /\ ~Expected(r) /\ get[r] \in {"out", "waiting"}
  /\ first[r] <= 0 /\ get[r] \in {"taking", "taken"} =>
       any[r] = boundTo[r] /\ ~Expected(r) /\ rescLimit[r] = first[r]
  /\ first[r] <= 0 /\ get[r] = "taken" => got[r] = boundTo[r]
  /\ first[r] <= 0 /\ get[r] = "done" /\ isValid[r] => got[r] = boundTo[r] /\ ~Expected(r)

\* With any count, a Result holds and gives its own task's value or none.
ValueOK(r) ==
  /\ any[r] \in {Empty, boundTo[r]}
  /\ get[r] = "taken" \/ (get[r] = "done" /\ isValid[r]) => got[r] \in {Empty, boundTo[r]}
  /\ get[r] = "done" /\ ~isValid[r] => got[r] = Nothing
  /\ get[r] \in {"waiting", "taking", "taken"} => isValid[r] /\ life[r] = "alive"
  /\ isValid[r] => boundTo[r] \in Tasks

\* A dead Result is one that nobody asked or that has answered.
DeadOK(r) ==
  /\ life[r] = "dead" => get[r] \in {"out", "done"}
  /\ r \in dangling => life[r] = "dead" /\ (get[r] = "out" \/ first[r] > 0)

IInv ==
  /\ TypeOK
  /\ \A t \in Tasks : TaskOK(t)
  /\ \A w \in Workers : WorkerOK(w)
  /\ \A r \in Results : CountOK(r) /\ ResultOK(r) /\ ValueOK(r) /\ DeadOK(r)

-----------------------------------------------------------------------------
LEMMA InitType == Init => TypeOK
<1> SUFFICES ASSUME Init PROVE TypeOK
  OBVIOUS
<1>1. /\ result \in [Tasks -> Results \cup {NoResult}]
      /\ life \in [Results -> {"unborn", "alive", "dead"}]
      /\ boundTo \in [Results -> Tasks \cup {NoTask}]
      /\ any \in [Results -> Tasks \cup {Empty}] /\ rescLimit \in [Results -> Int]
      /\ first \in [Results -> Int]
  BY DEF Init, Empty
<1>2. isValid \in [Results -> BOOLEAN] /\ dangling \subseteq Results
  BY Zenon DEF Init
<1>3. /\ get \in [Results -> {"out", "waiting", "taking", "taken", "done"}]
      /\ got \in [Results -> Tasks \cup {Empty, Nothing}]
      /\ queued \in [Tasks -> Nat]
      /\ pc \in [Workers -> {"idle", "running", "stored"}]
      /\ task \in [Workers -> Tasks \cup {NoTask}]
      /\ target \in [Workers -> Results \cup {NoResult}]
  BY DEF Init, Empty
<1>4. QED
  BY <1>1, <1>2, <1>3 DEF TypeOK

LEMMA StepType == TypeOK /\ [Next]_vars => TypeOK'
<1> SUFFICES ASSUME TypeOK, [Next]_vars PROVE TypeOK'
  OBVIOUS
<1> USE ResultAssumption DEF TypeOK, Empty, Nothing, client, worker, value
<1>1. CASE ClientCall
  <2>1. ASSUME NEW r \in Results, NEW t \in Tasks, Submit(r, t) PROVE TypeOK'
    <3>1. PICK valid \in BOOLEAN, n \in SemInit :
            /\ isValid' = [isValid EXCEPT ![r] = valid]
            /\ rescLimit' = [rescLimit EXCEPT ![r] = n]
            /\ first' = [first EXCEPT ![r] = n]
      BY <2>1 DEF Submit, Bind
    <3>2. isValid' \in [Results -> BOOLEAN]
      BY <3>1
    <3>3. rescLimit' \in [Results -> Int] /\ first' \in [Results -> Int]
      <4>1. n \in Int
        OBVIOUS
      <4>2. QED
        BY <3>1, <4>1
    <3>6. queued' \in [Tasks -> Nat]
      <4>1. queued[t] + 1 \in Nat
        OBVIOUS
      <4>2. QED
        BY <2>1, <4>1 DEF Submit
    <3>4. /\ result' \in [Tasks -> Results \cup {NoResult}]
          /\ life' \in [Results -> {"unborn", "alive", "dead"}]
          /\ boundTo' \in [Results -> Tasks \cup {NoTask}]
      BY <2>1 DEF Submit, Bind
    <3>5. QED
      BY <2>1, <3>2, <3>3, <3>4, <3>6 DEF Submit
  <2>2. ASSUME NEW r \in Results, GetCall(r) \/ Destroy(r) PROVE TypeOK'
    BY <2>2 DEF GetCall, Destroy
  <2>3. QED
    BY <1>1, <2>1, <2>2 DEF ClientCall
<1>2. ASSUME NEW r \in Results, ClientStep(r) PROVE TypeOK'
  BY <1>2 DEF ClientStep, GetRefused, GetAcquire, GetTake, GetClear, Available
<1>3. ASSUME NEW w \in Workers, WorkerStep(w) PROVE TypeOK'
  <2>1. ASSUME NEW t \in Tasks, Begin(w, t) PROVE TypeOK'
    BY <2>1 DEF Begin
  <2>2. CASE Store(w)
    <3>1. any' \in [Results -> Tasks \cup {Empty}] /\ pc' \in [Workers -> {"idle", "running", "stored"}]
      BY <2>2 DEF Store
    <3>2. dangling' \subseteq Results
      BY <2>2 DEF Store, Touch
    <3>3. QED
      BY <2>2, <3>1, <3>2 DEF Store
  <2>3. CASE Post(w)
    <3>1. rescLimit' \in [Results -> Int]
      <4>1. target[w] \in Results => rescLimit[target[w]] + 1 \in Int
        OBVIOUS
      <4>2. QED
        BY <2>3, <4>1 DEF Post
    <3>4. pc' \in [Workers -> {"idle", "running", "stored"}]
      BY <2>3 DEF Post
    <3>2. dangling' \subseteq Results
      BY <2>3 DEF Post, Touch
    <3>3. QED
      BY <2>3, <3>1, <3>2, <3>4 DEF Post
  <2>4. QED
    BY <1>3, <2>1, <2>2, <2>3 DEF WorkerStep
<1>4. CASE UNCHANGED vars
  BY <1>4 DEF vars
<1>5. QED
  BY <1>1, <1>2, <1>3, <1>4 DEF Next

LEMMA InitIInv == Init => IInv
<1> SUFFICES ASSUME Init PROVE IInv
  OBVIOUS
<1>1. TypeOK
  BY InitType
<1>2. \A t \in Tasks : TaskOK(t)
  BY DEF Init, TaskOK
<1>3. \A w \in Workers : WorkerOK(w)
  BY DEF Init, WorkerOK
<1>4. \A r \in Results : CountOK(r) /\ ResultOK(r) /\ ValueOK(r) /\ DeadOK(r)
  BY ResultAssumption DEF Init, CountOK, ResultOK, ValueOK, DeadOK, Expected, Empty
<1>5. QED
  BY <1>1, <1>2, <1>3, <1>4 DEF IInv

-----------------------------------------------------------------------------
(* One lemma per action. *)

LEMMA SubmitKeeps ==
  ASSUME IInv, TypeOK', NEW r \in Results, NEW t \in Tasks, Submit(r, t)
  PROVE  IInv'
<1> USE DEF Submit, Bind, IInv, TypeOK, client, worker, value
<1>0. PICK valid \in BOOLEAN, n \in SemInit :
        /\ isValid' = [isValid EXCEPT ![r] = valid]
        /\ rescLimit' = [rescLimit EXCEPT ![r] = n] /\ first' = [first EXCEPT ![r] = n]
        /\ IF valid THEN queued' = [queued EXCEPT ![t] = @ + 1] ELSE queued' = queued
  OBVIOUS
<1>1. ASSUME NEW u \in Tasks PROVE TaskOK(u)'
  BY DEF TaskOK, InPool
<1>2. ASSUME NEW w \in Workers PROVE WorkerOK(w)'
  BY DEF WorkerOK
<1>3. ASSUME NEW q \in Results PROVE (CountOK(q) /\ ResultOK(q) /\ ValueOK(q) /\ DeadOK(q))'
  <2>1. q # r => (Expected(q)' => Expected(q))
    BY DEF Expected
  <2>2. CASE q = r
    <3>1. rescLimit'[r] = n /\ first'[r] = n /\ n \in Int /\ get'[r] = "out" /\ any'[r] = Empty
      BY <1>0, ResultAssumption DEF CountOK
    <3>2. life'[r] = "alive" /\ boundTo'[r] = t /\ r \notin dangling'
      BY DEF DeadOK
    <3>3. QED
      BY <2>2, <3>1, <3>2 DEF CountOK, ResultOK, ValueOK, DeadOK
  <2>3. CASE q # r
    BY <2>1, <2>3 DEF CountOK, ResultOK, ValueOK, DeadOK
  <2>4. QED
    BY <2>2, <2>3
<1>5. QED
  BY <1>1, <1>2, <1>3

LEMMA ClientKeeps ==
  ASSUME IInv, TypeOK', NEW r \in Results, GetCall(r) \/ Destroy(r) \/ ClientStep(r)
  PROVE  IInv'
<1> USE DEF IInv, TypeOK, ClientStep, GetCall, Destroy, GetRefused, GetAcquire,
            GetTake, GetClear, Available, client, worker, value
<1>1. ASSUME NEW u \in Tasks PROVE TaskOK(u)'
  BY DEF TaskOK
<1>2. ASSUME NEW w \in Workers PROVE WorkerOK(w)'
  <2>1. get[r] = "taken" /\ first[r] <= 0 => target[w] # r
    BY DEF ResultOK, Expected
  <2>2. QED
    BY <2>1 DEF WorkerOK
<1>3. ASSUME NEW q \in Results PROVE (CountOK(q) /\ ResultOK(q) /\ ValueOK(q) /\ DeadOK(q))'
  <2>1. Expected(q)' <=> Expected(q)
    BY DEF Expected
  <2>2. CountOK(r) /\ ResultOK(r) /\ ValueOK(r) /\ DeadOK(r)
    OBVIOUS
  <2>3. CASE q = r /\ (GetCall(r) \/ Destroy(r) \/ GetRefused(r))
    BY <2>1, <2>2, <2>3 DEF CountOK, ResultOK, ValueOK, DeadOK
  <2>4. CASE q = r /\ GetAcquire(r)
    <3>1. rescLimit'[r] = rescLimit[r] - 1 /\ rescLimit[r] > 0 /\ rescLimit[r] <= first[r] + 1
      BY <2>2, <2>4 DEF CountOK
    <3>2. CountOK(r)'
      BY <2>1, <2>2, <2>4, <3>1 DEF CountOK, DeadOK, ValueOK
    <3>5. first[r] <= 0 => rescLimit[r] > first[r] /\ rescLimit'[r] = first[r]
      BY <3>1
    <3>3. ResultOK(r)'
      BY <2>1, <2>2, <2>4, <3>5 DEF ResultOK
    <3>4. QED
      BY <2>2, <2>4, <3>2, <3>3 DEF ValueOK, DeadOK
  <2>5. CASE q = r /\ GetTake(r)
    BY <2>1, <2>2, <2>5 DEF CountOK, ResultOK, ValueOK, DeadOK
  <2>8. CASE q = r /\ GetClear(r)
    BY <2>1, <2>2, <2>8 DEF CountOK, ResultOK, ValueOK, DeadOK
  <2>6. CASE q # r
    BY <2>1, <2>6 DEF CountOK, ResultOK, ValueOK, DeadOK
  <2>7. QED
    BY <2>3, <2>4, <2>5, <2>6, <2>8
<1>5. QED
  BY <1>1, <1>2, <1>3

LEMMA BeginKeeps ==
  ASSUME IInv, TypeOK', NEW w \in Workers, NEW t \in Tasks, Begin(w, t)
  PROVE  IInv'
<1> USE DEF Begin, IInv, TypeOK, client, worker, value
<1>0. /\ queued[t] = 1 /\ \A v \in Workers : task[v] # t
      /\ result[t] \in Results
      /\ life[result[t]] # "unborn" /\ isValid[result[t]] /\ boundTo[result[t]] = t
  BY DEF TaskOK
<1>1. ASSUME NEW u \in Tasks PROVE TaskOK(u)'
  BY <1>0 DEF TaskOK
<1>2. ASSUME NEW v \in Workers PROVE WorkerOK(v)'
  BY <1>0, ResultAssumption DEF WorkerOK
<1>3. ASSUME NEW q \in Results PROVE (CountOK(q) /\ ResultOK(q) /\ ValueOK(q) /\ DeadOK(q))'
  <2>1. Expected(q)' => Expected(q)
    BY DEF Expected
  <2>2. QED
    BY <2>1 DEF CountOK, ResultOK, ValueOK, DeadOK
<1>5. QED
  BY <1>1, <1>2, <1>3

\* Where a worker writes, no other worker writes; no reader has been there yet if
\* the count did not begin above zero.
LEMMA WritesAlone ==
  ASSUME IInv, NEW w \in Workers, pc[w] # "idle"
  PROVE  /\ target[w] \in Results /\ life[target[w]] \in {"alive", "dead"} /\ isValid[target[w]]
         /\ boundTo[target[w]] = task[w] /\ task[w] \in Tasks
         /\ rescLimit[target[w]] <= first[target[w]]
         /\ first[target[w]] <= 0 => get[target[w]] \in {"out", "waiting"}
         /\ \A v \in Workers : target[v] = target[w] => v = w
         /\ \A t \in Tasks : queued[t] > 0 => result[t] # target[w]
<1> USE DEF IInv, TypeOK
<1>1. /\ target[w] \in Results /\ task[w] \in Tasks /\ isValid[target[w]]
      /\ life[target[w]] # "unborn" /\ boundTo[target[w]] = task[w]
      /\ \A v \in Workers : task[v] = task[w] => v = w
  BY DEF WorkerOK
<1>2. Expected(target[w])
  BY DEF Expected
<1>3. /\ rescLimit[target[w]] <= first[target[w]]
      /\ first[target[w]] <= 0 => get[target[w]] \notin {"taking", "taken", "done"}
  BY <1>1, <1>2 DEF CountOK, ResultOK
<1>4. \A v \in Workers : target[v] = target[w] => v = w
  BY <1>1, ResultAssumption DEF WorkerOK
<1>5. \A t \in Tasks : queued[t] > 0 => result[t] # target[w]
  BY <1>1 DEF TaskOK
<1>6. life[target[w]] \in {"alive", "dead"} /\ get[target[w]] \in {"out", "waiting", "taking", "taken", "done"}
  BY <1>1
<1>7. QED
  BY <1>1, <1>3, <1>4, <1>5, <1>6

LEMMA StoreKeeps ==
  ASSUME IInv, TypeOK', NEW w \in Workers, Store(w)
  PROVE  IInv'
<1> USE DEF Store, Touch, IInv, TypeOK, client, worker, value
<1>0. pc[w] # "idle"
  OBVIOUS
<1>1. ASSUME NEW u \in Tasks PROVE TaskOK(u)'
  BY DEF TaskOK
<1>2. ASSUME NEW v \in Workers PROVE WorkerOK(v)'
  BY <1>0, WritesAlone DEF WorkerOK
<1>3. ASSUME NEW q \in Results PROVE (CountOK(q) /\ ResultOK(q) /\ ValueOK(q) /\ DeadOK(q))'
  <2>1. Expected(q)' <=> Expected(q)
    BY DEF Expected
  <2>2. CASE q = target[w]
    <3>1. any'[q] = boundTo[q] /\ first[q] \in Int
      BY <1>0, <2>2, WritesAlone
    <3>2. CountOK(q)' /\ ResultOK(q)'
      BY <1>0, <2>1, <2>2, <3>1, WritesAlone DEF CountOK, ResultOK
    <3>3. ValueOK(q)'
      BY <3>1 DEF ValueOK
    <3>4. DeadOK(q)'
      BY <1>0, <2>2, <3>1, WritesAlone DEF DeadOK
    <3>5. QED
      BY <3>2, <3>3, <3>4
  <2>3. CASE q # target[w]
    BY <2>1, <2>3 DEF CountOK, ResultOK, ValueOK, DeadOK
  <2>4. QED
    BY <2>2, <2>3
<1>5. QED
  BY <1>1, <1>2, <1>3

LEMMA PostKeeps ==
  ASSUME IInv, TypeOK', NEW w \in Workers, Post(w)
  PROVE  IInv'
<1> USE DEF Post, Touch, IInv, TypeOK, client, worker, value
<1>0. pc[w] # "idle"
  OBVIOUS
<1>1. ASSUME NEW u \in Tasks PROVE TaskOK(u)'
  BY ResultAssumption DEF TaskOK
<1>2. ASSUME NEW v \in Workers PROVE WorkerOK(v)'
  BY <1>0, WritesAlone, ResultAssumption DEF WorkerOK
<1>3. ASSUME NEW q \in Results PROVE (CountOK(q) /\ ResultOK(q) /\ ValueOK(q) /\ DeadOK(q))'
  <2>1. Expected(q)' => Expected(q)
    BY ResultAssumption DEF Expected
  <2>2. CASE q = target[w]
    <3>1. ~Expected(q)'
      BY <1>0, <2>2, WritesAlone, ResultAssumption DEF Expected
    <3>2. first[q] <= 0 => any[q] = boundTo[q]
      BY <1>0, <2>2, WritesAlone DEF WorkerOK
    <3>3. rescLimit'[q] = rescLimit[q] + 1 /\ rescLimit[q] <= first[q] /\ isValid[q]
      BY <1>0, <2>2, WritesAlone
    <3>4. CountOK(q)'
      BY <1>0, <2>2, <3>1, <3>3, WritesAlone DEF CountOK
    <3>5. ResultOK(q)'
      BY <1>0, <2>2, <3>1, <3>2, <3>3, WritesAlone DEF ResultOK
    <3>6. ValueOK(q)'
      BY DEF ValueOK
    <3>7. DeadOK(q)'
      BY <1>0, <2>2, WritesAlone DEF DeadOK
    <3>8. QED
      BY <3>4, <3>5, <3>6, <3>7
  <2>3. CASE q # target[w]
    BY <2>1, <2>3 DEF CountOK, ResultOK, ValueOK, DeadOK
  <2>4. QED
    BY <2>2, <2>3
<1>5. QED
  BY <1>1, <1>2, <1>3

LEMMA StepIInv == IInv /\ [Next]_vars => IInv'
<1> SUFFICES ASSUME IInv, [Next]_vars PROVE IInv'
  OBVIOUS
<1>0. TypeOK'
  BY StepType DEF IInv
<1>1. CASE ClientCall
  BY <1>0, <1>1, SubmitKeeps, ClientKeeps DEF ClientCall
<1>2. ASSUME NEW r \in Results, ClientStep(r) PROVE IInv'
  BY <1>0, <1>2, ClientKeeps
<1>3. ASSUME NEW w \in Workers, WorkerStep(w) PROVE IInv'
  BY <1>0, <1>3, BeginKeeps, StoreKeeps, PostKeeps DEF WorkerStep
<1>4. CASE UNCHANGED vars
  BY <1>4 DEF vars, client, worker, value, IInv, TypeOK, TaskOK, WorkerOK, CountOK, ResultOK,
              ValueOK, DeadOK, Expected
<1>5. QED
  BY <1>1, <1>2, <1>3, <1>4 DEF Next

-----------------------------------------------------------------------------
(* The theorems. *)

LEMMA Invariance == Spec => []IInv
BY InitIInv, StepIInv, PTL DEF Spec

\* Every variable of Task, Result and Semaphore keeps its type.
THEOREM ResultTypeCorrect == Spec => []TypeOK
BY InitType, StepType, PTL DEF Spec

\* get() returns the value of its own task, whichever worker ran it and however
\* often the task was submitted before, or an empty Any if rescLimit_ began above
\* zero; and "" exactly for a refused task.
THEOREM GetIsRight == Spec => []GetReturnsTheValue
<1>1. IInv => GetReturnsTheValue
  <2> SUFFICES ASSUME IInv, NEW r \in Results, get[r] = "done"
               PROVE  IF isValid[r]
                      THEN got[r] = boundTo[r] \/ (got[r] = Empty /\ first[r] > 0)
                      ELSE got[r] = Nothing
    BY DEF GetReturnsTheValue
  <2>1. first[r] \in Int
    BY DEF IInv, TypeOK
  <2>2. QED
    BY <2>1 DEF IInv, ResultOK, ValueOK
<1>2. QED
  BY <1>1, Invariance, PTL

\* Task::exec writes to a Result that is gone only if its caller never asked it
\* for the value or its rescLimit_ began above zero.
THEOREM WritesAreSafe == Spec => []DanglingOnlyIfUnasked
<1>1. IInv => DanglingOnlyIfUnasked
  BY DEF IInv, TypeOK, DeadOK, DanglingOnlyIfUnasked
<1>2. QED
  BY <1>1, Invariance, PTL

\* The semaphore is posted once, and whoever passes one that did not begin above
\* zero has the value to itself.
THEOREM ValueArrivesOnce == Spec => []OneValuePerResult
<1>1. IInv => OneValuePerResult
  <2> SUFFICES ASSUME IInv, NEW r \in Results
               PROVE  LET writers == {w \in Workers : pc[w] = "stored" /\ target[w] = r}
                      IN /\ rescLimit[r] + Cardinality(writers) <= first[r] + 1
                         /\ get[r] \in {"taking", "taken"} /\ first[r] <= 0 =>
                              writers = {} /\ rescLimit[r] = first[r] /\ any[r] = boundTo[r]
    BY DEF OneValuePerResult
  <2> DEFINE writers == {w \in Workers : pc[w] = "stored" /\ target[w] = r}
  <2>0. rescLimit[r] \in Int /\ first[r] \in Int
    BY DEF IInv, TypeOK
  <2>4. get[r] \in {"taking", "taken"} /\ first[r] <= 0 =>
          rescLimit[r] = first[r] /\ any[r] = boundTo[r]
    BY DEF IInv, ResultOK
  <2>1. CASE writers = {}
    <3>1. Cardinality(writers) = 0
      BY <2>1, FS_EmptySet
    <3>2. rescLimit[r] <= first[r] + 1
      BY DEF IInv, CountOK
    <3>4. QED
      BY <2>0, <2>1, <2>4, <3>1, <3>2
  <2>2. CASE writers # {}
    <3>1. PICK w \in Workers : pc[w] = "stored" /\ target[w] = r
      BY <2>2
    <3>2. /\ rescLimit[r] <= first[r]
          /\ first[r] <= 0 => get[r] \in {"out", "waiting"}
          /\ \A v \in Workers : target[v] = r => v = w
      BY <3>1, WritesAlone
    <3>3. writers = {w}
      BY <3>1, <3>2
    <3>4. Cardinality(writers) = 1
      BY <3>3, FS_Singleton
    <3>5. QED
      BY <2>0, <3>2, <3>4
  <2>3. QED
    BY <2>1, <2>2
<1>2. QED
  BY <1>1, Invariance, PTL
=============================================================================
