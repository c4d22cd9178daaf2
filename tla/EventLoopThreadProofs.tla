----------------------- MODULE EventLoopThreadProofs ------------------------
(***************************************************************************)
(* Proofs about EventLoopThread, for any number of callers and functors    *)
(* and whoever else may quit the loop.                                     *)
(***************************************************************************)
EXTENDS EventLoopThread, EventLoopProofs

HandleOK ==
  /\ loop_ \in BOOLEAN
  /\ thread \in {"unstarted", "spawned", "init", "looping", "ending", "ended"}
  /\ owner \in {"new", "spawning", "waiting", "woken", "started", "quitting",
                "joining", "destroyed"}
  /\ loop_ <=> thread = "looping"

\* The thread leaves only on a request to stop, which stays; an owner that has the
\* loop, or had it, has a thread that got as far.
StopsOnRequest ==
  /\ pc = "left" => quit
  /\ thread \in {"ending", "ended"} => pc = "left"
  /\ owner \in {"started", "quitting", "joining"} => thread \in {"looping", "ending", "ended"}
  /\ owner = "new" => thread = "unstarted"

Held == HandleOK /\ StopsOnRequest

\* What the thread and its owner do with the loop, any loop does.
LEMMA LoopOfAThread == ThreadNext => [Next]_vars
<1> SUFFICES ASSUME ThreadNext PROVE [Next]_vars
  OBVIOUS
<1>1. CASE StartLoop \/ Destroy \/ StartWait \/ StartReturn \/ DestroyJoin \/ SpuriousWake
  BY <1>1 DEF StartLoop, Destroy, StartWait, StartReturn, DestroyJoin, SpuriousWake
<1>2. CASE Begin \/ Publish \/ Unpublish \/ End
  BY <1>2 DEF Begin, Publish, Unpublish, End
<1>3. CASE DestroyQuit
  BY <1>3, ThreadAssumption DEF DestroyQuit, Next, CallerCall
<1>4. CASE LoopRuns \/ LoopPolls \/ UserRuns
  BY <1>4 DEF LoopRuns, LoopPolls, UserRuns, Next
<1>5. ASSUME NEW c \in Callers, CallerRuns(c) \/ WakeupRuns(c) PROVE [Next]_vars
  BY <1>5 DEF CallerRuns, WakeupRuns, Next, CallerCall
<1>6. CASE Finished
  BY <1>6 DEF Finished, allVars
<1>7. QED
  BY <1>1, <1>2, <1>3, <1>4, <1>5, <1>6 DEF ThreadNext, OwnerStep, ThreadStep

LEMMA InitHeld == ThreadInit => Held
BY DEF ThreadInit, Init, Held, HandleOK, StopsOnRequest

\* The loop stops only where it was asked to, and is not entered again.
LEMMA LoopLeavesWhenAsked ==
  ASSUME pc = "left" => quit, LoopStep \/ PollStep
  PROVE  (pc' = "left" => quit') /\ (pc = "left" => pc' = "left")
<1>1. CASE LoopEnter \/ LoopTest
  BY <1>1 DEF LoopEnter, LoopTest
<1>2. CASE PollWakeup \/ PollStep
  BY <1>2 DEF PollWakeup, PollStep, PollOther, PollTimeout, PollReturn, flags
<1>3. CASE HandleRead
  BY <1>3 DEF HandleRead, flags
<1>4. CASE Swap \/ Call \/ Return \/ FunctorsDone
  BY <1>4 DEF Swap, Call, Return, FunctorsDone, flags
<1>5. QED
  BY <1>1, <1>2, <1>3, <1>4 DEF LoopStep

\* Others set quit_ and do not move the loop.
LEMMA OthersOnlyQuit ==
  ASSUME UserStep \/ (\E c \in Callers : Quit(c) \/ Wakeup(c) \/ \E f \in Functors : Queue(c, f))
  PROVE  (quit => quit') /\ pc' = pc
BY DEF UserStep, LoopThreadQuit, LoopThreadQueue, Quit, Wakeup, Queue, flags

LEMMA HeldStep == Held /\ [ThreadNext]_allVars => Held'
<1> SUFFICES ASSUME Held, [ThreadNext]_allVars PROVE Held'
  OBVIOUS
<1> USE DEF Held, HandleOK, StopsOnRequest, handle, vars, flags
<1>1. CASE StartLoop \/ StartWait \/ StartReturn \/ SpuriousWake
  BY <1>1 DEF StartLoop, StartWait, StartReturn, SpuriousWake, HandOut
<1>2. CASE Destroy
  BY <1>2 DEF Destroy
<1>3. CASE DestroyQuit
  <2>1. (quit => quit') /\ pc' = pc
    BY <1>3, ThreadAssumption, OthersOnlyQuit DEF DestroyQuit
  <2>2. QED
    BY <1>3, <2>1 DEF DestroyQuit
<1>4. CASE DestroyJoin
  BY <1>4 DEF DestroyJoin, Join
<1>5. CASE Begin \/ End
  BY <1>5 DEF Begin, End
<1>6. CASE Publish
  <2>1. owner' = owner \/ (owner = "waiting" /\ owner' = "woken")
    BY <1>6 DEF Publish
  <2>2. loop_' /\ loop_' \in BOOLEAN /\ thread' = "looping" /\ UNCHANGED vars /\ thread = "init"
    BY <1>6 DEF Publish
  <2>3. QED
    BY <2>1, <2>2
<1>7. CASE Unpublish
  BY <1>7 DEF Unpublish
<1>8. CASE LoopRuns \/ LoopPolls
  <2>1. (pc' = "left" => quit') /\ (pc = "left" => pc' = "left")
    BY <1>8, LoopLeavesWhenAsked DEF LoopRuns, LoopPolls
  <2>2. UNCHANGED <<loop_, thread, owner>>
    BY <1>8 DEF LoopRuns, LoopPolls
  <2>3. QED
    BY <2>1, <2>2
<1>9. ASSUME UserRuns \/ \E c \in Callers : CallerRuns(c) \/ WakeupRuns(c) PROVE Held'
  <2>1. (quit => quit') /\ pc' = pc
    BY <1>9, OthersOnlyQuit DEF UserRuns, CallerRuns, WakeupRuns
  <2>2. UNCHANGED <<loop_, thread, owner>>
    BY <1>9 DEF UserRuns, CallerRuns, WakeupRuns
  <2>3. QED
    BY <2>1, <2>2
<1>10. CASE Finished \/ UNCHANGED allVars
  BY <1>10 DEF Finished, allVars
<1>11. QED
  BY <1>1, <1>2, <1>3, <1>4, <1>5, <1>6, <1>7, <1>8, <1>9, <1>10
  DEF ThreadNext, OwnerStep, ThreadStep

LEMMA HeldAlways == ThreadSpec => []Held
BY InitHeld, HeldStep, PTL DEF ThreadSpec

\* Only the destructor's returns make the owner "destroyed".
LEMMA DestroyedBy ==
  ASSUME [ThreadNext]_allVars, owner # "destroyed", owner' = "destroyed"
  PROVE  Destroy \/ DestroyJoin
<1>1. CASE StartLoop \/ StartWait \/ StartReturn \/ SpuriousWake \/ DestroyQuit
  BY <1>1 DEF StartLoop, StartWait, StartReturn, SpuriousWake, DestroyQuit
<1>2. CASE Begin \/ Publish \/ Unpublish \/ End \/ LoopRuns \/ LoopPolls \/ UserRuns
  BY <1>2 DEF Begin, Publish, Unpublish, End, LoopRuns, LoopPolls, UserRuns, handle
<1>3. CASE \E c \in Callers : CallerRuns(c) \/ WakeupRuns(c)
  BY <1>3 DEF CallerRuns, WakeupRuns, handle
<1>4. CASE Finished \/ UNCHANGED allVars
  BY <1>4 DEF Finished, allVars, handle
<1>5. QED
  BY <1>1, <1>2, <1>3, <1>4 DEF ThreadNext, OwnerStep, ThreadStep

-----------------------------------------------------------------------------
(* The theorems. *)

\* The loop that an EventLoopThread runs is an EventLoop: whatever holds of every
\* behaviour of one holds of the other, its order of functors for one.
THEOREM ThreadRunsALoop == ThreadSpec => Spec
<1>1. ThreadInit => Init
  BY DEF ThreadInit
<1>2. [ThreadNext]_allVars => [Next]_vars
  BY LoopOfAThread DEF allVars
<1>3. QED
  BY <1>1, <1>2, PTL DEF ThreadSpec, Spec

\* The loop, the thread, the owner and loop_ are always somewhere in the code.
THEOREM ThreadTypeCorrect == ThreadSpec => []ThreadTypeOK
<1>1. Held /\ TypeOK => ThreadTypeOK
  BY DEF Held, HandleOK, ThreadTypeOK
<1>2. QED
  BY <1>1, HeldAlways, ThreadRunsALoop, LoopTypeCorrect, PTL

\* The pointer that startLoop returned is good until ~EventLoopThread begins, or
\* the program's own code on the loop has quit it.
THEOREM LoopIsThere == ThreadSpec => []LoopOutlivesItsUsers
<1>1. Held => LoopOutlivesItsUsers
  BY DEF Held, HandleOK, StopsOnRequest, LoopOutlivesItsUsers
<1>2. QED
  BY <1>1, HeldAlways, PTL

\* ~EventLoopThread has waited for its thread when it returns, unless it found the
\* loop quit.
THEOREM DestructorWaits == ThreadSpec => NoUseAfterDestroy
<1> DEFINE Waited == owner # "destroyed" /\ owner' = "destroyed" =>
                       thread \in {"unstarted", "ended"} \/ (owner = "started" /\ quit)
<1>1. Held /\ [ThreadNext]_allVars => [Waited]_allVars
  <2> SUFFICES ASSUME Held, [ThreadNext]_allVars, owner # "destroyed", owner' = "destroyed"
               PROVE  thread \in {"unstarted", "ended"} \/ (owner = "started" /\ quit)
    OBVIOUS
  <2>1. CASE Destroy
    BY <2>1 DEF Destroy, Held, HandleOK, StopsOnRequest
  <2>2. CASE DestroyJoin
    BY <2>2 DEF DestroyJoin, Join
  <2>3. QED
    BY <2>1, <2>2, DestroyedBy
<1>2. QED
  BY <1>1, HeldAlways, PTL DEF ThreadSpec, NoUseAfterDestroy
=============================================================================
