-------------------------- MODULE EventLoopProofs ---------------------------
(***************************************************************************)
(* The event loop loses no wake-up, whatever the number of callers and     *)
(* functors, provided its wakeup channel reaches the poller and its own    *)
(* thread queues nothing before loop(); and functors are run once each, in *)
(* the order in which they were queued, with no provision at all.          *)
(***************************************************************************)
EXTENDS EventLoop, SequenceTheorems, TLAPS

\* Functors that have not begun outlive no step outside the batch they are in.
BatchOnlyInside == functions # <<>> => pc \in {"functors", "functor"}

\* Except while handlers run, after which the whole list is taken, a functor in
\* the list comes with a readable eventfd or with a caller about to write to it.
\* NoSleepOverFunctors alone says so of the poller only, which LoopTest enters
\* from a state of which it says nothing.
WakeupPending == pendingFunctors # <<>> /\ pc # "dispatch" => wakeupFd \/ WakeupUnderway

LoopInv == TypeOK /\ CallingExact /\ BatchOnlyInside

WakeInv == WakeupPending /\ (pc = "polling" /\ quit => wakeupFd \/ WakeupUnderway)

\* The loop begins with nothing to run.
LEMMA InitLoopInv == Init => LoopInv
<1> SUFFICES ASSUME Init PROVE LoopInv
  OBVIOUS
<1>1. TypeOK
  <2>1. quit \in BOOLEAN /\ looping \in BOOLEAN /\ callingPendingFunctors \in BOOLEAN /\ wakeupFd \in BOOLEAN
    BY DEF Init
  <2>2. pendingFunctors \in Seq(Functors) /\ functions \in Seq(Functors)
    BY DEF Init
  <2>3. caller \in [Callers -> {"out", "mustWake"}]
    BY DEF Init
  <2>4. functor \in Functors \cup {NoFunctor} /\ (functor = NoFunctor <=> pc # "functor")
    BY DEF Init
  <2>5. active \subseteq {"wakeup", "other"} /\ ran \subseteq Functors
    BY DEF Init
  <2>6. pc \in {"outside", "test", "polling", "dispatch", "functors", "functor", "left"}
    BY DEF Init
  <2>7. QED
    BY <2>1, <2>2, <2>3, <2>4, <2>5, <2>6 DEF TypeOK
<1>2. CallingExact /\ BatchOnlyInside
  BY DEF Init, CallingExact, BatchOnlyInside
<1>3. QED
  BY <1>1, <1>2 DEF LoopInv

\* Wherever the loop thread steps, types, the flag and the batch stay as they should be.
LEMMA LoopInvStep == LoopInv /\ [Next]_vars => LoopInv'
<1> SUFFICES ASSUME LoopInv, [Next]_vars PROVE LoopInv'
  OBVIOUS
<1> USE DEF LoopInv, TypeOK, CallingExact, BatchOnlyInside, flags, queues
<1>0. NoFunctor \notin Functors
  BY LoopAssumption
<1>1. ASSUME NEW c \in Callers, CallerCall(c) \/ Wakeup(c) PROVE LoopInv'
  <2>1. ASSUME NEW f \in Functors, Queue(c, f) PROVE LoopInv'
    BY <2>1, <1>0 DEF Queue
  <2>2. CASE Quit(c)
    BY <2>2, <1>0 DEF Quit
  <2>3. CASE Wakeup(c)
    BY <2>3, <1>0 DEF Wakeup
  <2>4. QED
    BY <1>1, <2>1, <2>2, <2>3 DEF CallerCall
<1>2. CASE LoopEnter
  BY <1>2, <1>0 DEF LoopEnter
<1>3. CASE LoopTest
  <2>1. looping' \in BOOLEAN
    BY <1>3, Zenon DEF LoopTest
  <2>2. pc' \in {"left", "polling"}
    BY <1>3 DEF LoopTest
  <2>3. QED
    BY <1>3, <1>0, <2>1, <2>2 DEF LoopTest
<1>4. ASSUME NEW other \in SUBSET {"other"}, PollReturn(other) PROVE LoopInv'
  BY <1>4, <1>0 DEF PollReturn
<1>5. CASE PollWakeup \/ PollStep
  BY <1>4, <1>5 DEF PollWakeup, PollStep, PollOther, PollTimeout
<1>6. CASE HandleRead
  BY <1>6, <1>0 DEF HandleRead
<1>7. CASE LoopThreadQuit
  BY <1>7, <1>0 DEF LoopThreadQuit
<1>8. ASSUME NEW f \in Functors, LoopThreadQueue(f) PROVE LoopInv'
  <2>1. wakeupFd' \in BOOLEAN
    BY <1>8, Zenon DEF LoopThreadQueue
  <2>2. QED
    BY <1>8, <1>0, <2>1 DEF LoopThreadQueue
<1>9. CASE Swap
  BY <1>9, <1>0 DEF Swap
<1>10. CASE Call
  BY <1>10, <1>0 DEF Call
<1>11. CASE Return \/ FunctorsDone
  BY <1>11, <1>0 DEF Return, FunctorsDone
<1>12. CASE UNCHANGED vars
  BY <1>12 DEF vars
<1>13. QED
  BY <1>1, <1>2, <1>3, <1>5, <1>6, <1>7, <1>8, <1>9, <1>10, <1>11, <1>12
  DEF Next, LoopStep, UserStep, Stopped

\* Types and the flag that tells a functor from a handler, in every state.
THEOREM LoopTypeCorrect == Spec => [](TypeOK /\ CallingExact)
<1>1. Init => LoopInv
  BY InitLoopInv
<1>2. LoopInv => TypeOK /\ CallingExact
  BY DEF LoopInv
<1>3. QED
  BY <1>1, <1>2, LoopInvStep, PTL DEF Spec

\* Wake-ups stay pending: only HandleRead empties the eventfd, and the list is
\* taken before the poller is entered again.
LEMMA WakeInvStep ==
  ASSUME ~EarlyQueue
  PROVE  LoopInv /\ WakeInv /\ [Next]_vars => WakeInv'
<1> SUFFICES ASSUME LoopInv, WakeInv, [Next]_vars PROVE WakeInv'
  OBVIOUS
<1> USE DEF LoopInv, WakeInv, WakeupPending, WakeupUnderway
<1>1. ASSUME NEW c \in Callers, CallerCall(c) PROVE WakeInv'
  <2>1. caller'[c] = "mustWake"
    BY <1>1 DEF CallerCall, Queue, Quit, TypeOK
  <2>2. QED
    BY <2>1
<1>2. ASSUME NEW c \in Callers, Wakeup(c) PROVE WakeInv'
  BY <1>2 DEF Wakeup
<1>3. CASE LoopEnter \/ LoopTest \/ PollWakeup \/ PollStep \/ HandleRead
  BY <1>3 DEF LoopEnter, LoopTest, PollWakeup, PollStep, PollOther, PollTimeout, PollReturn, HandleRead, flags, queues
<1>4. CASE UserStep
  <2>1. CASE pc = "dispatch"
    BY <1>4, <2>1 DEF UserStep, LoopThreadQuit, LoopThreadQueue
  <2>2. CASE pc = "functor"
    <3>1. MustWake
      BY <2>2 DEF CallingExact, MustWake
    <3>2. QED
      BY <1>4, <2>2, <3>1 DEF UserStep, LoopThreadQuit, LoopThreadQueue, queues
  <2>3. QED
    BY <1>4, <2>1, <2>2 DEF UserStep, LoopThreadQuit, LoopThreadQueue, UserCode
<1>5. CASE Swap \/ Call \/ Return \/ FunctorsDone
  BY <1>5 DEF Swap, Call, Return, FunctorsDone, flags, queues
<1>6. CASE Stopped \/ UNCHANGED vars
  BY <1>6 DEF Stopped, vars, flags, queues
<1>7. QED
  BY <1>1, <1>2, <1>3, <1>4, <1>5, <1>6 DEF Next, LoopStep

\* The loop blocks in the poller neither over functors nor over a request to stop.
THEOREM LoopWakesUp ==
  ASSUME Wired, ~EarlyQueue
  PROVE  Spec => [](NoSleepOverFunctors /\ NoSleepOverQuit)
<1>1. Init => LoopInv /\ WakeInv
  BY InitLoopInv DEF Init, WakeInv, WakeupPending
<1>2. LoopInv /\ WakeInv /\ [Next]_vars => (LoopInv /\ WakeInv)'
  BY LoopInvStep, WakeInvStep
<1>3. LoopInv /\ WakeInv => NoSleepOverFunctors /\ NoSleepOverQuit
  BY DEF WakeInv, WakeupPending, NoSleepOverFunctors, NoSleepOverQuit, Readable
<1>4. QED
  BY <1>1, <1>2, <1>3, PTL DEF Spec

-----------------------------------------------------------------------------
(* The event loop keeps the contract of WorkQueue. *)

\* The queue of the contract: what is left of the batch, then the list.
Queued == functions \o pendingFunctors

\* A functor is in the queue of the contract if it is in one of its two parts.
LEMMA QueuedElements ==
  ASSUME LoopInv, NEW f \in Functors, Fresh(f)
  PROVE  /\ \A i \in 1..Len(Queued) : Queued[i] # f
         /\ functions \o Append(pendingFunctors, f) = Append(Queued, f)
<1>1. functions \in Seq(Functors) /\ pendingFunctors \in Seq(Functors)
  BY DEF LoopInv, TypeOK
<1>2. Len(functions) \in Nat /\ Len(pendingFunctors) \in Nat
  BY <1>1
<1>3. Len(Queued) = Len(functions) + Len(pendingFunctors)
  BY <1>1 DEF Queued
<1>4. ASSUME NEW i \in 1..Len(Queued) PROVE Queued[i] # f
  <2>1. CASE i <= Len(functions)
    <3>1. Queued[i] = functions[i] /\ i \in 1..Len(functions)
      BY <1>1, <1>2, <2>1 DEF Queued
    <3>2. QED
      BY <3>1 DEF Fresh, In
  <2>2. CASE i > Len(functions)
    <3>1. Queued[i] = pendingFunctors[i - Len(functions)]
      BY <1>1, <1>2, <1>3, <2>2 DEF Queued
    <3>2. i - Len(functions) \in 1..Len(pendingFunctors)
      BY <1>2, <1>3, <2>2
    <3>3. QED
      BY <3>1, <3>2 DEF Fresh, In
  <2>3. QED
    BY <1>2, <1>3, <2>1, <2>2
<1>5. functions \o Append(pendingFunctors, f) = Append(Queued, f)
  BY <1>1, SMTT(20) DEF Queued
<1>6. QED
  BY <1>4, <1>5

\* Queueing a functor, on whatever thread, accepts it.
LEMMA QueueAccepts ==
  ASSUME LoopInv, NEW f \in Functors, Fresh(f),
         pendingFunctors' = Append(pendingFunctors, f),
         UNCHANGED <<functions, functor, ran>>
  PROVE  Contract!Next
<1>1. Queued' = Append(Queued, f) /\ \A i \in 1..Len(Queued) : Queued[i] # f
  BY QueuedElements DEF Queued
<1>2. f \notin ({functor} \ {NoFunctor}) \cup ran \cup {}
  BY DEF Fresh
<1>3. Contract!Accept(f)
  BY <1>1, <1>2 DEF Contract!Accept, Contract!Fresh, Queued
<1>4. QED
  BY <1>3 DEF Contract!Next

\* Functors run once each, in the order in which they were queued: the loop
\* implements the FIFO contract, with the batch it took and the list behind it
\* as one queue.
THEOREM LoopKeepsOrder == Spec => KeepsOrder
<1>1. Init => Contract!Init
  <2>1. <<>> \o <<>> = <<>>
    OBVIOUS
  <2>2. QED
    BY <2>1 DEF Init, Contract!Init
<1>2. LoopInv /\ [Next]_vars => [Contract!Next]_Contract!vars
  <2> SUFFICES ASSUME LoopInv, [Next]_vars PROVE [Contract!Next]_Contract!vars
    OBVIOUS
  <2>0. functions \in Seq(Functors) /\ pendingFunctors \in Seq(Functors) /\ NoFunctor \notin Functors
    BY LoopAssumption DEF LoopInv, TypeOK
  <2>1. ASSUME NEW c \in Callers, NEW f \in Functors, Queue(c, f) PROVE Contract!Next
    BY <2>1, QueueAccepts DEF Queue
  <2>2. ASSUME NEW f \in Functors, LoopThreadQueue(f) PROVE Contract!Next
    BY <2>2, QueueAccepts DEF LoopThreadQueue
  <2>3. ASSUME UNCHANGED <<functions, pendingFunctors, functor, ran>> PROVE UNCHANGED Contract!vars
    BY <2>3 DEF Contract!vars
  <2>4. CASE Swap
    <3>1. functions = <<>>
      BY <2>4 DEF Swap, LoopInv, BatchOnlyInside
    <3>2. functions' \o pendingFunctors' = functions \o pendingFunctors
      BY <2>0, <2>4, <3>1 DEF Swap
    <3>3. functor' = functor /\ ran' = ran
      BY <2>4 DEF Swap
    <3>4. QED
      BY <3>2, <3>3 DEF Contract!vars
  <2>5. CASE Call
    <3>1. functions # <<>> /\ functions' = Tail(functions) /\ functor' = Head(functions)
          /\ pendingFunctors' = pendingFunctors /\ ran' = ran /\ functor = NoFunctor
      BY <2>5 DEF Call, LoopInv, TypeOK
    <3>2. Head(functions) \in Functors
      BY <2>0, <3>1
    <3>3. /\ functions \o pendingFunctors # <<>>
          /\ Head(functions \o pendingFunctors) = Head(functions)
          /\ Tail(functions \o pendingFunctors) = Tail(functions) \o pendingFunctors
      BY <2>0, <3>1
    <3>4. {functor'} \ {NoFunctor} = ({functor} \ {NoFunctor}) \cup {Head(functions)}
      BY <2>0, <3>1, <3>2
    <3>5. Contract!Begin
      BY <3>1, <3>3, <3>4 DEF Contract!Begin
    <3>6. QED
      BY <3>5 DEF Contract!Next
  <2>6. CASE Return
    <3>1. functor \in Functors /\ functor # NoFunctor
      BY <2>0, <2>6 DEF Return, LoopInv, TypeOK
    <3>2. Contract!Finish(functor)
      BY <2>6, <3>1 DEF Return, Contract!Finish, queues
    <3>3. QED
      BY <3>1, <3>2 DEF Contract!Next
  <2>7. QED
    BY <2>1, <2>2, <2>3, <2>4, <2>5, <2>6 DEF Next, CallerCall, LoopStep, UserStep, PollStep, Quit, Wakeup,
       LoopEnter, LoopTest, PollWakeup, PollOther, PollTimeout, PollReturn, HandleRead, LoopThreadQuit,
       FunctorsDone, Stopped, vars, flags, queues
<1>3. QED
  BY <1>1, <1>2, InitLoopInv, LoopInvStep, PTL DEF Spec, KeepsOrder, Contract!Safe
=============================================================================
