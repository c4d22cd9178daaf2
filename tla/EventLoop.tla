----------------------------- MODULE EventLoop ------------------------------
(***************************************************************************)
(* The event loop of the Muduo library: the loop thread inside loop(), and *)
(* other threads that hand it functors with queueInLoop (which is what     *)
(* runInLoop does from another thread) or call quit().                     *)
(*                                                                         *)
(* The wakeup eventfd is level-triggered, so of its counter only whether   *)
(* it is zero matters.  Events of other descriptors are an external        *)
(* choice; what their handlers do to the loop is queue functors or quit.   *)
(* Line 60 tests quit, the name of a method; it is read as the flag quit_. *)
(***************************************************************************)
EXTENDS Integers, Sequences, FiniteSets

CONSTANTS
  Callers,               \* threads other than the loop's
  Functors,              \* the functors handed to the loop, each at most once
  NoFunctor,
  Wired,                 \* do Channel::update and Channel::remove reach the poller?
                         \*   (their bodies are commented out in Channel.cc)
  EarlyQueue,            \* may the loop's own thread queue functors before loop()?
  MayQuit                \* who may call quit(): a subset of Callers and {"loop"}

ASSUME LoopAssumption ==
  /\ NoFunctor \notin Functors
  /\ Wired \in BOOLEAN /\ EarlyQueue \in BOOLEAN
  /\ MayQuit \subseteq Callers \cup {"loop"} /\ "loop" \notin Callers

VARIABLES
  quit, looping,         \* quit_, looping_
  callingPendingFunctors,
  pendingFunctors,
  functions,             \* the local of doPendingFunctors: what is left to run
  wakeupFd,              \* is the eventfd readable?
  active,                \* of activeChannels_: "wakeup", "other"
  pc,                    \* where the loop thread is
  functor,               \* the functor it runs
  caller,                \* Callers: out of a call, or about to write to the eventfd
  ran                    \* functors that have run (history)

flags  == <<quit, looping, callingPendingFunctors>>
queues == <<pendingFunctors, functions>>
vars   == <<flags, queues, wakeupFd, active, pc, functor, caller, ran>>

Init ==
  /\ quit = FALSE /\ looping = FALSE /\ callingPendingFunctors = FALSE
  /\ pendingFunctors = <<>> /\ functions = <<>>
  /\ wakeupFd = FALSE /\ active = {}
  /\ pc = "outside" /\ functor = NoFunctor
  /\ caller = [c \in Callers |-> "out"]
  /\ ran = {}

In(f, s) == \E i \in 1..Len(s) : s[i] = f

Fresh(f) == ~In(f, pendingFunctors) /\ ~In(f, functions) /\ f # functor /\ f \notin ran

-----------------------------------------------------------------------------
(* Other threads. *)

\* Mutant: only functors queued on the loop thread are followed by a wake-up.
QueueSilently(c, f) ==
  /\ caller[c] = "out" /\ Fresh(f)
  /\ pendingFunctors' = Append(pendingFunctors, f)
  /\ UNCHANGED <<flags, functions, wakeupFd, active, pc, functor, caller, ran>>

\* queueInLoop, up to the end of the block that holds mutex_.
Queue(c, f) ==
  /\ caller[c] = "out" /\ Fresh(f)
  /\ pendingFunctors' = Append(pendingFunctors, f)
  /\ caller' = [caller EXCEPT ![c] = "mustWake"]
  /\ UNCHANGED <<flags, functions, wakeupFd, active, pc, functor, ran>>

\* Mutant: quit() leaves the loop where it is.
QuitSilently(c) ==
  /\ c \in MayQuit /\ caller[c] = "out"
  /\ quit' = TRUE
  /\ UNCHANGED <<looping, callingPendingFunctors, queues, wakeupFd, active, pc, functor, caller, ran>>

Quit(c) ==
  /\ c \in MayQuit /\ caller[c] = "out"
  /\ quit' = TRUE
  /\ caller' = [caller EXCEPT ![c] = "mustWake"]
  /\ UNCHANGED <<looping, callingPendingFunctors, queues, wakeupFd, active, pc, functor, ran>>

Wakeup(c) ==
  /\ caller[c] = "mustWake"
  /\ wakeupFd' = TRUE
  /\ caller' = [caller EXCEPT ![c] = "out"]
  /\ UNCHANGED <<flags, queues, active, pc, functor, ran>>

-----------------------------------------------------------------------------
(* The loop thread. *)

LoopEnter ==
  /\ pc = "outside"
  /\ looping' = TRUE /\ quit' = FALSE
  /\ pc' = "test"
  /\ UNCHANGED <<callingPendingFunctors, queues, wakeupFd, active, functor, caller, ran>>

LoopTest ==
  /\ pc = "test"
  /\ pc' = IF quit THEN "left" ELSE "polling"
  /\ looping' = ~quit
  /\ UNCHANGED <<quit, callingPendingFunctors, queues, wakeupFd, active, functor, caller, ran>>

\* epoll_wait sees the eventfd only if its channel was ever registered.
Readable == Wired /\ wakeupFd

\* epoll_wait returns: for the eventfd, for another descriptor, or for both, and
\* with nothing ready only when it has timed out.
PollReturn(other) ==
  /\ pc = "polling"
  /\ active' = (IF Readable THEN {"wakeup"} ELSE {}) \cup other
  /\ pc' = "dispatch"
  /\ UNCHANGED <<flags, queues, wakeupFd, functor, caller, ran>>

PollWakeup == Readable /\ PollReturn({})

PollOther == PollReturn({"other"})

PollTimeout == ~Readable /\ PollReturn({})

\* The wakeup channel is handled: handleRead empties the eventfd.
HandleRead ==
  /\ pc = "dispatch" /\ "wakeup" \in active
  /\ wakeupFd' = FALSE
  /\ active' = active \ {"wakeup"}
  /\ UNCHANGED <<flags, queues, pc, functor, caller, ran>>

\* Code of the user on the loop thread: before loop(), in a handler, in a functor.
UserCode ==
  \/ pc = "outside" /\ EarlyQueue
  \/ pc = "dispatch" /\ "other" \in active
  \/ pc = "functor"

\* Mutant: no wake-up for what a functor queues.
MustWakeNever == FALSE

\* On the loop thread queueInLoop writes to the eventfd while functors are run.
MustWake == callingPendingFunctors

LoopThreadQueue(f) ==
  /\ UserCode /\ Fresh(f)
  /\ pendingFunctors' = Append(pendingFunctors, f)
  /\ wakeupFd' = (wakeupFd \/ MustWake)
  /\ UNCHANGED <<flags, functions, active, pc, functor, caller, ran>>

LoopThreadQuit ==
  /\ UserCode /\ "loop" \in MayQuit
  /\ quit' = TRUE
  /\ UNCHANGED <<looping, callingPendingFunctors, queues, wakeupFd, active, pc, functor, caller, ran>>

\* Mutant: the list is copied and not emptied.
SwapKeeping ==
  /\ pc = "dispatch" /\ "wakeup" \notin active
  /\ callingPendingFunctors' = TRUE
  /\ functions' = pendingFunctors /\ pendingFunctors' = pendingFunctors
  /\ active' = {}
  /\ pc' = "functors"
  /\ UNCHANGED <<quit, looping, wakeupFd, functor, caller, ran>>

\* The handlers are done; doPendingFunctors takes the whole list under mutex_.
Swap ==
  /\ pc = "dispatch" /\ "wakeup" \notin active
  /\ callingPendingFunctors' = TRUE
  /\ functions' = pendingFunctors /\ pendingFunctors' = <<>>
  /\ active' = {}
  /\ pc' = "functors"
  /\ UNCHANGED <<quit, looping, wakeupFd, functor, caller, ran>>

Call ==
  /\ pc = "functors" /\ functions # <<>>
  /\ functor' = Head(functions) /\ functions' = Tail(functions)
  /\ pc' = "functor"
  /\ UNCHANGED <<flags, pendingFunctors, wakeupFd, active, caller, ran>>

\* Mutant: the loop goes on with the functor it has.
ReturnKeeping ==
  /\ pc = "functor"
  /\ ran' = ran \cup {functor}
  /\ pc' = "functors"
  /\ UNCHANGED <<flags, queues, wakeupFd, active, functor, caller>>

Return ==
  /\ pc = "functor"
  /\ ran' = ran \cup {functor}
  /\ functor' = NoFunctor
  /\ pc' = "functors"
  /\ UNCHANGED <<flags, queues, wakeupFd, active, caller>>

FunctorsDone ==
  /\ pc = "functors" /\ functions = <<>>
  /\ callingPendingFunctors' = FALSE
  /\ pc' = "test"
  /\ UNCHANGED <<quit, looping, queues, wakeupFd, active, functor, caller, ran>>

\* loop() has returned and nobody is inside a call.
Stopped ==
  /\ pc = "left" /\ \A c \in Callers : caller[c] = "out"
  /\ UNCHANGED vars

-----------------------------------------------------------------------------
CallerCall(c) == Quit(c) \/ \E f \in Functors : Queue(c, f)

LoopStep ==
  \/ LoopEnter \/ LoopTest \/ PollWakeup \/ HandleRead
  \/ Swap \/ Call \/ Return \/ FunctorsDone

UserStep == LoopThreadQuit \/ \E f \in Functors : LoopThreadQueue(f)

PollStep == PollOther \/ PollTimeout

Next ==
  \/ LoopStep \/ UserStep \/ PollStep
  \/ \E c \in Callers : CallerCall(c) \/ Wakeup(c)
  \/ Stopped

Spec == Init /\ [][Next]_vars

\* The loop thread runs, functors return, and a caller inside queueInLoop or
\* quit gets to its write.  epoll_wait need not time out (kPollTimeMs is ten
\* seconds) and no other descriptor need become ready.
Fairness == WF_vars(LoopStep) /\ \A c \in Callers : WF_vars(Wakeup(c))

FairSpec == Spec /\ Fairness

-----------------------------------------------------------------------------
TypeOK ==
  /\ quit \in BOOLEAN /\ looping \in BOOLEAN /\ callingPendingFunctors \in BOOLEAN
  /\ pendingFunctors \in Seq(Functors) /\ functions \in Seq(Functors)
  /\ wakeupFd \in BOOLEAN
  /\ active \subseteq {"wakeup", "other"}
  /\ pc \in {"outside", "test", "polling", "dispatch", "functors", "functor", "left"}
  /\ functor \in Functors \cup {NoFunctor}
  /\ functor = NoFunctor <=> pc # "functor"
  /\ caller \in [Callers -> {"out", "mustWake"}]
  /\ ran \subseteq Functors

\* Somebody has changed the loop's state and not yet written to the eventfd.
WakeupUnderway == \E c \in Callers : caller[c] = "mustWake"

\* The loop never blocks in the poller over functors that were queued: the
\* poller will see the eventfd, or the thread that queued is about to write it.
NoSleepOverFunctors ==
  pc = "polling" /\ pendingFunctors # <<>> => Readable \/ WakeupUnderway

\* Nor over a request to stop.
NoSleepOverQuit == pc = "polling" /\ quit => Readable \/ WakeupUnderway

\* callingPendingFunctors_ tells a functor on the loop thread from a handler.
CallingExact == callingPendingFunctors <=> pc \in {"functors", "functor"}

\* A functor that was queued runs, unless the loop is told to stop.
QueuedFunctorRuns ==
  \A f \in Functors : In(f, pendingFunctors) ~> (f \in ran \/ quit)

\* Once loop() has begun, a request to stop ends it.
QuitEndsLoop == (quit /\ pc # "outside") ~> pc = "left"

\* Functors run once each, on one thread, in the order in which they were queued.
Contract == INSTANCE WorkQueue WITH
  Tasks    <- Functors,
  pending  <- functions \o pendingFunctors,
  running  <- {functor} \ {NoFunctor},
  finished <- ran,
  refused  <- {},
  closed   <- FALSE

KeepsOrder == Contract!Safe
=============================================================================
