-------------------------- MODULE EventLoopThread ---------------------------
(***************************************************************************)
(* EventLoopThread: a thread that builds an EventLoop in its own frame,    *)
(* publishes a pointer to it and runs it, and the owner, which starts the  *)
(* thread, hands the loop to its callers and destroys the object.  The     *)
(* loop itself is EventLoop; every action of its is an action here, with   *)
(* the moments at which the code of this class lets it happen.             *)
(***************************************************************************)
EXTENDS EventLoop

CONSTANT
  Owner                  \* the caller that owns the object

ASSUME ThreadAssumption == Owner \in Callers \cap MayQuit

VARIABLES
  loop_,                 \* is loop_ set?
  thread,                \* where the thread is
  owner                  \* where the owner is

handle  == <<loop_, thread, owner>>
allVars == <<vars, handle>>

ThreadInit == Init /\ loop_ = FALSE /\ thread = "unstarted" /\ owner = "new"

OthersOut == \A c \in Callers \ {Owner} : caller[c] = "out"

-----------------------------------------------------------------------------
(* The owner: startLoop and the destructor. *)

\* Thread::start up to sem_wait.
StartLoop ==
  /\ owner = "new"
  /\ thread' = "spawned" /\ owner' = "spawning"
  /\ UNCHANGED <<vars, loop_>>

\* sem_wait has returned; startLoop takes mutex_ and finds no loop.
StartWait ==
  /\ owner \in {"spawning", "woken"} /\ thread # "spawned"
  /\ ~loop_
  /\ owner' = "waiting"
  /\ UNCHANGED <<vars, loop_, thread>>

\* Mutant: if in the place of while.
HandOutOnce == owner = "woken" \/ loop_

HandOut == loop_

StartReturn ==
  /\ owner \in {"spawning", "woken"} /\ thread # "spawned"
  /\ HandOut
  /\ owner' = "started"
  /\ UNCHANGED <<vars, loop_, thread>>

SpuriousWake ==
  /\ owner = "waiting"
  /\ owner' = "woken"
  /\ UNCHANGED <<vars, loop_, thread>>

\* ~EventLoopThread reads loop_ without mutex_: without a loop there is
\* nothing to stop and nobody to wait for.
Destroy ==
  /\ owner \in {"new", "started"} /\ OthersOut
  /\ owner' = IF loop_ THEN "quitting" ELSE "destroyed"
  /\ UNCHANGED <<vars, loop_, thread>>

\* loop_->quit() up to its write to the eventfd, which is Wakeup(Owner).
DestroyQuit ==
  /\ owner = "quitting"
  /\ Quit(Owner)
  /\ owner' = "joining"
  /\ UNCHANGED <<loop_, thread>>

\* Mutant: the thread is left to itself.
JoinNobody == TRUE

\* Thread::join.
Join == thread = "ended"

DestroyJoin ==
  /\ owner = "joining" /\ caller[Owner] = "out"
  /\ Join
  /\ owner' = "destroyed"
  /\ UNCHANGED <<vars, loop_, thread>>

-----------------------------------------------------------------------------
(* The thread: threadFunc around loop(). *)

\* The lambda of Thread::start posts and enters threadFunc.
Begin ==
  /\ thread = "spawned"
  /\ thread' = "init"
  /\ UNCHANGED <<vars, loop_, owner>>

\* Mutant: no notify_one.
PublishSilently ==
  /\ thread = "init"
  /\ loop_' = TRUE /\ thread' = "looping"
  /\ UNCHANGED <<vars, owner>>

\* callback_ has returned; loop_ is set and the owner notified under mutex_.
Publish ==
  /\ thread = "init"
  /\ loop_' = TRUE /\ thread' = "looping"
  /\ owner' = IF owner = "waiting" THEN "woken" ELSE owner
  /\ UNCHANGED vars

\* Mutant: loop_ keeps pointing to the loop that is gone.
UnpublishNothing ==
  /\ thread = "looping" /\ pc = "left"
  /\ thread' = "ending"
  /\ UNCHANGED <<vars, loop_, owner>>

\* loop() has returned; mutex_ is held until the end of threadFunc.
Unpublish ==
  /\ thread = "looping" /\ pc = "left"
  /\ loop_' = FALSE /\ thread' = "ending"
  /\ UNCHANGED <<vars, owner>>

\* mutex_ is released, then the loop is destroyed with the frame.
End ==
  /\ thread = "ending"
  /\ thread' = "ended"
  /\ UNCHANGED <<vars, loop_, owner>>

-----------------------------------------------------------------------------
(* The loop and those who use it. *)

\* callback_ and loop() are what the thread does with the loop.
ThreadMayStep == IF pc = "outside" THEN thread = "looping" ELSE thread # "ended"

LoopRuns == ThreadMayStep /\ LoopStep /\ UNCHANGED handle

LoopPolls == PollStep /\ UNCHANGED handle

UserRuns ==
  /\ pc = "outside" => thread = "init"
  /\ UserStep
  /\ UNCHANGED handle

\* Callers have the pointer from startLoop; other threads leave quit() to the owner,
\* functors and handlers need not.
CallerRuns(c) ==
  /\ owner = "started"
  /\ \E f \in Functors : Queue(c, f)
  /\ UNCHANGED handle

WakeupRuns(c) == Wakeup(c) /\ UNCHANGED handle

Finished ==
  /\ owner = "destroyed" /\ thread \in {"unstarted", "ended"}
  /\ UNCHANGED allVars

OwnerStep == StartWait \/ StartReturn \/ DestroyQuit \/ DestroyJoin

ThreadStep == Begin \/ Publish \/ Unpublish \/ End \/ LoopRuns

ThreadNext ==
  \/ StartLoop \/ Destroy \/ OwnerStep \/ SpuriousWake
  \/ ThreadStep \/ LoopPolls \/ UserRuns
  \/ \E c \in Callers : CallerRuns(c) \/ WakeupRuns(c)
  \/ Finished

ThreadSpec == ThreadInit /\ [][ThreadNext]_allVars

\* The thread runs, callback_ and functors return, and the owner's calls go on;
\* the owner need not start the loop nor destroy it.
ThreadFairness ==
  /\ WF_allVars(ThreadStep) /\ WF_allVars(OwnerStep)
  /\ \A c \in Callers : WF_allVars(WakeupRuns(c))

ThreadFairSpec == ThreadSpec /\ ThreadFairness

-----------------------------------------------------------------------------
ThreadTypeOK ==
  /\ TypeOK
  /\ loop_ \in BOOLEAN
  /\ thread \in {"unstarted", "spawned", "init", "looping", "ending", "ended"}
  /\ owner \in {"new", "spawning", "waiting", "woken", "started", "quitting",
                "joining", "destroyed"}
  /\ loop_ <=> thread = "looping"

\* The loop that startLoop returned exists until the owner destroys the object,
\* unless the program's own code on the loop has quit it.
LoopOutlivesItsUsers == owner \in {"started", "quitting"} /\ ~quit => loop_

\* When the destructor of EventLoopThread returns, no thread is left that could
\* touch loop_ and mutex_, unless it found that a functor had quit the loop before:
\* it reads loop_ without mutex_, and then waits for nobody.
NoUseAfterDestroy ==
  [][owner # "destroyed" /\ owner' = "destroyed" =>
       thread \in {"unstarted", "ended"} \/ (owner = "started" /\ quit)]_allVars

\* startLoop returns, unless the loop is quit before startLoop has seen it.
StartReturns == owner = "spawning" ~> owner = "started" \/ quit

\* The destructor stops the loop and returns, if it finds that loop() has begun:
\* loop() undoes a quit() that came before.
DtorReturns == owner = "quitting" /\ pc # "outside" ~> owner = "destroyed"
=============================================================================
