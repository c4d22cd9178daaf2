----------------------------- MODULE WorkQueue ------------------------------
(***************************************************************************)
(* What the thread pool promises to the code that submits tasks, and an    *)
(* event loop to the code that queues functors: accepted tasks begin in    *)
(* the order in which they were accepted, each is run once, refused tasks  *)
(* are never run, and the queue closes only when every task it accepted    *)
(* has finished.  It says nothing of threads, locks, limits or counters.   *)
(***************************************************************************)
EXTENDS Integers, Sequences

CONSTANT Tasks

VARIABLES
  pending,               \* accepted tasks that have not begun, oldest first
  running, finished,     \* tasks that have begun, and of those the finished ones
  refused,
  closed

vars == <<pending, running, finished, refused, closed>>

Init ==
  /\ pending = <<>>
  /\ running = {} /\ finished = {} /\ refused = {}
  /\ closed = FALSE

Fresh(t) ==
  /\ t \notin running \cup finished \cup refused
  /\ \A i \in 1..Len(pending) : pending[i] # t

Accept(t) ==
  /\ ~closed /\ Fresh(t)
  /\ pending' = Append(pending, t)
  /\ UNCHANGED <<running, finished, refused, closed>>

Refuse(t) ==
  /\ ~closed /\ Fresh(t)
  /\ refused' = refused \cup {t}
  /\ UNCHANGED <<pending, running, finished, closed>>

Begin ==
  /\ pending # <<>>
  /\ running' = running \cup {Head(pending)}
  /\ pending' = Tail(pending)
  /\ UNCHANGED <<finished, refused, closed>>

Finish(t) ==
  /\ t \in running
  /\ running' = running \ {t}
  /\ finished' = finished \cup {t}
  /\ UNCHANGED <<pending, refused, closed>>

Close ==
  /\ pending = <<>> /\ running = {}
  /\ closed' = TRUE
  /\ UNCHANGED <<pending, running, finished, refused>>

Next ==
  \/ \E t \in Tasks : Accept(t) \/ Refuse(t) \/ Finish(t)
  \/ Begin
  \/ Close

\* Work that was accepted begins, and work that has begun finishes.
Fairness == WF_vars(Begin) /\ \A t \in Tasks : WF_vars(Finish(t))

Safe == Init /\ [][Next]_vars

Spec == Safe /\ Fairness
=============================================================================
