----------------------------- MODULE TcpServer ------------------------------
(***************************************************************************)
(* TcpServer, Acceptor, EventLoopThreadPool and TcpConnection of the Muduo *)
(* library: connections are accepted on the base loop, live on the loop    *)
(* they are given to and are taken apart by both.                          *)
(*                                                                         *)
(* A loop goes around "poll", "events", "functors" as EventLoop describes; *)
(* that queued functors run, once and in order, is proved there.  A step   *)
(* of a loop is a handler or a functor up to the code of the program it    *)
(* calls: only state_, which is atomic, and the lists of functors are      *)
(* shared with other threads.  As committed, connectEstablished calls      *)
(* connectionCallback, a name that is declared nowhere; it is read as      *)
(* connectionCallback_.  The program sets every callback and ignores       *)
(* SIGPIPE.  TcpServer has no destructor body: a server is never gone.     *)
(***************************************************************************)
EXTENDS Poller, Sequences

CONSTANTS
  MaxThreads,            \* bound: loops besides the base loop
  ThreadNums,            \* what setThreadNum may have been given
  MaxConns,              \* bound: connections
  MaxMessages,           \* bound: messages sent
  Size,                  \* the length of a message
  HighWaterMark,
  Users,                 \* threads of the program that are not loops
  CallersWait            \* do they keep the connection and the string they send
                         \*   until the loop has done what they asked?

ServerLoops == 0..MaxThreads
Base == 0
Conns == 1..MaxConns     \* nextConnId_ numbers them; a connection owns its channel
Acceptor == MaxConns + 1 \* the channel of the listening socket
NoConn == NoChannel
Idle == [call |-> "none", conn |-> NoConn, message |-> 0]

ASSUME ServerAssumption ==
  /\ MaxThreads \in Nat /\ ThreadNums \subseteq ServerLoops
  /\ Loops = ServerLoops /\ Channels = Conns
  /\ {MaxConns, MaxMessages, HighWaterMark} \subseteq Nat /\ Size \in Nat \ {0}
  /\ CallersWait \in BOOLEAN
  /\ NoChannel = 0 /\ Fds \subseteq Nat \ {0}

VARIABLES
  numThreads, listenning,
  next,                  \* next_
  nextConnId,
  connections,           \* connections_
  loopOf,                \* loop_ of each connection
  state,                 \* state_; "none" before the connection is made
  output,                \* outputBuffer_
  pending, functions,    \* of each loop: queued functors, and the batch it runs,
  pos,                   \*   with the place it has reached
  at,                    \* of each loop: "poll", "events", "functors"
  active,                \* of each loop: activeChannels_ not yet handled
  handling,              \* of each loop: the connection between its two callbacks
  inUser,                \* of each loop: the connection whose callback runs
  call, holds,           \* of each user: the call it is in, the pointers it keeps
  messages,              \* how many messages were made
  peerClosed,            \* connections whose peer has closed
  fin,                   \* connections whose write side is shut down (history)
  told,                  \* how often connectionCallback_ was called (history)
  wire, accepted         \* bytes written, and bytes sendInLoop took (history)

server == <<numThreads, listenning, next, nextConnId, connections, loopOf>>
queues == <<pending, functions, pos, at>>
where  == <<active, handling>>
users  == <<call, holds>>
data   == <<output, wire, accepted>>
vars   == <<fd, pollers, server, state, data, queues, where, inUser, users, messages,
            peerClosed, fin, told>>

Init ==
  /\ PollerInit
  /\ numThreads \in ThreadNums /\ listenning = FALSE /\ next = 1 /\ nextConnId = 1
  /\ connections = {}
  /\ loopOf = [c \in Conns |-> Base]
  /\ state = [c \in Conns |-> "none"]
  /\ output = [c \in Conns |-> <<>>]
  /\ wire = [c \in Conns |-> <<>>] /\ accepted = [c \in Conns |-> <<>>]
  /\ pending = [l \in Loops |-> <<>>] /\ functions = [l \in Loops |-> <<>>]
  /\ pos = [l \in Loops |-> 1] /\ at = [l \in Loops |-> "poll"]
  /\ active = [l \in Loops |-> {}]
  /\ handling = [l \in Loops |-> NoConn] /\ inUser = [l \in Loops |-> NoConn]
  /\ call = [u \in Users |-> Idle] /\ holds = [u \in Users |-> {}]
  /\ messages = 0 /\ peerClosed = {} /\ fin = {}
  /\ told = [c \in Conns |-> 0]

-----------------------------------------------------------------------------
(* Functors and the life of a connection. *)

Functor(f, c, m) == [run |-> f, conn |-> c, message |-> m]

\* Mutant: connectDestroyed is bound to a plain this as well.
OwningFew == {"connectEstablished", "removeConnectionInLoop", "writeCompleteCallback",
              "highWaterMarkCallback"}

\* Functors that hold a shared pointer; the others are bound to a plain this.
Owning == {"connectEstablished", "removeConnectionInLoop", "connectDestroyed",
           "writeCompleteCallback", "highWaterMarkCallback"}

QueueInLoop(l, f) == pending' = [pending EXCEPT ![l] = Append(@, f)]

In(f, s) == \E i \in 1..Len(s) : s[i] = f

\* A batch keeps its functors, those that have run included, until it is done.
OwnedByFunctor(c) ==
  \E l \in Loops, f \in Owning : \/ In(Functor(f, c, 0), pending[l])
                                 \/ In(Functor(f, c, 0), functions[l])

\* The functors of l that have not run.
Unrun(l) == SubSeq(functions[l], pos[l], Len(functions[l])) \o pending[l]

Alive(c) ==
  /\ state[c] # "none"
  /\ \/ c \in connections
     \/ OwnedByFunctor(c)
     \/ \E l \in Loops : c \in {handling[l], inUser[l]}
     \/ \E u \in Users : c \in holds[u]

-----------------------------------------------------------------------------
(* TcpConnection, on the thread of its loop l. *)

Bytes(m) == [i \in 1..Size |-> <<m, i>>]

\* ::write takes some bytes, or none (EAGAIN and errors that are only logged), or
\* fails with EPIPE or ECONNRESET, and what is left goes to the output buffer.
Write(l, c, m, direct) ==
  \E n \in 0..(IF direct THEN Size ELSE 0) :
    LET rest == SubSeq(Bytes(m), n + 1, Size)
        length == Len(output[c]) + Len(rest)
    IN /\ wire' = [wire EXCEPT ![c] = @ \o SubSeq(Bytes(m), 1, n)]
       /\ output' = [output EXCEPT ![c] = @ \o rest]
       /\ accepted' = [accepted EXCEPT ![c] = @ \o Bytes(m)]
       /\ IF rest = <<>>
          THEN QueueInLoop(l, Functor("writeCompleteCallback", c, 0))
          ELSE IF length > HighWaterMark /\ Len(output[c]) < HighWaterMark
               THEN QueueInLoop(l, Functor("highWaterMarkCallback", c, 0))
               ELSE UNCHANGED pending
       /\ IF rest = <<>> \/ isWriting(c)
          THEN UNCHANGED pollers
          ELSE UpdateChannel(l, c, events[c] \cup {"out"})

\* Mutant: what is buffered is not looked at.
DirectAlways(c) == TRUE

Direct(c) == ~isWriting(c) /\ output[c] = <<>>

SendInLoop(l, c, m) ==
  IF state[c] = "kDisConnected"
  THEN UNCHANGED <<data, pending, pollers>>
  ELSE \/ Write(l, c, m, Direct(c))
       \/ Direct(c) /\ c \in peerClosed /\ UNCHANGED <<data, pending, pollers>>

\* Mutant: the write side is shut down over what is still buffered.
ShutdownAnyway(c) == fin' = fin \cup {c}

ShutdownInLoop(c) == fin' = IF isWriting(c) THEN fin ELSE fin \cup {c}

ConnectEstablished(l, c) ==
  /\ state' = [state EXCEPT ![c] = "kConnected"]
  /\ UpdateChannel(l, c, events[c] \cup {"in"})
  /\ told' = [told EXCEPT ![c] = @ + 1]
  /\ inUser' = [inUser EXCEPT ![l] = c]

\* Mutant: the connection is forgotten, but its loop is not told.
RemoveForgetting(c) == connections' = connections \ {c} /\ UNCHANGED pending

\* removeConnectionInLoop, on the base loop.
RemoveConnectionInLoop(c) ==
  /\ connections' = connections \ {c}
  /\ QueueInLoop(loopOf[c], Functor("connectDestroyed", c, 0))

\* closeCallback_ is removeConnection, which runs on the base loop.
RemoveConnection(l, c) ==
  IF l = Base
  THEN RemoveConnectionInLoop(c)
  ELSE /\ QueueInLoop(Base, Functor("removeConnectionInLoop", c, 0))
       /\ UNCHANGED connections

\* Mutant: the state is not changed.
HandleCloseKeeping(l, c) ==
  /\ UNCHANGED state
  /\ UpdateChannel(l, c, {})
  /\ told' = [told EXCEPT ![c] = @ + 1]
  /\ RemoveConnection(l, c)

\* send() and shutdown() of the callback do nothing any more.
HandleClose(l, c) ==
  /\ state' = [state EXCEPT ![c] = "kDisConnected"]
  /\ UpdateChannel(l, c, {})
  /\ told' = [told EXCEPT ![c] = @ + 1]
  /\ RemoveConnection(l, c)

-----------------------------------------------------------------------------
(* A loop. *)

\* start(): the loops run, and the acceptor listens.
Start ==
  /\ ~listenning
  /\ listenning' = TRUE
  /\ UNCHANGED <<fd, pollers, numThreads, next, nextConnId, connections, loopOf, state, data,
                 queues, where, inUser, users, messages, peerClosed, fin, told>>

Runs(l) == listenning /\ l <= numThreads /\ inUser[l] = NoConn

\* A connection whose peer has closed is reported; others may be, for data, for
\* space to write to, or for an error.
Due(l) == Watched(l) \cap peerClosed

PollReturn(l, ready) ==
  /\ Runs(l) /\ at[l] = "poll"
  /\ Due(l) \subseteq ready
  /\ ready # {} \/ pending[l] # <<>>
  /\ active' = [active EXCEPT ![l] = ready]
  /\ at' = [at EXCEPT ![l] = "events"]
  /\ UNCHANGED <<fd, pollers, server, state, data, pending, functions, pos, handling, inUser,
                 users, messages, peerClosed, fin, told>>

\* Channel::handleEvent up to the write callback.  It goes by events_, not by the
\* events that were reported, so a channel that is watched for space is always
\* written to, and its close and error callbacks are never called.  tie_ can be
\* locked: NoDeadTarget.
HandleEvent(l, c) ==
  /\ Runs(l) /\ at[l] = "events" /\ handling[l] = NoConn /\ c \in active[l]
  /\ handling' = [handling EXCEPT ![l] = c]
  /\ active' = [active EXCEPT ![l] = @ \ {c}]
  /\ UNCHANGED <<fd, server, state, accepted, functions, pos, at, inUser, users, messages,
                 peerClosed, told>>

\* The socket takes nothing, or nothing was to be written.
HandleNoWrite(l, c) ==
  /\ HandleEvent(l, c)
  /\ UNCHANGED <<pollers, output, wire, pending, fin>>

\* Mutant: the socket is still watched for space when nothing is left to write.
KeepWriting(l, c) == UNCHANGED <<pollers, pending, fin>>

\* The buffer has been emptied.
Drained(l, c) ==
  /\ UpdateChannel(l, c, events[c] \ {"out"})
  /\ QueueInLoop(l, Functor("writeCompleteCallback", c, 0))
  /\ fin' = IF state[c] = "kDisConnecting" THEN fin \cup {c} ELSE fin

HandleWrite(l, c, n) ==
  /\ HandleEvent(l, c)
  /\ isWriting(c) /\ n \in 1..Len(output[c])
  /\ wire' = [wire EXCEPT ![c] = @ \o SubSeq(output[c], 1, n)]
  /\ output' = [output EXCEPT ![c] = SubSeq(@, n + 1, Len(@))]
  /\ IF n = Len(output[c]) THEN Drained(l, c) ELSE UNCHANGED <<pollers, pending, fin>>

\* The rest of handleEvent, the read callback.
ReadDone(l, c) ==
  /\ Runs(l) /\ handling[l] = c /\ c # NoConn /\ state[c] # "kConnecting"
  /\ handling' = [handling EXCEPT ![l] = NoConn]
  /\ UNCHANGED <<fd, numThreads, listenning, next, nextConnId, loopOf, data, functions, pos, at,
                 active, users, messages, peerClosed, fin>>

Reads(c) == "in" \in events[c]

HandleMessage(l, c) ==
  /\ ReadDone(l, c) /\ Reads(c) /\ c \notin peerClosed
  /\ inUser' = [inUser EXCEPT ![l] = c]
  /\ UNCHANGED <<pollers, connections, state, pending, told>>

HandleEof(l, c) ==
  /\ ReadDone(l, c) /\ Reads(c) /\ c \in peerClosed
  /\ HandleClose(l, c)
  /\ UNCHANGED inUser

\* readv fails, and handleError only logs; or the channel does not read.
HandleNoRead(l, c) ==
  /\ ReadDone(l, c) /\ (Reads(c) => c \notin peerClosed)
  /\ UNCHANGED <<pollers, connections, state, pending, inUser, told>>

\* The kernel hands out a descriptor that is not open.
Closed(f) == \A c \in Conns : fd[c] = f => ~Alive(c)

\* Mutant: next_ runs past the end of loops_.
NextUnwrapped == next + 1

NextLoop == IF next = numThreads THEN 1 ELSE next + 1

\* Acceptor::handleRead and TcpServer::newConnection, on the base loop.
Accept == Runs(Base) /\ at[Base] = "events" /\ handling[Base] = NoConn /\ Acceptor \in active[Base]

AcceptFails ==
  /\ Accept
  /\ active' = [active EXCEPT ![Base] = @ \ {Acceptor}]
  /\ UNCHANGED <<fd, pollers, server, state, data, queues, handling, inUser, users, messages,
                 peerClosed, fin, told>>

\* runInLoop queues connectEstablished on another loop and calls it on this one.
NewConnection(f) ==
  LET c == nextConnId
      l == IF numThreads = 0 THEN Base ELSE next
  IN /\ Accept /\ c \in Conns /\ Closed(f)
     /\ active' = [active EXCEPT ![Base] = @ \ {Acceptor}]
     /\ nextConnId' = c + 1
     /\ next' = IF numThreads = 0 THEN next ELSE NextLoop
     /\ fd' = [fd EXCEPT ![c] = f]
     /\ loopOf' = [loopOf EXCEPT ![c] = l]
     /\ state' = [state EXCEPT ![c] = "kConnecting"]
     /\ connections' = connections \cup {c}
     /\ IF l = Base
        THEN handling' = [handling EXCEPT ![Base] = c] /\ UNCHANGED pending
        ELSE QueueInLoop(l, Functor("connectEstablished", c, 0)) /\ UNCHANGED handling
     /\ UNCHANGED <<pollers, numThreads, listenning, data, functions, pos, at, inUser, users,
                    messages, peerClosed, fin, told>>

EstablishNow(c) ==
  /\ Runs(Base) /\ handling[Base] = c /\ c # NoConn /\ state[c] = "kConnecting"
  /\ handling' = [handling EXCEPT ![Base] = NoConn]
  /\ ConnectEstablished(Base, c)
  /\ UNCHANGED <<fd, server, data, queues, active, users, messages, peerClosed, fin>>

\* The handlers are done; doPendingFunctors takes the list.
Swap(l) ==
  /\ Runs(l) /\ at[l] = "events" /\ active[l] = {} /\ handling[l] = NoConn
  /\ functions' = [functions EXCEPT ![l] = pending[l]]
  /\ pending' = [pending EXCEPT ![l] = <<>>]
  /\ pos' = [pos EXCEPT ![l] = 1]
  /\ at' = [at EXCEPT ![l] = "functors"]
  /\ UNCHANGED <<fd, pollers, server, state, data, where, inUser, users, messages, peerClosed,
                 fin, told>>

\* The next functor of the batch of l is f, for connection c.
Turn(l, f, c) ==
  /\ Runs(l) /\ at[l] = "functors" /\ pos[l] <= Len(functions[l])
  /\ functions[l][pos[l]].run = f /\ functions[l][pos[l]].conn = c
  /\ UNCHANGED <<fd, numThreads, listenning, next, nextConnId, loopOf, functions, at, where,
                 users, messages, peerClosed>>

\* It runs.
Run(l, f, c) == Turn(l, f, c) /\ pos' = [pos EXCEPT ![l] = @ + 1]

RunEstablished(l, c) ==
  /\ Run(l, "connectEstablished", c)
  /\ ConnectEstablished(l, c)
  /\ UNCHANGED <<connections, data, pending, fin>>

RunSend(l, c) ==
  /\ Run(l, "sendInLoop", c)
  /\ SendInLoop(l, c, functions[l][pos[l]].message)
  /\ UNCHANGED <<connections, state, inUser, fin, told>>

RunShutdown(l, c) ==
  /\ Run(l, "shutdownInLoop", c)
  /\ ShutdownInLoop(c)
  /\ UNCHANGED <<pollers, connections, state, data, pending, inUser, told>>

RunRemove(l, c) ==
  /\ Run(l, "removeConnectionInLoop", c)
  /\ RemoveConnectionInLoop(c)
  /\ UNCHANGED <<pollers, state, data, inUser, fin, told>>

\* connectDestroyed.  Of a connection that is up it disables the channel and calls
\* the program first; it goes on to remove the channel when the callback is done.
\* Nothing in the server destroys such a connection.
RunDestroyed(l, c) ==
  /\ IF state[c] = "kConnected"
     THEN /\ Turn(l, "connectDestroyed", c) /\ UNCHANGED pos
          /\ state' = [state EXCEPT ![c] = "kDisConnected"]
          /\ UpdateChannel(l, c, {})
          /\ told' = [told EXCEPT ![c] = @ + 1]
          /\ inUser' = [inUser EXCEPT ![l] = c]
     ELSE /\ Run(l, "connectDestroyed", c)
          /\ RemoveChannel(l, c)
          /\ UNCHANGED <<state, told, inUser>>
  /\ UNCHANGED <<connections, data, pending, fin>>

RunCallback(l, c) ==
  /\ Run(l, "writeCompleteCallback", c) \/ Run(l, "highWaterMarkCallback", c)
  /\ inUser' = [inUser EXCEPT ![l] = c]
  /\ UNCHANGED <<pollers, connections, state, data, pending, fin, told>>

\* The batch is dropped, and with it the pointers its functors held.
FunctorsDone(l) ==
  /\ Runs(l) /\ at[l] = "functors" /\ pos[l] > Len(functions[l])
  /\ functions' = [functions EXCEPT ![l] = <<>>]
  /\ pos' = [pos EXCEPT ![l] = 1]
  /\ at' = [at EXCEPT ![l] = "poll"]
  /\ UNCHANGED <<fd, pollers, server, state, data, pending, where, inUser, users, messages,
                 peerClosed, fin, told>>

-----------------------------------------------------------------------------
(* Code of the program: in a callback on loop l, and on threads of its own. *)

Callback(l, c) ==
  /\ inUser[l] = c /\ c # NoConn
  /\ UNCHANGED <<fd, server, functions, pos, at, where, call, peerClosed, told>>

CallbackSend(l, c) ==
  /\ Callback(l, c) /\ state[c] = "kConnected" /\ messages < MaxMessages
  /\ messages' = messages + 1
  /\ SendInLoop(l, c, messages + 1)
  /\ UNCHANGED <<state, inUser, holds, fin>>

\* What shutdown() sets; nothing ever sets kDisConnecting, which handleWrite tests.
ClosingState == "kDisConnected"

CallbackShutdown(l, c) ==
  /\ Callback(l, c) /\ state[c] = "kConnected"
  /\ state' = [state EXCEPT ![c] = ClosingState]
  /\ ShutdownInLoop(c)
  /\ UNCHANGED <<pollers, data, pending, inUser, holds, messages>>

\* The callback keeps the pointer where another thread finds it.
HandOut(l, c, u) ==
  /\ Callback(l, c)
  /\ holds' = [holds EXCEPT ![u] = @ \cup {c}]
  /\ UNCHANGED <<pollers, state, data, pending, inUser, messages, fin>>

CallbackReturn(l, c) ==
  /\ Callback(l, c)
  /\ inUser' = [inUser EXCEPT ![l] = NoConn]
  /\ UNCHANGED <<pollers, state, data, pending, holds, messages, fin>>

\* What they queue.
Asking == {"sendInLoop", "shutdownInLoop"}

\* send() and shutdown() look at state_ first ...
UserCall(u, c, what) ==
  /\ call[u] = Idle /\ c \in holds[u] /\ state[c] = "kConnected"
  /\ what = "sendInLoop" => messages < MaxMessages
  /\ messages' = IF what = "sendInLoop" THEN messages + 1 ELSE messages
  /\ call' = [call EXCEPT ![u] = [call |-> what, conn |-> c, message |-> messages']]
  /\ UNCHANGED <<fd, pollers, server, state, data, queues, where, inUser, holds, peerClosed,
                 fin, told>>

\* ... shutdown() changes it ...
UserSetState(u) ==
  /\ call[u].call = "shutdown"
  /\ state' = [state EXCEPT ![call[u].conn] = ClosingState]
  /\ call' = [call EXCEPT ![u].call = "shutdownInLoop"]
  /\ UNCHANGED <<fd, pollers, server, data, queues, where, inUser, holds, messages, peerClosed,
                 fin, told>>

\* ... and they queue, whatever it has become.
UserQueue(u) ==
  /\ call[u].call \in Asking
  /\ QueueInLoop(loopOf[call[u].conn], Functor(call[u].call, call[u].conn, call[u].message))
  /\ call' = [call EXCEPT ![u] = Idle]
  /\ UNCHANGED <<fd, pollers, server, state, data, functions, pos, at, where, inUser, holds,
                 messages, peerClosed, fin, told>>

\* Is something that a user asked of c still to be done by its loop?
Asked(c) ==
  \E i \in 1..Len(Unrun(loopOf[c])) :
    /\ Unrun(loopOf[c])[i].conn = c
    /\ Unrun(loopOf[c])[i].run \in Asking

UserDrop(u, c) ==
  /\ c \in holds[u] /\ call[u].conn # c
  /\ CallersWait => ~Asked(c)
  /\ holds' = [holds EXCEPT ![u] = @ \ {c}]
  /\ UNCHANGED <<fd, pollers, server, state, data, queues, where, inUser, call, messages,
                 peerClosed, fin, told>>

\* The peer's end of file is the next thing to be read.
PeerClose(c) ==
  /\ state[c] # "none" /\ c \notin peerClosed
  /\ peerClosed' = peerClosed \cup {c}
  /\ UNCHANGED <<fd, pollers, server, state, data, queues, where, inUser, users, messages, fin,
                 told>>

-----------------------------------------------------------------------------
LoopStep(l) ==
  \/ \E ready \in SUBSET (Watched(l) \cup IF l = Base THEN {Acceptor} ELSE {}) :
       PollReturn(l, ready)
  \/ \E c \in Conns : \/ HandleNoWrite(l, c)
                      \/ \E n \in 1..Len(output[c]) : HandleWrite(l, c, n)
                      \/ HandleMessage(l, c) \/ HandleEof(l, c) \/ HandleNoRead(l, c)
                      \/ RunEstablished(l, c) \/ RunSend(l, c) \/ RunShutdown(l, c)
                      \/ RunRemove(l, c) \/ RunDestroyed(l, c) \/ RunCallback(l, c)
                      \/ CallbackReturn(l, c)
  \/ l = Base /\ (AcceptFails \/ \E f \in Fds : NewConnection(f))
  \/ l = Base /\ \E c \in Conns : EstablishNow(c)
  \/ Swap(l) \/ FunctorsDone(l)

UserStep ==
  \/ \E l \in Loops, c \in Conns :
       \/ CallbackSend(l, c) \/ CallbackShutdown(l, c)
       \/ \E u \in Users : HandOut(l, c, u)
  \/ \E u \in Users : UserSetState(u) \/ UserQueue(u)
  \/ \E u \in Users, c \in Conns :
       \/ UserDrop(u, c)
       \/ \E what \in {"sendInLoop", "shutdown"} : UserCall(u, c, what)

Next ==
  \/ Start
  \/ \E l \in Loops : LoopStep(l)
  \/ UserStep
  \/ \E c \in Conns : PeerClose(c)

Spec == Init /\ [][Next]_vars

\* Loops run and callbacks return.  Nobody need connect, send or close, and no
\* socket need take what is written to it.
FairSpec == Spec /\ \A l \in Loops : WF_vars(LoopStep(l))

-----------------------------------------------------------------------------
Made == 1..(nextConnId - 1)

FunctorNames == Owning \cup Asking

Functors == [run : FunctorNames, conn : Conns, message : 0..MaxMessages]

Calls == [call : Asking \cup {"shutdown"}, conn : Conns, message : 0..MaxMessages]

Octets == (1..MaxMessages) \X (1..Size)

TypeOK ==
  /\ fd \in [Conns -> Fds \cup {0}]
  /\ events \in [Conns -> SUBSET {"in", "out"}]
  /\ index \in [Conns -> {"kNew", "kAdded", "kDeleted"}]
  /\ channels \in [Loops -> [Fds -> Conns \cup {NoConn}]]
  /\ epoll \in [Loops -> [Fds -> [channel : Conns \cup {NoConn}, events : SUBSET {"in", "out"}]]]
  /\ refused \in BOOLEAN /\ listenning \in BOOLEAN
  /\ numThreads \in ThreadNums /\ nextConnId \in 1..(MaxConns + 1)
  /\ next \in 1..(IF numThreads = 0 THEN 1 ELSE numThreads)
  /\ connections \subseteq Made
  /\ loopOf \in [Conns -> Loops]
  /\ state \in [Conns -> {"none", "kConnecting", "kConnected", "kDisConnecting", "kDisConnected"}]
  /\ output \in [Conns -> Seq(Octets)]
  /\ wire \in [Conns -> Seq(Octets)] /\ accepted \in [Conns -> Seq(Octets)]
  /\ pending \in [Loops -> Seq(Functors)] /\ functions \in [Loops -> Seq(Functors)]
  /\ pos \in [Loops -> Nat] /\ \A l \in Loops : pos[l] \in 1..(Len(functions[l]) + 1)
  /\ at \in [Loops -> {"poll", "events", "functors"}]
  /\ active \in [Loops -> SUBSET (Conns \cup {Acceptor})]
  /\ handling \in [Loops -> Conns \cup {NoConn}] /\ inUser \in [Loops -> Conns \cup {NoConn}]
  /\ call \in [Users -> {Idle} \cup Calls]
  /\ \A u \in Users : call[u] = Idle \/ call[u].conn \in holds[u]
  /\ holds \in [Users -> SUBSET Made]
  /\ messages \in 0..MaxMessages
  /\ peerClosed \subseteq Made /\ fin \subseteq Made
  /\ told \in [Conns -> Nat]

\* The poller, its channels and the kernel agree: epoll_ctl never fails, the
\* kernel watches exactly the channels that index_ says it does, for the events
\* they want, and channels_ holds exactly those that were not removed.
PollerAgrees ==
  /\ ~refused
  /\ \A c \in Made :
       LET entry == epoll[loopOf[c]][fd[c]]
       IN /\ index[c] = "kAdded" =>
               entry = [channel |-> c, events |-> events[c]] /\ events[c] # {}
          /\ index[c] # "kAdded" => entry.channel # c /\ events[c] = {}
          /\ index[c] = "kNew" <=> channels[loopOf[c]][fd[c]] # c

\* No poller knows a connection that has been destroyed, whose descriptor may by
\* then be that of another one.
NoDanglingChannel ==
  \A l \in Loops, f \in Fds :
    /\ channels[l][f] # NoConn => Alive(channels[l][f])
    /\ epoll[l][f].channel # NoConn => Alive(epoll[l][f].channel)

\* Nothing is going to be called on a connection that has been destroyed: neither
\* the handler of a reported event nor a functor bound to a plain this.
NoDeadTarget ==
  /\ \A l \in Loops : \A c \in active[l] \cap Conns : Alive(c)
  /\ \A l \in Loops : \A i \in 1..Len(Unrun(l)) : Alive(Unrun(l)[i].conn)

\* What was written and what is buffered are the bytes sendInLoop took, in order.
WireInOrder == \A c \in Made : wire[c] \o output[c] = accepted[c]

\* While a connection is open its socket is watched for space exactly when
\* something is left to write: output does not stall, and the loop does not spin.
WriteArmed ==
  \A c \in Made : told[c] = 1 => (output[c] # <<>> <=> isWriting(c))

\* After its write side was shut down nothing is written to a connection, and
\* nothing is left to be.
NothingAfterFin ==
  [][\A c \in fin : wire'[c] = wire[c] /\ (told[c] = 1 => output[c] = <<>>)]_vars

\* The program hears of a connection when it is up and when it is down, and of
\* messages only in between.
CallbacksInOrder ==
  [][/\ \A c \in Conns : told'[c] \in {told[c], told[c] + 1} /\ told'[c] <= 2
     /\ \A l \in Loops : inUser'[l] # inUser[l] /\ at[l] = "events" /\ inUser'[l] # NoConn
                          => told'[inUser'[l]] = 1]_vars

\* When the peer closes, the server forgets the connection and its poller loses
\* the channel, whatever else the loops and the program are doing.
PeerCloseForgets ==
  \A c \in Conns : c \in peerClosed ~> (c \notin connections /\ index[c] = "kNew")

\* A connection that was shut down and has nothing left to write has its write
\* side shut down (TcpConnection.cc:79 and the comment at 218).
ShutdownDrains ==
  \A c \in Made :
    (/\ state[c] = "kDisConnected" /\ told[c] = 1 /\ output[c] = <<>>
     /\ ~Asked(c) /\ \A u \in Users : call[u].conn # c) => c \in fin
=============================================================================
