--------------------------- MODULE TcpServerProofs ---------------------------
(***************************************************************************)
(* The life of a connection of TcpServer, proved for every number of loops *)
(* and connections, every message size and any set of descriptors.         *)
(*                                                                         *)
(* The invariant follows a connection through its stages, told[c] = 0, 1   *)
(* and 2: being set up, open, and being taken apart.  What a queued        *)
(* functor, a reported event or a call of the program may find is settled  *)
(* by the stage, and so is what the poller knows of the channel.           *)
(***************************************************************************)
EXTENDS TcpServer, SequenceTheorems, TLAPS

Elements(s) == {s[i] : i \in 1..Len(s)}

\* What l has still to run.
Todo(l) == Elements(Unrun(l))

\* The functors that move a connection from a stage to the next.
Moves == {"connectEstablished", "removeConnectionInLoop", "connectDestroyed"}

MessagesNumbered ==
  \A u \in Users : call[u] # Idle /\ call[u].call = "sendInLoop" => call[u].message > 0

Unmade(c) == state[c] = "none" /\ fd[c] = 0 /\ told[c] = 0

SettingUp(c) ==
  /\ index[c] = "kNew" /\ events[c] = {} /\ output[c] = <<>> /\ c \notin fin
  /\ c \in Made => c \in connections /\ state[c] = "kConnecting"

Open(c) ==
  /\ c \in connections /\ index[c] = "kAdded" /\ "in" \in events[c]
  /\ state[c] \in {"kConnected", "kDisConnected"}
  /\ output[c] # <<>> <=> isWriting(c)
  /\ c \in fin => state[c] = "kDisConnected" /\ output[c] = <<>>

Finished(c) ==
  /\ state[c] = "kDisConnected" /\ events[c] = {} /\ index[c] \in {"kDeleted", "kNew"}
  /\ c \in connections => index[c] = "kDeleted"
  /\ index[c] = "kDeleted" /\ c \notin connections =>
       Functor("connectDestroyed", c, 0) \in Todo(loopOf[c])

Staged(c) ==
  /\ told[c] \in 0..2
  /\ c \in Made => state[c] # "none" /\ fd[c] \in Fds
  /\ c \notin Made => Unmade(c)
  /\ told[c] = 0 => SettingUp(c)
  /\ told[c] = 1 => Open(c)
  /\ told[c] = 2 => Finished(c)

Stages == \A c \in Conns : Staged(c)

\* What a functor that l has not run may find.
Sound(l, r) ==
  LET c == r.conn
  IN /\ c \in Made
     /\ r.run # "sendInLoop" => r.message = 0 \/ r.run = "shutdownInLoop"
     /\ r.run = "sendInLoop" => r.message > 0
     /\ l = IF r.run = "removeConnectionInLoop" THEN Base ELSE loopOf[c]
     /\ r.run = "connectEstablished" => told[c] = 0 /\ l # Base
     /\ r.run = "removeConnectionInLoop" => told[c] = 2 /\ c \in connections
     /\ r.run = "connectDestroyed" => told[c] = 2 /\ c \notin connections /\ index[c] = "kDeleted"
     /\ r.run \notin Moves => told[c] # 0
     /\ r.run = "shutdownInLoop" => state[c] = "kDisConnected"

\* A functor that moves a connection is not queued twice.
Distinct(s) ==
  \A i, j \in 1..Len(s) :
    s[i].run \in Moves /\ s[j].run = s[i].run /\ s[j].conn = s[i].conn => j = i

QueueSound == \A l \in Loops : Distinct(Unrun(l)) /\ \A r \in Todo(l) : Sound(l, r)

\* What a loop is at.
Attends(l) ==
  /\ at[l] # "functors" => functions[l] = <<>> /\ pos[l] = 1
  /\ at[l] # "events" => active[l] = {} /\ handling[l] = NoConn
  /\ \A c \in active[l] \cap Conns : loopOf[c] = l /\ told[c] = 1 /\ handling[l] # c
  /\ Acceptor \in active[l] => l = Base
  /\ handling[l] # NoConn => /\ handling[l] \in Made /\ loopOf[handling[l]] = l
                             /\ told[handling[l]] = 1 \/ (told[handling[l]] = 0 /\ l = Base)
  /\ inUser[l] # NoConn => inUser[l] \in Made /\ loopOf[inUser[l]] = l /\ told[inUser[l]] # 0

LoopSound == \A l \in Loops : Attends(l)

HeldSound == \A u \in Users : \A c \in holds[u] : told[c] # 0

\* A descriptor is closed, and used again, only after its connection is gone.
Gone(c) == told[c] = 2 /\ index[c] = "kNew" /\ c \notin connections

DescriptorsApart == \A c, d \in Made : fd[c] = fd[d] => c = d \/ Gone(c) \/ Gone(d)

Polled ==
  /\ refused = FALSE
  /\ \A c \in Made :
       /\ index[c] = "kAdded" => epoll[loopOf[c]][fd[c]] = [channel |-> c, events |-> events[c]]
       /\ index[c] # "kNew" => channels[loopOf[c]][fd[c]] = c
  /\ \A l \in Loops, f \in Fds :
       /\ epoll[l][f] = NoEntry \/ \E c \in Made :
            epoll[l][f].channel = c /\ loopOf[c] = l /\ fd[c] = f /\ index[c] = "kAdded"
       /\ channels[l][f] = NoConn \/ \E c \in Made :
            channels[l][f] = c /\ loopOf[c] = l /\ fd[c] = f /\ index[c] # "kNew"

InOrder == \A c \in Conns : wire[c] \o output[c] = accepted[c]

IInv ==
  /\ TypeOK /\ MessagesNumbered /\ Stages /\ QueueSound /\ LoopSound /\ HeldSound
  /\ DescriptorsApart /\ Polled /\ InOrder

-----------------------------------------------------------------------------
(* Queues. *)

USE DEF server, queues, where, users, data, pollers

LEMMA Sizes ==
  /\ Loops = 0..MaxThreads /\ MaxThreads \in Nat /\ Base \in Loops /\ Base = 0
  /\ Conns = 1..MaxConns /\ Channels = Conns
  /\ MaxConns \in Nat /\ MaxMessages \in Nat /\ HighWaterMark \in Nat
  /\ NoConn = 0 /\ NoChannel = 0 /\ NoConn \notin Conns /\ Acceptor \notin Conns
  /\ Size \in Nat \ {0} /\ Fds \subseteq Nat \ {0} /\ ThreadNums \subseteq Loops
BY ServerAssumption DEF ServerLoops, Base, Conns, NoConn, Acceptor

\* A batch from its place on, followed by the queue, when the queue grows, when
\* a functor runs and when there is nothing in one of the two.
LEMMA RestAppend ==
  ASSUME NEW s \in Seq(Functors), NEW p \in 1..(Len(s) + 1), NEW t \in Seq(Functors), NEW r \in Functors
  PROVE  SubSeq(s, p, Len(s)) \o Append(t, r) = Append(SubSeq(s, p, Len(s)) \o t, r)
<1> DEFINE h == SubSeq(s, p, Len(s))
<1>1. h \in Seq(Functors) /\ <<r>> \in Seq(Functors)
  BY SubSeqProperties
<1> HIDE DEF h
<1>2. h \o t \in Seq(Functors)
  BY <1>1, ConcatProperties
<1>3. h \o Append(t, r) = h \o (t \o <<r>>)
  BY AppendIsConcat
<1>4. Append(h \o t, r) = (h \o t) \o <<r>>
  BY <1>2, AppendIsConcat
<1>5. h \o Append(t, r) = Append(h \o t, r)
  BY <1>1, <1>3, <1>4, ConcatAssociative
<1>6. QED
  BY <1>5 DEF h

LEMMA RestTail ==
  ASSUME NEW S, NEW s \in Seq(S), NEW p \in 1..Len(s), NEW t \in Seq(S)
  PROVE  SubSeq(s, p, Len(s)) \o t = <<s[p]>> \o (SubSeq(s, p + 1, Len(s)) \o t)
<1> DEFINE h == SubSeq(s, p + 1, Len(s))
<1>1. h \in Seq(S) /\ <<s[p]>> \in Seq(S)
  <2>1. p + 1 \in Int /\ Len(s) \in Int /\ \A i \in (p + 1)..Len(s) : s[i] \in S
    OBVIOUS
  <2>2. s[p] \in S
    OBVIOUS
  <2>3. QED
    BY <2>1, <2>2, SubSeqProperties
<1>2. SubSeq(s, p, Len(s)) = <<s[p]>> \o h
  BY SubSeqRecursiveFirst
<1> HIDE DEF h
<1>3. (<<s[p]>> \o h) \o t = <<s[p]>> \o (h \o t)
  BY <1>1, ConcatAssociative
<1>4. QED
  BY <1>2, <1>3 DEF h

LEMMA RestNone ==
  ASSUME NEW S, NEW s \in Seq(S), NEW t \in Seq(S)
  PROVE  /\ SubSeq(s, Len(s) + 1, Len(s)) \o t = t
         /\ SubSeq(<<>>, 1, Len(<<>>)) \o t = t
         /\ SubSeq(t, 1, Len(t)) \o <<>> = t
<1>1. SubSeq(s, Len(s) + 1, Len(s)) = <<>> /\ SubSeq(<<>>, 1, Len(<<>>)) = <<>>
  BY SubSeqEmpty
<1>2. QED
  BY <1>1, SubSeqFull, ConcatEmptySeq

\* A new functor at the end.
LEMMA DistinctAppend ==
  ASSUME NEW s \in Seq(Functors), NEW r \in Functors
  PROVE  /\ Append(s, r) \in Seq(Functors)
         /\ Elements(Append(s, r)) = Elements(s) \cup {r}
         /\ Distinct(s) /\ (r.run \in Moves => \A x \in Elements(s) : ~(x.run = r.run /\ x.conn = r.conn))
              => Distinct(Append(s, r))
<1> DEFINE v == Append(s, r)
<1>1. /\ v \in Seq(Functors) /\ Len(v) = Len(s) + 1 /\ Len(s) \in Nat
      /\ \A i \in 1..Len(s) : v[i] = s[i]
      /\ v[Len(s) + 1] = r
  BY AppendProperties
<1> HIDE DEF v
<1>2. Elements(v) = Elements(s) \cup {r}
  <2>1. \A i \in 1..Len(s) : i \in 1..Len(v) /\ v[i] \in Elements(v) /\ s[i] \in Elements(s)
    BY <1>1 DEF Elements
  <2>2. Len(v) \in 1..Len(v) /\ v[Len(v)] = r
    BY <1>1
  <2>3. \A i \in 1..Len(v) : i \in 1..Len(s) \/ v[i] = r
    BY <1>1
  <2>4. QED
    BY <1>1, <2>1, <2>2, <2>3 DEF Elements
<1>3. ASSUME Distinct(s), r.run \in Moves => \A x \in Elements(s) : ~(x.run = r.run /\ x.conn = r.conn)
      PROVE  Distinct(v)
  <2>1. ASSUME NEW i \in 1..Len(v), NEW j \in 1..Len(v),
               v[i].run \in Moves, v[j].run = v[i].run, v[j].conn = v[i].conn
        PROVE  j = i
    <3>1. CASE i \in 1..Len(s) /\ j \in 1..Len(s)
      BY <1>1, <1>3, <2>1, <3>1 DEF Distinct
    <3>2. CASE i \in 1..Len(s) /\ j = Len(s) + 1
      BY <1>1, <1>3, <2>1, <3>2 DEF Elements
    <3>3. CASE i = Len(s) + 1 /\ j \in 1..Len(s)
      BY <1>1, <1>3, <2>1, <3>3 DEF Elements
    <3>4. QED
      BY <1>1, <3>1, <3>2, <3>3
  <2>2. QED
    BY <2>1 DEF Distinct
<1>4. QED
  BY <1>1, <1>2, <1>3 DEF v

\* The first functor goes.
LEMMA DistinctTail ==
  ASSUME NEW s \in Seq(Functors), NEW r \in Functors, Distinct(<<r>> \o s)
  PROVE  /\ Elements(<<r>> \o s) = Elements(s) \cup {r}
         /\ Distinct(s)
         /\ r.run \in Moves => \A x \in Elements(s) : ~(x.run = r.run /\ x.conn = r.conn)
<1> DEFINE v == <<r>> \o s
<1>1. /\ v \in Seq(Functors) /\ Len(v) = Len(s) + 1 /\ Len(s) \in Nat
      /\ \A i \in 1..Len(s) : v[i + 1] = s[i]
      /\ v[1] = r
  <2>1. <<r>> \in Seq(Functors) /\ Len(<<r>>) = 1 /\ <<r>>[1] = r /\ Len(s) \in Nat
    OBVIOUS
  <2>2. /\ v \in Seq(Functors) /\ Len(v) = Len(<<r>>) + Len(s)
        /\ \A i \in 1..(Len(<<r>>) + Len(s)) : v[i] = IF i <= Len(<<r>>) THEN <<r>>[i] ELSE s[i - Len(<<r>>)]
    BY <2>1, ConcatProperties
  <2>3. QED
    BY <2>1, <2>2
<1>2. Distinct(v)
  OBVIOUS
<1> HIDE DEF v
<1>3. Elements(v) = Elements(s) \cup {r}
  <2>1. \A i \in 1..Len(s) : i + 1 \in 1..Len(v) /\ v[i + 1] = s[i]
    BY <1>1
  <2>2. \A i \in 1..Len(v) : i = 1 \/ \E j \in 1..Len(s) : v[i] = s[j]
    <3>1. ASSUME NEW i \in 1..Len(v), i # 1 PROVE \E j \in 1..Len(s) : v[i] = s[j]
      <4>1. PICK j \in 1..Len(s) : i = j + 1
        <5>1. i - 1 \in 1..Len(s) /\ i = (i - 1) + 1
          BY <1>1, <3>1
        <5>2. QED
          BY <5>1
      <4>2. QED
        BY <1>1, <4>1
    <3>2. QED
      BY <3>1
  <2>3. 1 \in 1..Len(v)
    BY <1>1
  <2>4. \A i \in 1..Len(s) : s[i] \in Elements(v)
    BY <2>1 DEF Elements
  <2>5. r \in Elements(v)
    BY <1>1, <2>3 DEF Elements
  <2>6. \A i \in 1..Len(v) : v[i] \in Elements(s) \cup {r}
    BY <1>1, <2>2 DEF Elements
  <2>7. QED
    BY <2>4, <2>5, <2>6 DEF Elements
<1>4. Distinct(s)
  <2>1. ASSUME NEW i \in 1..Len(s), NEW j \in 1..Len(s),
               s[i].run \in Moves, s[j].run = s[i].run, s[j].conn = s[i].conn
        PROVE  j = i
    <3>1. i + 1 \in 1..Len(v) /\ j + 1 \in 1..Len(v)
      BY <1>1
    <3>2. v[i + 1] = s[i] /\ v[j + 1] = s[j]
      BY <1>1
    <3>3. j + 1 = i + 1
      BY <1>2, <2>1, <3>1, <3>2 DEF Distinct
    <3>4. QED
      BY <3>3
  <2>2. QED
    BY <2>1 DEF Distinct
<1>5. ASSUME r.run \in Moves, NEW i \in 1..Len(s), s[i].run = r.run, s[i].conn = r.conn PROVE FALSE
  <2>1. i + 1 \in 1..Len(v) /\ 1 \in 1..Len(v) /\ v[i + 1] = s[i]
    BY <1>1
  <2>2. i + 1 = 1
    BY <1>1, <1>2, <1>5, <2>1 DEF Distinct
  <2>3. QED
    BY <2>2
<1>6. QED
  BY <1>3, <1>4, <1>5 DEF v, Elements
-----------------------------------------------------------------------------
(* What a step does to what the loops have to run: it takes what is in gone, *)
(* queues what is in new, and leaves no functor twice that may not be.       *)

Same(x, y) == x.run = y.run /\ x.conn = y.conn

Moved(gone, new) ==
  \A m \in Loops :
    /\ Distinct(Unrun(m))'
    /\ \A x \in Todo(m)' : \/ <<m, x>> \in new
                           \/ /\ x \in Todo(m)
                              /\ \A g \in gone : m = g[1] /\ g[2].run \in Moves => ~Same(x, g[2])
    /\ \A x \in Todo(m) : x \in Todo(m)' \/ <<m, x>> \in gone
    /\ \A n \in new : m = n[1] => n[2] \in Todo(m)'

\* The functor that l runs next.
Now(l) == functions[l][pos[l]]

Fresh(k, r) == r.run \in Moves => \A x \in Todo(k) : ~Same(x, r)

LEMMA UnrunTyped == ASSUME TypeOK, NEW l \in Loops PROVE Unrun(l) \in Seq(Functors)
<1>1. /\ pending[l] \in Seq(Functors) /\ functions[l] \in Seq(Functors)
      /\ pos[l] \in 1..(Len(functions[l]) + 1) /\ Len(functions[l]) \in Nat
  BY DEF TypeOK
<1>2. SubSeq(functions[l], pos[l], Len(functions[l])) \in Seq(Functors)
  <2>1. \A i \in pos[l]..Len(functions[l]) : functions[l][i] \in Functors
    BY <1>1
  <2>2. QED
    BY <1>1, <2>1, SubSeqProperties
<1>3. QED
  BY <1>1, <1>2, ConcatProperties DEF Unrun

LEMMA NothingMoved ==
  ASSUME QueueSound, \A l \in Loops : Unrun(l)' = Unrun(l)
  PROVE  Moved({}, {})
BY DEF QueueSound, Moved, Todo

LEMMA QueuesKept ==
  ASSUME QueueSound, UNCHANGED <<pending, functions, pos>>
  PROVE  Moved({}, {})
BY NothingMoved DEF Unrun

LEMMA QueueGrows ==
  ASSUME TypeOK, QueueSound, NEW k \in Loops, NEW r \in Functors, Fresh(k, r),
         QueueInLoop(k, r), UNCHANGED <<functions, pos>>
  PROVE  Moved({}, {<<k, r>>})
<1>1. /\ pending \in [Loops -> Seq(Functors)] /\ functions[k] \in Seq(Functors)
      /\ pos[k] \in 1..(Len(functions[k]) + 1)
  BY DEF TypeOK
<1>2. \A l \in Loops \ {k} : Unrun(l)' = Unrun(l)
  BY <1>1 DEF Unrun, QueueInLoop
<1>3. pending'[k] = Append(pending[k], r) /\ pending[k] \in Seq(Functors)
  BY <1>1 DEF QueueInLoop
<1>4. Unrun(k)' = Append(Unrun(k), r)
  <2>1. SubSeq(functions[k], pos[k], Len(functions[k])) \o Append(pending[k], r) = Append(Unrun(k), r)
    BY <1>1, <1>3, RestAppend DEF Unrun
  <2>2. QED
    BY <1>3, <2>1 DEF Unrun
<1>5. /\ Elements(Append(Unrun(k), r)) = Elements(Unrun(k)) \cup {r}
      /\ Distinct(Append(Unrun(k), r))
  BY UnrunTyped, DistinctAppend DEF Fresh, Same, Todo, QueueSound
<1>6. Todo(k)' = Todo(k) \cup {r} /\ Distinct(Unrun(k))'
  BY <1>4, <1>5 DEF Todo
<1>7. \A l \in Loops \ {k} : Todo(l)' = Todo(l) /\ Distinct(Unrun(l))'
  BY <1>2 DEF Todo, QueueSound
<1>8. QED
  BY <1>6, <1>7 DEF Moved

\* A functor of l runs; Left is what l has to run after it.
Left(l) == SubSeq(functions[l], pos[l] + 1, Len(functions[l])) \o pending[l]

LEMMA RunsFirst ==
  ASSUME TypeOK, QueueSound, NEW l \in Loops, pos[l] <= Len(functions[l])
  PROVE  /\ Now(l) \in Functors /\ Left(l) \in Seq(Functors) /\ Now(l) \in Todo(l)
         /\ Todo(l) = Elements(Left(l)) \cup {Now(l)}
         /\ Distinct(Left(l))
         /\ Now(l).run \in Moves => \A x \in Elements(Left(l)) : ~Same(x, Now(l))
<1>1. /\ pending[l] \in Seq(Functors) /\ functions[l] \in Seq(Functors)
      /\ pos[l] \in 1..Len(functions[l]) /\ Len(functions[l]) \in Nat
  BY DEF TypeOK
<1>2. Now(l) \in Functors /\ \A i \in (pos[l] + 1)..Len(functions[l]) : functions[l][i] \in Functors
  BY <1>1 DEF Now
<1>3. SubSeq(functions[l], pos[l] + 1, Len(functions[l])) \in Seq(Functors)
  BY <1>1, <1>2, SubSeqProperties
<1>4. Left(l) \in Seq(Functors)
  BY <1>1, <1>3, ConcatProperties DEF Left
<1>5. Unrun(l) = <<Now(l)>> \o Left(l)
  BY <1>1, RestTail DEF Unrun, Now, Left
<1>6. Distinct(<<Now(l)>> \o Left(l)) /\ Todo(l) = Elements(<<Now(l)>> \o Left(l))
  BY <1>5 DEF QueueSound, Todo
<1>7. QED
  BY <1>2, <1>4, <1>6, DistinctTail DEF Same

LEMMA FunctorRuns ==
  ASSUME TypeOK, QueueSound, NEW l \in Loops, pos[l] <= Len(functions[l]),
         pos' = [pos EXCEPT ![l] = @ + 1], UNCHANGED <<functions, pending>>
  PROVE  Moved({<<l, Now(l)>>}, {})
<1>1. pos \in [Loops -> Nat]
  BY LenProperties DEF TypeOK
<1>2. Unrun(l)' = Left(l)
  BY <1>1 DEF Unrun, Left
<1>3. \A m \in Loops \ {l} : Unrun(m)' = Unrun(m)
  BY <1>1 DEF Unrun
<1>4. Todo(l)' = Elements(Left(l)) /\ Distinct(Unrun(l))'
  BY <1>2, RunsFirst DEF Todo
<1>5. \A m \in Loops \ {l} : Todo(m)' = Todo(m) /\ Distinct(Unrun(m))'
  BY <1>3 DEF Todo, QueueSound
<1>6. QED
  BY <1>4, <1>5, RunsFirst DEF Moved

LEMMA FunctorRunsAndQueues ==
  ASSUME TypeOK, QueueSound, NEW l \in Loops, pos[l] <= Len(functions[l]),
         NEW k \in Loops, NEW r \in Functors, Fresh(k, r), QueueInLoop(k, r),
         pos' = [pos EXCEPT ![l] = @ + 1], UNCHANGED functions
  PROVE  Moved({<<l, Now(l)>>}, {<<k, r>>})
<1>1. pos \in [Loops -> Nat] /\ pending \in [Loops -> Seq(Functors)] /\ functions \in [Loops -> Seq(Functors)]
      /\ \A m \in Loops : pos[m] \in 1..(Len(functions[m]) + 1)
  BY LenProperties DEF TypeOK
<1>2. pending'[k] = Append(pending[k], r) /\ \A m \in Loops \ {k} : pending'[m] = pending[m]
  BY <1>1 DEF QueueInLoop
<1>3. pos'[l] = pos[l] + 1 /\ \A m \in Loops \ {l} : pos'[m] = pos[m]
  BY <1>1
<1>4. \A m \in Loops \ {k, l} : Todo(m)' = Todo(m) /\ Distinct(Unrun(m))'
  <2>1. \A m \in Loops \ {k, l} : Unrun(m)' = Unrun(m)
    BY <1>2, <1>3 DEF Unrun
  <2>2. QED
    BY <2>1 DEF Todo, QueueSound
<1>5. CASE k = l
  <2>1. pos[l] + 1 \in 1..(Len(functions[l]) + 1)
    BY <1>1, LenProperties
  <2>2. Unrun(l)' = Append(Left(l), r)
    <3>1. functions[l] \in Seq(Functors) /\ pending[l] \in Seq(Functors)
      BY <1>1
    <3>2. SubSeq(functions[l], pos[l] + 1, Len(functions[l])) \o Append(pending[l], r) = Append(Left(l), r)
      BY <2>1, <3>1, RestAppend DEF Left
    <3>3. QED
      BY <1>2, <1>3, <1>5, <3>2 DEF Unrun
  <2>3. \A x \in Elements(Left(l)) : x \in Todo(l)
    BY RunsFirst
  <2>4. Elements(Append(Left(l), r)) = Elements(Left(l)) \cup {r} /\ Distinct(Append(Left(l), r))
    BY <1>5, <2>3, RunsFirst, DistinctAppend DEF Fresh, Same
  <2>5. Todo(l)' = Elements(Left(l)) \cup {r} /\ Distinct(Unrun(l))'
    BY <2>2, <2>4 DEF Todo
  <2>6. QED
    BY <1>4, <1>5, <2>5, RunsFirst DEF Moved
<1>6. CASE k # l
  <2>1. Unrun(l)' = Left(l)
    BY <1>2, <1>3, <1>6 DEF Unrun, Left
  <2>2. Unrun(k)' = Append(Unrun(k), r)
    <3>1. functions[k] \in Seq(Functors) /\ pending[k] \in Seq(Functors) /\ pos[k] \in 1..(Len(functions[k]) + 1)
      BY <1>1
    <3>2. SubSeq(functions[k], pos[k], Len(functions[k])) \o Append(pending[k], r) = Append(Unrun(k), r)
      BY <3>1, RestAppend DEF Unrun
    <3>3. QED
      BY <1>2, <1>3, <1>6, <3>2 DEF Unrun
  <2>3. Elements(Append(Unrun(k), r)) = Elements(Unrun(k)) \cup {r} /\ Distinct(Append(Unrun(k), r))
    BY UnrunTyped, DistinctAppend DEF Fresh, Same, Todo, QueueSound
  <2>4. Todo(l)' = Elements(Left(l)) /\ Distinct(Unrun(l))'
    BY <2>1, RunsFirst DEF Todo
  <2>5. Todo(k)' = Todo(k) \cup {r} /\ Distinct(Unrun(k))'
    BY <2>2, <2>3 DEF Todo
  <2>6. QED
    BY <1>4, <1>6, <2>4, <2>5, RunsFirst DEF Moved
<1>7. QED
  BY <1>5, <1>6

LEMMA SwapMovesNothing ==
  ASSUME TypeOK, QueueSound, LoopSound, NEW l \in Loops, Swap(l) \/ FunctorsDone(l)
  PROVE  Moved({}, {})
<1>1. /\ pending \in [Loops -> Seq(Functors)] /\ functions \in [Loops -> Seq(Functors)]
      /\ pos \in [Loops -> Nat] /\ pos[l] \in 1..(Len(functions[l]) + 1)
  BY LenProperties DEF TypeOK
<1>2. \A m \in Loops \ {l} : Unrun(m)' = Unrun(m)
  BY <1>1 DEF Swap, FunctorsDone, Unrun
<1>3. CASE Swap(l)
  <2>1. functions[l] = <<>> /\ pos[l] = 1
    BY <1>3 DEF LoopSound, Attends, Swap
  <2>2. functions'[l] = pending[l] /\ pending'[l] = <<>> /\ pos'[l] = 1
    BY <1>1, <1>3 DEF Swap
  <2>3. Unrun(l)' = pending[l] /\ Unrun(l) = pending[l]
    BY <1>1, <2>1, <2>2, RestNone DEF Unrun
  <2>4. QED
    BY <1>2, <2>3, NothingMoved
<1>4. CASE FunctorsDone(l)
  <2>1. pos[l] = Len(functions[l]) + 1
    BY <1>1, <1>4, LenProperties DEF FunctorsDone
  <2>2. functions'[l] = <<>> /\ pending'[l] = pending[l] /\ pos'[l] = 1
    BY <1>1, <1>4 DEF FunctorsDone
  <2>3. Unrun(l)' = pending[l] /\ Unrun(l) = pending[l]
    BY <1>1, <2>1, <2>2, RestNone DEF Unrun
  <2>4. QED
    BY <1>2, <2>3, NothingMoved
<1>5. QED
  BY <1>3, <1>4
-----------------------------------------------------------------------------
(* Types. *)

LEMMA MadeIsMade == ASSUME TypeOK PROVE Made \subseteq Conns /\ (nextConnId \in Conns => nextConnId \notin Made)
BY Sizes DEF TypeOK, Made

LEMMA BytesTyped ==
  ASSUME NEW m \in 1..MaxMessages
  PROVE  /\ Bytes(m) \in Seq(Octets) /\ Len(Bytes(m)) = Size
         /\ \A n \in 0..Size :
              /\ SubSeq(Bytes(m), 1, n) \in Seq(Octets) /\ SubSeq(Bytes(m), n + 1, Size) \in Seq(Octets)
              /\ SubSeq(Bytes(m), 1, n) \o SubSeq(Bytes(m), n + 1, Size) = Bytes(m)
<1>1. Bytes(m) \in Seq(Octets) /\ Len(Bytes(m)) = Size
  <2>1. \A i \in 1..Size : <<m, i>> \in Octets
    BY DEF Octets
  <2>2. Bytes(m) \in [1..Size -> Octets]
    BY <2>1 DEF Bytes
  <2>3. QED
    BY <2>2, Sizes
<1>2. ASSUME NEW n \in 0..Size
      PROVE  /\ SubSeq(Bytes(m), 1, n) \in Seq(Octets) /\ SubSeq(Bytes(m), n + 1, Size) \in Seq(Octets)
             /\ SubSeq(Bytes(m), 1, n) \o SubSeq(Bytes(m), n + 1, Size) = Bytes(m)
  <2>1. n \in Int /\ n + 1 \in Int /\ Size \in Int /\ 1 \in 1..(Len(Bytes(m)) + 1) /\ n \in (1 - 1)..Len(Bytes(m))
        /\ Len(Bytes(m)) \in n..Len(Bytes(m))
    BY <1>1, Sizes
  <2>2. \A i \in 1..Size : Bytes(m)[i] \in Octets
    BY <1>1
  <2>3. SubSeq(Bytes(m), 1, n) \in Seq(Octets) /\ SubSeq(Bytes(m), n + 1, Size) \in Seq(Octets)
    <3>1. (\A i \in 1..n : Bytes(m)[i] \in Octets) /\ \A i \in (n + 1)..Size : Bytes(m)[i] \in Octets
      BY <2>1, <2>2, Sizes
    <3>2. QED
      BY <2>1, <3>1, SubSeqProperties
  <2>4. SubSeq(Bytes(m), 1, n) \o SubSeq(Bytes(m), n + 1, Len(Bytes(m))) = SubSeq(Bytes(m), 1, Len(Bytes(m)))
    BY <1>1, <2>1, ConcatAdjacentSubSeq
  <2>5. QED
    BY <1>1, <2>3, <2>4, SubSeqFull
<1>3. QED
  BY <1>1, <1>2

LEMMA Joined ==
  ASSUME NEW r \in Seq(Octets), NEW s \in Seq(Octets), NEW t \in Seq(Octets)
  PROVE  (r \o s) \o t = r \o (s \o t)
BY ConcatAssociative

\* What one write takes and what it leaves.
LEMMA PartTyped ==
  ASSUME NEW s \in Seq(Octets), NEW n \in 1..Len(s)
  PROVE  /\ SubSeq(s, 1, n) \in Seq(Octets) /\ SubSeq(s, n + 1, Len(s)) \in Seq(Octets)
         /\ SubSeq(s, 1, n) \o SubSeq(s, n + 1, Len(s)) = s
         /\ (SubSeq(s, n + 1, Len(s)) = <<>>) <=> (n = Len(s))
<1> DEFINE first == SubSeq(s, 1, n)
           rest  == SubSeq(s, n + 1, Len(s))
<1>1. /\ n \in Int /\ n + 1 \in Int /\ Len(s) \in Int /\ 1 \in 1..(Len(s) + 1) /\ n \in (1 - 1)..Len(s)
      /\ Len(s) \in n..Len(s)
      /\ (\A i \in 1..n : s[i] \in Octets) /\ \A i \in (n + 1)..Len(s) : s[i] \in Octets
  OBVIOUS
<1>2. first \in Seq(Octets) /\ rest \in Seq(Octets)
  BY <1>1, SubSeqProperties
<1>3. Len(rest) = IF n + 1 <= Len(s) THEN Len(s) - (n + 1) + 1 ELSE 0
  BY <1>1, SubSeqProperties
<1>4. first \o rest = s
  BY <1>1, ConcatAdjacentSubSeq, SubSeqFull
<1> HIDE DEF first, rest
<1>5. (rest = <<>>) <=> (Len(rest) = 0)
  BY <1>2, EmptySeq
<1>6. (Len(rest) = 0) <=> (n = Len(s))
  BY <1>1, <1>3
<1>7. (rest = <<>>) <=> (n = Len(s))
  BY <1>5, <1>6
<1>8. QED
  BY <1>2, <1>4, <1>7, Zenon DEF first, rest

PollerTyped ==
  /\ events \in [Conns -> SUBSET {"in", "out"}]
  /\ index \in [Conns -> {"kNew", "kAdded", "kDeleted"}]
  /\ channels \in [Loops -> [Fds -> Conns \cup {NoConn}]]
  /\ epoll \in [Loops -> [Fds -> [channel : Conns \cup {NoConn}, events : SUBSET {"in", "out"}]]]
  /\ refused \in BOOLEAN

LEMMA UpdateTyped ==
  ASSUME TypeOK, NEW l \in Loops, NEW c \in Conns, fd[c] \in Fds, NEW watch \in SUBSET {"in", "out"},
         UpdateChannel(l, c, watch) \/ RemoveChannel(l, c)
  PROVE  PollerTyped'
<1>1. PollerTyped /\ fd[c] \in Fds /\ NoEntry \in [channel : Conns \cup {NoConn}, events : SUBSET {"in", "out"}]
  BY Sizes DEF TypeOK, PollerTyped, NoEntry, NoConn
<1>2. ASSUME NEW operation, Ctl(operation, l, c, watch) \/ Ctl(operation, l, c, {})
      PROVE  /\ epoll' \in [Loops -> [Fds -> [channel : Conns \cup {NoConn}, events : SUBSET {"in", "out"}]]]
             /\ refused' \in BOOLEAN
  <2>1. PICK e \in [channel : Conns \cup {NoConn}, events : SUBSET {"in", "out"}] :
          epoll' = epoll \/ epoll' = [epoll EXCEPT ![l][fd[c]] = e]
    <3>1. [channel |-> c, events |-> watch] \in [channel : Conns \cup {NoConn}, events : SUBSET {"in", "out"}]
          /\ [channel |-> c, events |-> {}] \in [channel : Conns \cup {NoConn}, events : SUBSET {"in", "out"}]
      OBVIOUS
    <3>2. QED
      BY <1>1, <1>2, <3>1 DEF Ctl
  <2>2. [epoll[l] EXCEPT ![fd[c]] = e] \in [Fds -> [channel : Conns \cup {NoConn}, events : SUBSET {"in", "out"}]]
    BY <1>1 DEF PollerTyped
  <2>3. epoll' \in [Loops -> [Fds -> [channel : Conns \cup {NoConn}, events : SUBSET {"in", "out"}]]]
    BY <1>1, <2>1, <2>2 DEF PollerTyped
  <2>4. refused' \in BOOLEAN
    <3>1. \E failed \in BOOLEAN : refused' = (refused \/ failed)
      BY <1>2 DEF Ctl
    <3>2. QED
      BY <3>1
  <2>5. QED
    BY <2>3, <2>4
<1>3. CASE UpdateChannel(l, c, watch)
  <2>1. events' \in [Conns -> SUBSET {"in", "out"}]
    BY <1>1, <1>3 DEF UpdateChannel, PollerTyped
  <2>2. index' \in [Conns -> {"kNew", "kAdded", "kDeleted"}]
    BY <1>1, <1>3 DEF UpdateChannel, PollerTyped
  <2>3. channels' \in [Loops -> [Fds -> Conns \cup {NoConn}]]
    <3>1. PICK e \in Conns \cup {NoConn} : channels' = channels \/ channels' = [channels EXCEPT ![l][fd[c]] = e]
      <4>1. channels[l][fd[c]] \in Conns \cup {NoConn}
        BY <1>1 DEF PollerTyped
      <4>2. CASE index[c] = "kAdded"
        BY <1>3, <4>2 DEF UpdateChannel
      <4>3. CASE index[c] = "kNew"
        BY <1>3, <4>3 DEF UpdateChannel
      <4>4. CASE index[c] # "kAdded" /\ index[c] # "kNew"
        <5>1. channels' = [channels EXCEPT ![l][fd[c]] = channels[l][fd[c]]]
          BY <1>3, <4>4 DEF UpdateChannel
        <5>2. QED
          BY <4>1, <5>1
      <4>5. QED
        BY <4>2, <4>3, <4>4
    <3>2. [channels[l] EXCEPT ![fd[c]] = e] \in [Fds -> Conns \cup {NoConn}]
      BY <1>1 DEF PollerTyped
    <3>3. QED
      BY <1>1, <3>1, <3>2 DEF PollerTyped
  <2>4. \E operation \in {"add", "del", "mod"} : Ctl(operation, l, c, watch)
    BY <1>3 DEF UpdateChannel
  <2>5. QED
    BY <1>2, <2>1, <2>2, <2>3, <2>4 DEF PollerTyped
<1>4. CASE RemoveChannel(l, c)
  <2>1. Ctl("del", l, c, {}) \/ UNCHANGED <<epoll, refused>>
    BY <1>4 DEF RemoveChannel
  <2>2. /\ epoll' \in [Loops -> [Fds -> [channel : Conns \cup {NoConn}, events : SUBSET {"in", "out"}]]]
        /\ refused' \in BOOLEAN
    BY <1>1, <1>2, <2>1 DEF PollerTyped
  <2>3. QED
    BY <1>1, <1>4, <2>2, Sizes DEF RemoveChannel, PollerTyped, NoConn
<1>5. QED
  BY <1>3, <1>4

LEMMA FunctorsTyped ==
  ASSUME NEW c \in Conns, NEW f \in Owning
  PROVE  Functor(f, c, 0) \in Functors
BY Sizes DEF Functor, Functors, FunctorNames

\* A queue that grows stays a queue of functors.
LEMMA GrowsTyped ==
  ASSUME TypeOK, NEW k \in Loops, NEW r \in Functors, QueueInLoop(k, r)
  PROVE  pending' \in [Loops -> Seq(Functors)]
<1>1. pending \in [Loops -> Seq(Functors)] /\ Append(pending[k], r) \in Seq(Functors)
  BY AppendProperties DEF TypeOK
<1>2. QED
  BY <1>1 DEF QueueInLoop

LEMMA SendTyped ==
  ASSUME TypeOK, NEW l \in Loops, NEW c \in Conns, fd[c] \in Fds, NEW m \in 1..MaxMessages,
         SendInLoop(l, c, m)
  PROVE  /\ output' \in [Conns -> Seq(Octets)] /\ wire' \in [Conns -> Seq(Octets)]
         /\ accepted' \in [Conns -> Seq(Octets)] /\ pending' \in [Loops -> Seq(Functors)]
         /\ PollerTyped'
<1>1. /\ output \in [Conns -> Seq(Octets)] /\ wire \in [Conns -> Seq(Octets)]
      /\ accepted \in [Conns -> Seq(Octets)] /\ pending \in [Loops -> Seq(Functors)] /\ PollerTyped
  BY DEF TypeOK, PollerTyped
<1>2. CASE UNCHANGED <<data, pending, pollers>>
  BY <1>1, <1>2 DEF PollerTyped
<1>3. CASE Write(l, c, m, Direct(c))
  <2>1. PICK n \in 0..Size :
          /\ wire' = [wire EXCEPT ![c] = @ \o SubSeq(Bytes(m), 1, n)]
          /\ output' = [output EXCEPT ![c] = @ \o SubSeq(Bytes(m), n + 1, Size)]
          /\ accepted' = [accepted EXCEPT ![c] = @ \o Bytes(m)]
    <3>1. (IF Direct(c) THEN Size ELSE 0) \in 0..Size /\ Size \in Nat
      BY Sizes
    <3>2. \A n \in 0..(IF Direct(c) THEN Size ELSE 0) : n \in 0..Size
      BY <3>1
    <3>3. QED
      BY <1>3, <3>2 DEF Write
  <2>2. /\ output[c] \o SubSeq(Bytes(m), n + 1, Size) \in Seq(Octets)
        /\ wire[c] \o SubSeq(Bytes(m), 1, n) \in Seq(Octets)
        /\ accepted[c] \o Bytes(m) \in Seq(Octets)
    BY <1>1, BytesTyped, ConcatProperties
  <2>3. UNCHANGED pending \/ \E f \in Owning : QueueInLoop(l, Functor(f, c, 0))
    BY <1>3 DEF Write, Owning
  <2>4. pending' \in [Loops -> Seq(Functors)]
    BY <1>1, <2>3, GrowsTyped, FunctorsTyped
  <2>5. UNCHANGED pollers \/ UpdateChannel(l, c, events[c] \cup {"out"})
    BY <1>3 DEF Write
  <2>6. PollerTyped'
    <3>1. events[c] \cup {"out"} \in SUBSET {"in", "out"}
      BY <1>1 DEF PollerTyped
    <3>2. QED
      BY <1>1, <2>5, <3>1, UpdateTyped DEF PollerTyped
  <2>7. QED
    BY <1>1, <2>1, <2>2, <2>4, <2>6
<1>4. QED
  BY <1>2, <1>3 DEF SendInLoop

\* What is queued or asked for was asked of a connection that exists, and says
\* which message it is about.
LEMMA TurnTyped ==
  ASSUME IInv, NEW l \in Loops, NEW f, NEW c \in Conns, Turn(l, f, c)
  PROVE  /\ Now(l) \in Todo(l) /\ Now(l).run = f /\ Now(l).conn = c /\ Sound(l, Now(l))
         /\ f = "sendInLoop" => Now(l).message \in 1..MaxMessages
         /\ c \in Made /\ fd[c] \in Fds
<1>1. pos[l] <= Len(functions[l]) /\ Now(l).run = f /\ Now(l).conn = c
  BY DEF Turn, Now
<1>2. Now(l) \in Todo(l) /\ Now(l) \in Functors
  BY <1>1, RunsFirst DEF IInv
<1>3. Sound(l, Now(l))
  BY <1>2 DEF IInv, QueueSound
<1>4. f = "sendInLoop" => Now(l).message \in 1..MaxMessages
  BY <1>1, <1>2, <1>3, Sizes DEF Sound, Functors
<1>5. c \in Made /\ fd[c] \in Fds
  BY <1>1, <1>3 DEF Sound, IInv, Stages, Staged
<1>6. QED
  BY <1>1, <1>2, <1>3, <1>4, <1>5

LEMMA RunTyped ==
  ASSUME IInv, NEW l \in Loops, NEW f, NEW c \in Conns, Run(l, f, c)
  PROVE  /\ Now(l) \in Todo(l) /\ Now(l).run = f /\ Now(l).conn = c /\ Sound(l, Now(l))
         /\ f = "sendInLoop" => Now(l).message \in 1..MaxMessages
         /\ c \in Made /\ fd[c] \in Fds
         /\ pos' \in [Loops -> Nat] /\ \A k \in Loops : pos'[k] \in 1..(Len(functions'[k]) + 1)
<1>1. Turn(l, f, c) /\ pos[l] <= Len(functions[l])
  BY DEF Run, Turn
<1>2. pos' \in [Loops -> Nat] /\ \A k \in Loops : pos'[k] \in 1..(Len(functions'[k]) + 1)
  <2>1. pos \in [Loops -> Nat] /\ (\A k \in Loops : pos[k] \in 1..(Len(functions[k]) + 1))
        /\ (\A k \in Loops : Len(functions[k]) \in Nat)
    BY LenProperties DEF IInv, TypeOK
  <2>2. pos' = [pos EXCEPT ![l] = @ + 1] /\ functions' = functions
    BY DEF Run, Turn
  <2>3. QED
    BY <1>1, <2>1, <2>2
<1>3. QED
  BY <1>1, <1>2, TurnTyped

LEMMA TypeStep == IInv /\ [Next]_vars => TypeOK'
<1> SUFFICES ASSUME IInv, [Next]_vars PROVE TypeOK'
  OBVIOUS
<1>0. TypeOK /\ Made \subseteq Conns /\ \A c \in Made : fd[c] \in Fds
  BY MadeIsMade DEF IInv, Stages, Staged
<1>1. CASE Start
  BY <1>0, <1>1 DEF Start, TypeOK, Made
<1>2. ASSUME NEW l \in Loops, NEW c \in Conns, HandleNoWrite(l, c) PROVE TypeOK'
  BY <1>0, <1>2 DEF HandleNoWrite, HandleEvent, TypeOK, Made
<1>3. ASSUME NEW l \in Loops, NEW c \in Conns, NEW n \in 1..Len(output[c]), HandleWrite(l, c, n) PROVE TypeOK'
  <2>1. c \in Made
    BY <1>3 DEF HandleWrite, HandleEvent, IInv, LoopSound, Attends, Stages, Staged, Unmade
  <2>2. output[c] \in Seq(Octets) /\ wire[c] \in Seq(Octets)
    BY <1>0 DEF TypeOK
  <2>3. wire[c] \o SubSeq(output[c], 1, n) \in Seq(Octets) /\ SubSeq(output[c], n + 1, Len(output[c])) \in Seq(Octets)
    BY <2>2, PartTyped, ConcatProperties
  <2>4. UNCHANGED <<pollers, pending, fin>> \/ Drained(l, c)
    BY <1>3 DEF HandleWrite
  <2>5. PollerTyped'
    <3>1. events[c] \ {"out"} \in SUBSET {"in", "out"}
      BY <1>0 DEF TypeOK
    <3>2. QED
      BY <1>0, <2>1, <2>4, <3>1, UpdateTyped DEF Drained, PollerTyped, TypeOK
  <2>6. pending' \in [Loops -> Seq(Functors)] /\ fin' \subseteq Made
    BY <1>0, <2>1, <2>4, GrowsTyped, FunctorsTyped DEF Drained, Owning, TypeOK
  <2>7. /\ output' \in [Conns -> Seq(Octets)] /\ wire' \in [Conns -> Seq(Octets)]
    BY <1>0, <1>3, <2>3 DEF HandleWrite, TypeOK
  <2>8. /\ active' \in [Loops -> SUBSET (Conns \cup {Acceptor})] /\ handling' \in [Loops -> Conns \cup {NoConn}]
    BY <1>0, <1>3 DEF HandleWrite, HandleEvent, TypeOK
  <2>9. QED
    BY <1>0, <1>3, <2>5, <2>6, <2>7, <2>8 DEF HandleWrite, HandleEvent, TypeOK, PollerTyped, Made
<1>4. ASSUME NEW l \in Loops, NEW c \in Conns, HandleMessage(l, c) PROVE TypeOK'
  <2>1. /\ handling' \in [Loops -> Conns \cup {NoConn}] /\ inUser' \in [Loops -> Conns \cup {NoConn}]
    BY <1>0, <1>4 DEF HandleMessage, ReadDone, TypeOK
  <2>2. QED
    BY <1>0, <1>4, <2>1 DEF HandleMessage, ReadDone, TypeOK, Made
<1>5. ASSUME NEW l \in Loops, NEW c \in Conns, HandleNoRead(l, c) PROVE TypeOK'
  BY <1>0, <1>5 DEF HandleNoRead, ReadDone, TypeOK, Made
<1>6. ASSUME NEW l \in Loops, NEW c \in Conns, HandleEof(l, c) PROVE TypeOK'
  <2>1. c \in Made /\ {} \in SUBSET {"in", "out"}
    BY <1>6, Sizes DEF HandleEof, ReadDone, IInv, LoopSound, Attends
  <2>2. PollerTyped'
    BY <1>0, <1>6, <2>1, UpdateTyped DEF HandleEof, HandleClose
  <2>3. pending' \in [Loops -> Seq(Functors)] /\ connections' \subseteq Made
    <3>1. loopOf[c] \in Loops
      BY <1>0 DEF TypeOK
    <3>2. \E k \in Loops, f \in Owning : QueueInLoop(k, Functor(f, c, 0))
      BY <1>6, <3>1, Sizes DEF HandleEof, HandleClose, RemoveConnection, RemoveConnectionInLoop, Owning
    <3>3. connections' \subseteq connections
      BY <1>6 DEF HandleEof, HandleClose, RemoveConnection, RemoveConnectionInLoop
    <3>4. QED
      BY <1>0, <3>2, <3>3, GrowsTyped, FunctorsTyped DEF TypeOK
  <2>4. state' \in [Conns -> {"none", "kConnecting", "kConnected", "kDisConnecting", "kDisConnected"}]
        /\ told' \in [Conns -> Nat] /\ handling' \in [Loops -> Conns \cup {NoConn}]
    <3>1. /\ state' = [state EXCEPT ![c] = "kDisConnected"] /\ told' = [told EXCEPT ![c] = @ + 1]
          /\ handling' = [handling EXCEPT ![l] = NoConn]
      BY <1>6 DEF HandleEof, ReadDone, HandleClose
    <3>2. /\ state \in [Conns -> {"none", "kConnecting", "kConnected", "kDisConnecting", "kDisConnected"}]
          /\ told \in [Conns -> Nat] /\ handling \in [Loops -> Conns \cup {NoConn}]
      BY <1>0 DEF TypeOK
    <3>3. state' \in [Conns -> {"none", "kConnecting", "kConnected", "kDisConnecting", "kDisConnected"}]
      BY <3>1, <3>2
    <3>4. told' \in [Conns -> Nat]
      BY <3>1, <3>2
    <3>5. handling' \in [Loops -> Conns \cup {NoConn}]
      BY <3>1, <3>2
    <3>6. QED
      BY <3>3, <3>4, <3>5
  <2>5. QED
    BY <1>0, <1>6, <2>2, <2>3, <2>4 DEF HandleEof, ReadDone, TypeOK, PollerTyped, Made
<1>7. ASSUME NEW l \in Loops, NEW c \in Conns, RunEstablished(l, c) PROVE TypeOK'
  <2>1. events[c] \cup {"in"} \in SUBSET {"in", "out"} /\ fd[c] \in Fds
    BY <1>0, <1>7, RunTyped DEF RunEstablished, TypeOK
  <2>2. PollerTyped'
    BY <1>0, <1>7, <2>1, UpdateTyped DEF RunEstablished, ConnectEstablished
  <2>3. state' \in [Conns -> {"none", "kConnecting", "kConnected", "kDisConnecting", "kDisConnected"}]
        /\ told' \in [Conns -> Nat] /\ inUser' \in [Loops -> Conns \cup {NoConn}]
    <3>1. /\ state' = [state EXCEPT ![c] = "kConnected"] /\ told' = [told EXCEPT ![c] = @ + 1]
          /\ inUser' = [inUser EXCEPT ![l] = c]
      BY <1>7 DEF RunEstablished, ConnectEstablished
    <3>2. /\ state \in [Conns -> {"none", "kConnecting", "kConnected", "kDisConnecting", "kDisConnected"}]
          /\ told \in [Conns -> Nat] /\ inUser \in [Loops -> Conns \cup {NoConn}]
      BY <1>0 DEF TypeOK
    <3>3. state' \in [Conns -> {"none", "kConnecting", "kConnected", "kDisConnecting", "kDisConnected"}]
      BY <3>1, <3>2
    <3>4. told' \in [Conns -> Nat]
      BY <3>1, <3>2
    <3>5. inUser' \in [Loops -> Conns \cup {NoConn}]
      BY <3>1, <3>2
    <3>6. QED
      BY <3>3, <3>4, <3>5
  <2>4. pos' \in [Loops -> Nat] /\ \A k \in Loops : pos'[k] \in 1..(Len(functions'[k]) + 1)
    BY <1>7, RunTyped DEF RunEstablished
  <2>5. QED
    BY <1>0, <1>7, <2>2, <2>3, <2>4 DEF RunEstablished, Run, Turn, TypeOK, PollerTyped, Made
<1>8. ASSUME NEW l \in Loops, NEW c \in Conns, RunSend(l, c) PROVE TypeOK'
  <2>1. fd[c] \in Fds /\ Now(l).message \in 1..MaxMessages /\ SendInLoop(l, c, Now(l).message)
    BY <1>8, RunTyped DEF RunSend, Now
  <2>2. /\ output' \in [Conns -> Seq(Octets)] /\ wire' \in [Conns -> Seq(Octets)]
        /\ accepted' \in [Conns -> Seq(Octets)] /\ pending' \in [Loops -> Seq(Functors)]
        /\ PollerTyped'
    BY <1>0, <2>1, SendTyped
  <2>3. pos' \in [Loops -> Nat] /\ \A k \in Loops : pos'[k] \in 1..(Len(functions'[k]) + 1)
    BY <1>8, RunTyped DEF RunSend
  <2>4. QED
    BY <1>0, <1>8, <2>2, <2>3 DEF RunSend, Run, Turn, TypeOK, PollerTyped, Made
<1>9. ASSUME NEW l \in Loops, NEW c \in Conns, RunShutdown(l, c) PROVE TypeOK'
  <2>1. pos' \in [Loops -> Nat] /\ \A k \in Loops : pos'[k] \in 1..(Len(functions'[k]) + 1)
    BY <1>9, RunTyped DEF RunShutdown
  <2>2. fin' \subseteq Made
    BY <1>0, <1>9, RunTyped DEF RunShutdown, ShutdownInLoop, TypeOK
  <2>3. QED
    BY <1>0, <1>9, <2>1, <2>2 DEF RunShutdown, Run, Turn, TypeOK, Made
<1>10. ASSUME NEW l \in Loops, NEW c \in Conns, RunRemove(l, c) PROVE TypeOK'
  <2>1. pos' \in [Loops -> Nat] /\ \A k \in Loops : pos'[k] \in 1..(Len(functions'[k]) + 1)
    BY <1>10, RunTyped DEF RunRemove
  <2>2. pending' \in [Loops -> Seq(Functors)] /\ connections' \subseteq Made
    <3>1. loopOf[c] \in Loops /\ QueueInLoop(loopOf[c], Functor("connectDestroyed", c, 0))
          /\ connections' \subseteq connections
      BY <1>0, <1>10 DEF TypeOK, RunRemove, RemoveConnectionInLoop
    <3>2. QED
      BY <1>0, <3>1, GrowsTyped, FunctorsTyped DEF TypeOK, Owning
  <2>3. QED
    BY <1>0, <1>10, <2>1, <2>2 DEF RunRemove, Run, Turn, TypeOK, Made
<1>11. ASSUME NEW l \in Loops, NEW c \in Conns, RunDestroyed(l, c) PROVE TypeOK'
  <2>1. pos' \in [Loops -> Nat] /\ \A k \in Loops : pos'[k] \in 1..(Len(functions'[k]) + 1)
    <3>1. CASE Run(l, "connectDestroyed", c)
      BY <1>0, <3>1, RunTyped
    <3>2. CASE UNCHANGED <<pos, functions>>
      BY <1>0, <3>2 DEF TypeOK
    <3>3. QED
      BY <1>11, <3>1, <3>2 DEF RunDestroyed, Turn
  <2>2. PollerTyped'
    <3>1. fd[c] \in Fds /\ {} \in SUBSET {"in", "out"}
      BY <1>0, <1>11, TurnTyped DEF RunDestroyed, Run
    <3>2. UpdateChannel(l, c, {}) \/ RemoveChannel(l, c)
      BY <1>11 DEF RunDestroyed
    <3>3. QED
      BY <1>0, <3>1, <3>2, UpdateTyped
  <2>3. state' \in [Conns -> {"none", "kConnecting", "kConnected", "kDisConnecting", "kDisConnected"}]
        /\ told' \in [Conns -> Nat]
    <3>1. \/ UNCHANGED <<state, told>>
          \/ /\ state' = [state EXCEPT ![c] = "kDisConnected"]
             /\ told' = [told EXCEPT ![c] = @ + 1]
      BY <1>11 DEF RunDestroyed
    <3>2. state \in [Conns -> {"none", "kConnecting", "kConnected", "kDisConnecting", "kDisConnected"}]
          /\ told \in [Conns -> Nat]
      BY <1>0 DEF TypeOK
    <3>3. QED
      BY <3>1, <3>2
  <2>4. QED
    <3>1. inUser' \in [Loops -> Conns \cup {NoConn}]
      <4>1. inUser' = inUser \/ inUser' = [inUser EXCEPT ![l] = c]
        BY <1>11 DEF RunDestroyed
      <4>2. QED
        BY <1>0, <4>1 DEF TypeOK
    <3>2. UNCHANGED <<fd, numThreads, listenning, next, nextConnId, loopOf, functions, at, where,
                      users, messages, peerClosed, connections, data, pending, fin>>
      BY <1>11 DEF RunDestroyed, Run, Turn
    <3>3. QED
      BY <1>0, <2>1, <2>2, <2>3, <3>1, <3>2 DEF TypeOK, PollerTyped, Made
<1>12. ASSUME NEW l \in Loops, NEW c \in Conns, RunCallback(l, c) PROVE TypeOK'
  <2>1. pos' \in [Loops -> Nat] /\ \A k \in Loops : pos'[k] \in 1..(Len(functions'[k]) + 1)
    BY <1>12, RunTyped DEF RunCallback
  <2>2. inUser' \in [Loops -> Conns \cup {NoConn}]
    BY <1>0, <1>12 DEF RunCallback, TypeOK
  <2>3. UNCHANGED <<fd, numThreads, listenning, next, nextConnId, loopOf, functions, at, where,
                    users, messages, peerClosed, pollers, connections, state, data, pending, fin, told>>
    BY <1>12 DEF RunCallback, Run, Turn
  <2>4. QED
    BY <1>0, <2>1, <2>2, <2>3 DEF TypeOK, Made
<1>13. ASSUME NEW l \in Loops, NEW c \in Conns, CallbackReturn(l, c) PROVE TypeOK'
  <2>1. inUser' \in [Loops -> Conns \cup {NoConn}]
    BY <1>0, <1>13 DEF CallbackReturn, TypeOK
  <2>2. QED
    BY <1>0, <1>13, <2>1 DEF CallbackReturn, Callback, TypeOK, Made
<1>14. ASSUME NEW l \in Loops, NEW ready \in SUBSET (Watched(l) \cup IF l = Base THEN {Acceptor} ELSE {}),
              PollReturn(l, ready)
       PROVE  TypeOK'
  <2>1. Watched(l) \subseteq Conns
    BY <1>0 DEF TypeOK, Watched, NoConn
  <2>2. ready \in SUBSET (Conns \cup {Acceptor})
    BY <2>1
  <2>3. active' \in [Loops -> SUBSET (Conns \cup {Acceptor})] /\ at' \in [Loops -> {"poll", "events", "functors"}]
    BY <1>0, <1>14, <2>2 DEF PollReturn, TypeOK
  <2>4. QED
    BY <1>0, <1>14, <2>3 DEF PollReturn, TypeOK, Made
<1>15. CASE AcceptFails
  <2>1. active' \in [Loops -> SUBSET (Conns \cup {Acceptor})]
    BY <1>0, <1>15 DEF AcceptFails, TypeOK
  <2>2. QED
    BY <1>0, <1>15, <2>1 DEF AcceptFails, TypeOK, Made
<1>16. ASSUME NEW f \in Fds, NewConnection(f) PROVE TypeOK'
  <2> DEFINE c == nextConnId
             l == IF numThreads = 0 THEN Base ELSE next
  <2>1. /\ c \in Conns /\ c \notin Made /\ l \in Loops /\ numThreads \in Loops
        /\ nextConnId' = c + 1 /\ c + 1 \in 1..(MaxConns + 1) /\ Made' = Made \cup {c}
    <3>1. c \in Conns /\ c \notin Made /\ nextConnId' = c + 1
      BY <1>0, <1>16, MadeIsMade DEF NewConnection
    <3>2. c + 1 \in 1..(MaxConns + 1) /\ Made' = Made \cup {c}
      BY <3>1, Sizes DEF Made
    <3>3. numThreads \in Loops /\ l \in Loops
      BY <1>0, Sizes DEF TypeOK
    <3>4. QED
      BY <3>1, <3>2, <3>3
  <2>2. next' \in 1..(IF numThreads = 0 THEN 1 ELSE numThreads)
    <3>1. next' = IF numThreads = 0 THEN next ELSE IF next = numThreads THEN 1 ELSE next + 1
      BY <1>16 DEF NewConnection, NextLoop
    <3>2. next \in 1..(IF numThreads = 0 THEN 1 ELSE numThreads) /\ numThreads \in Nat
      BY <1>0, <2>1, Sizes DEF TypeOK
    <3>3. QED
      BY <3>1, <3>2
  <2>3. pending' \in [Loops -> Seq(Functors)] /\ handling' \in [Loops -> Conns \cup {NoConn}]
    <3>1. UNCHANGED pending \/ QueueInLoop(l, Functor("connectEstablished", c, 0))
      BY <1>16 DEF NewConnection
    <3>2. UNCHANGED handling \/ handling' = [handling EXCEPT ![Base] = c]
      BY <1>16 DEF NewConnection
    <3>3. Functor("connectEstablished", c, 0) \in Functors
      BY <2>1, FunctorsTyped DEF Owning
    <3>4. pending' \in [Loops -> Seq(Functors)]
      <4>1. pending \in [Loops -> Seq(Functors)]
        BY <1>0 DEF TypeOK
      <4> HIDE DEF c, l
      <4>3. CASE UNCHANGED pending
        BY <4>1, <4>3
      <4>4. CASE QueueInLoop(l, Functor("connectEstablished", c, 0))
        BY <1>0, <2>1, <3>3, <4>4, GrowsTyped
      <4>5. QED
        BY <3>1, <4>3, <4>4
    <3>5. handling \in [Loops -> Conns \cup {NoConn}]
      BY <1>0 DEF TypeOK
    <3>6. QED
      BY <2>1, <3>2, <3>4, <3>5
  <2>4. /\ fd' \in [Conns -> Fds \cup {0}] /\ loopOf' \in [Conns -> Loops]
        /\ state' \in [Conns -> {"none", "kConnecting", "kConnected", "kDisConnecting", "kDisConnected"}]
        /\ active' \in [Loops -> SUBSET (Conns \cup {Acceptor})]
    BY <1>0, <1>16, <2>1 DEF NewConnection, TypeOK
  <2>5. /\ connections' \subseteq Made' /\ (\A u \in Users : holds[u] \subseteq Made') /\ peerClosed \subseteq Made'
        /\ fin \subseteq Made'
    BY <1>0, <1>16, <2>1 DEF NewConnection, TypeOK
  <2> HIDE DEF c, l
  <2>6. /\ UNCHANGED <<pollers, numThreads, listenning, data, functions, pos, at, inUser, users,
                        messages, peerClosed, fin, told>>
    BY <1>16 DEF NewConnection
  <2>7. QED
    BY <1>0, <2>1, <2>2, <2>3, <2>4, <2>5, <2>6 DEF TypeOK
<1>17. ASSUME NEW c \in Conns, EstablishNow(c) PROVE TypeOK'
  <2>1. c \in Made /\ events[c] \cup {"in"} \in SUBSET {"in", "out"}
    <3>1. Base \in Loops /\ handling[Base] = c /\ c # NoConn
      BY <1>17, Sizes DEF EstablishNow
    <3>2. Attends(Base)
      BY <3>1 DEF IInv, LoopSound
    <3>3. c \in Made
      BY <3>1, <3>2 DEF Attends
    <3>4. events[c] \cup {"in"} \in SUBSET {"in", "out"}
      BY <1>0 DEF TypeOK
    <3>5. QED
      BY <3>3, <3>4
  <2>2. PollerTyped'
    BY <1>0, <1>17, <2>1, UpdateTyped, Sizes DEF EstablishNow, ConnectEstablished
  <2>3. state' \in [Conns -> {"none", "kConnecting", "kConnected", "kDisConnecting", "kDisConnected"}]
        /\ told' \in [Conns -> Nat] /\ inUser' \in [Loops -> Conns \cup {NoConn}]
        /\ handling' \in [Loops -> Conns \cup {NoConn}]
    <3>1. /\ state' = [state EXCEPT ![c] = "kConnected"] /\ told' = [told EXCEPT ![c] = @ + 1]
          /\ inUser' = [inUser EXCEPT ![Base] = c] /\ handling' = [handling EXCEPT ![Base] = NoConn]
      BY <1>17 DEF EstablishNow, ConnectEstablished
    <3>2. state \in [Conns -> {"none", "kConnecting", "kConnected", "kDisConnecting", "kDisConnected"}]
          /\ told \in [Conns -> Nat]
          /\ inUser \in [Loops -> Conns \cup {NoConn}] /\ handling \in [Loops -> Conns \cup {NoConn}]
      BY <1>0 DEF TypeOK
    <3>3. state' \in [Conns -> {"none", "kConnecting", "kConnected", "kDisConnecting", "kDisConnected"}]
          /\ told' \in [Conns -> Nat]
      BY <3>1, <3>2
    <3>4. inUser' \in [Loops -> Conns \cup {NoConn}] /\ handling' \in [Loops -> Conns \cup {NoConn}]
      BY <3>1, <3>2
    <3>5. QED
      BY <3>3, <3>4
  <2>4. QED
    BY <1>0, <1>17, <2>2, <2>3 DEF EstablishNow, TypeOK, PollerTyped, Made
<1>18. ASSUME NEW l \in Loops, Swap(l) PROVE TypeOK'
  <2>1. pending' \in [Loops -> Seq(Functors)] /\ functions' \in [Loops -> Seq(Functors)]
        /\ at' \in [Loops -> {"poll", "events", "functors"}] /\ pos' \in [Loops -> Nat]
    BY <1>0, <1>18, EmptySeq DEF Swap, TypeOK
  <2>2. \A k \in Loops : pos'[k] \in 1..(Len(functions'[k]) + 1)
    BY <1>0, <1>18, LenProperties DEF Swap, TypeOK
  <2>3. QED
    BY <1>0, <1>18, <2>1, <2>2 DEF Swap, TypeOK, Made
<1>19. ASSUME NEW l \in Loops, FunctorsDone(l) PROVE TypeOK'
  <2>1. functions' \in [Loops -> Seq(Functors)]
        /\ at' \in [Loops -> {"poll", "events", "functors"}] /\ pos' \in [Loops -> Nat]
    BY <1>0, <1>19, EmptySeq DEF FunctorsDone, TypeOK
  <2>2. \A k \in Loops : pos'[k] \in 1..(Len(functions'[k]) + 1)
    BY <1>0, <1>19, LenProperties, EmptySeq DEF FunctorsDone, TypeOK
  <2>3. QED
    BY <1>0, <1>19, <2>1, <2>2 DEF FunctorsDone, TypeOK, Made
<1>20. ASSUME NEW l \in Loops, NEW c \in Conns, CallbackSend(l, c) PROVE TypeOK'
  <2>1. c \in Made /\ fd[c] \in Fds
    BY <1>0, <1>20, Sizes DEF CallbackSend, Callback, IInv, LoopSound, Attends
  <2>2. messages' = messages + 1 /\ messages + 1 \in 1..MaxMessages
    BY <1>0, <1>20, Sizes DEF CallbackSend, TypeOK
  <2>3. /\ output' \in [Conns -> Seq(Octets)] /\ wire' \in [Conns -> Seq(Octets)]
        /\ accepted' \in [Conns -> Seq(Octets)] /\ pending' \in [Loops -> Seq(Functors)]
        /\ PollerTyped'
    BY <1>0, <1>20, <2>1, <2>2, SendTyped DEF CallbackSend
  <2>4. UNCHANGED <<fd, server, functions, pos, at, where, call, peerClosed, told, state, inUser, holds, fin>>
    BY <1>20 DEF CallbackSend, Callback
  <2>5. messages' \in 0..MaxMessages
    BY <2>2, Sizes
  <2>6. QED
    BY <1>0, <2>3, <2>4, <2>5 DEF TypeOK, PollerTyped, Made
<1>21. ASSUME NEW l \in Loops, NEW c \in Conns, CallbackShutdown(l, c) PROVE TypeOK'
  <2>1. c \in Made
    BY <1>0, <1>21, Sizes DEF CallbackShutdown, Callback, IInv, LoopSound, Attends
  <2>2. state' = [state EXCEPT ![c] = "kDisConnected"] /\ fin' \subseteq fin \cup {c}
    BY <1>21 DEF CallbackShutdown, ShutdownInLoop, ClosingState
  <2>3. UNCHANGED <<fd, server, functions, pos, at, where, call, peerClosed, told, pollers, data, pending,
                    inUser, holds, messages>>
    BY <1>21 DEF CallbackShutdown, Callback
  <2>4. QED
    BY <1>0, <2>1, <2>2, <2>3 DEF TypeOK, Made
<1>22. ASSUME NEW l \in Loops, NEW c \in Conns, NEW u \in Users, HandOut(l, c, u) PROVE TypeOK'
  <2>1. c \in Made
    BY <1>0, <1>22, Sizes DEF HandOut, Callback, IInv, LoopSound, Attends
  <2>2. holds' \in [Users -> SUBSET Made] /\ \A v \in Users : holds[v] \subseteq holds'[v]
    BY <1>0, <1>22, <2>1 DEF HandOut, TypeOK
  <2>3. UNCHANGED <<fd, server, functions, pos, at, where, call, peerClosed, told, pollers, data, pending,
                    inUser, state, fin, messages>>
    BY <1>22 DEF HandOut, Callback
  <2>4. QED
    BY <1>0, <2>2, <2>3 DEF TypeOK, Made
<1>23. ASSUME NEW u \in Users, UserQueue(u) PROVE TypeOK'
  <2> DEFINE r == Functor(call[u].call, call[u].conn, call[u].message)
             c == call[u].conn
  <2>1. call[u] \in Calls
    BY <1>0, <1>23 DEF UserQueue, TypeOK, Idle, Asking
  <2>2. c \in Conns /\ loopOf[c] \in Loops /\ r \in Functors
    BY <1>0, <1>23, <2>1 DEF UserQueue, TypeOK, Calls, Functor, Functors, FunctorNames
  <2>3. QueueInLoop(loopOf[c], r) /\ call' = [call EXCEPT ![u] = Idle]
    BY <1>23 DEF UserQueue
  <2> HIDE DEF r, c
  <2>4. pending' \in [Loops -> Seq(Functors)]
    BY <1>0, <2>2, <2>3, GrowsTyped
  <2>5. call' \in [Users -> {Idle} \cup Calls] /\ \A v \in Users : call'[v] = Idle \/ call'[v].conn \in holds[v]
    BY <1>0, <2>3 DEF TypeOK
  <2>6. UNCHANGED <<fd, pollers, server, state, data, functions, pos, at, where, inUser, holds, messages,
                    peerClosed, fin, told>>
    BY <1>23 DEF UserQueue
  <2>7. QED
    BY <1>0, <2>4, <2>5, <2>6 DEF TypeOK, Made
<1>31. ASSUME NEW u \in Users, UserSetState(u) PROVE TypeOK'
  <2>0. call[u] \in Calls
    BY <1>0, <1>31 DEF UserSetState, TypeOK, Idle
  <2>1. call[u] \in Calls /\ call[u].conn \in Conns /\ [call[u] EXCEPT !.call = "shutdownInLoop"] \in Calls
    BY <2>0 DEF Calls, Asking
  <2>2. call' = [call EXCEPT ![u] = [call[u] EXCEPT !.call = "shutdownInLoop"]]
        /\ [call[u] EXCEPT !.call = "shutdownInLoop"].conn = call[u].conn
    BY <1>0, <1>31, <2>1 DEF UserSetState, TypeOK, Calls
  <2>3. call' \in [Users -> {Idle} \cup Calls] /\ \A v \in Users : call'[v] = Idle \/ call'[v].conn \in holds[v]
    BY <1>0, <1>31, <2>1, <2>2 DEF TypeOK, Idle, UserSetState
  <2>4. state' \in [Conns -> {"none", "kConnecting", "kConnected", "kDisConnecting", "kDisConnected"}]
    BY <1>0, <1>31, <2>1 DEF TypeOK, UserSetState, ClosingState
  <2>5. UNCHANGED <<fd, pollers, server, data, queues, where, inUser, holds, messages, peerClosed, fin, told>>
    BY <1>31 DEF UserSetState
  <2>6. QED
    BY <1>0, <2>3, <2>4, <2>5 DEF TypeOK, Made
<1>24. ASSUME NEW u \in Users, NEW c \in Conns, UserDrop(u, c) PROVE TypeOK'
  <2>1. holds' \in [Users -> SUBSET Made] /\ \A v \in Users : call[v] = Idle \/ call[v].conn \in holds'[v]
    BY <1>0, <1>24 DEF UserDrop, TypeOK
  <2>2. QED
    BY <1>0, <1>24, <2>1 DEF UserDrop, TypeOK, Made
<1>25. ASSUME NEW u \in Users, NEW c \in Conns, NEW what \in {"sendInLoop", "shutdown"}, UserCall(u, c, what)
       PROVE  TypeOK'
  <2>1. messages' \in 0..MaxMessages
    BY <1>0, <1>25, Sizes DEF UserCall, TypeOK
  <2>2. [call |-> what, conn |-> c, message |-> messages'] \in Calls
    BY <2>1 DEF Calls, Asking
  <2>3. call' \in [Users -> {Idle} \cup Calls] /\ \A v \in Users : call'[v] = Idle \/ call'[v].conn \in holds[v]
    BY <1>0, <1>25, <2>2 DEF UserCall, TypeOK
  <2>4. UNCHANGED <<fd, pollers, server, state, data, queues, where, inUser, holds, peerClosed, fin, told>>
    BY <1>25 DEF UserCall
  <2>5. QED
    BY <1>0, <2>1, <2>3, <2>4 DEF TypeOK, Made
<1>26. ASSUME NEW c \in Conns, PeerClose(c) PROVE TypeOK'
  <2>1. peerClosed' \subseteq Made
    BY <1>0, <1>26 DEF PeerClose, TypeOK, IInv, Stages, Staged, Unmade
  <2>2. QED
    BY <1>0, <1>26, <2>1 DEF PeerClose, TypeOK, Made
<1>27. CASE UNCHANGED vars
  BY <1>0, <1>27 DEF vars, TypeOK, Made
<1>28. ASSUME NEW l \in Loops, LoopStep(l) PROVE TypeOK'
  BY <1>2, <1>3, <1>4, <1>5, <1>6, <1>7, <1>8, <1>9, <1>10, <1>11, <1>12, <1>13, <1>14, <1>15, <1>16,
     <1>17, <1>18, <1>19, <1>28 DEF LoopStep
<1>29. CASE UserStep
  BY <1>20, <1>21, <1>22, <1>23, <1>24, <1>25, <1>29, <1>31 DEF UserStep
<1>30. QED
  BY <1>1, <1>26, <1>27, <1>28, <1>29 DEF Next
-----------------------------------------------------------------------------
(* The poller. *)

\* enableReading ... disableAll, on a connection that is set up or open.
LEMMA UpdateAgrees ==
  ASSUME IInv, NEW c \in Made, NEW watch \in SUBSET {"in", "out"},
         UpdateChannel(loopOf[c], c, watch), UNCHANGED <<fd, loopOf, nextConnId>>,
         told[c] = 1 \/ (told[c] = 0 /\ watch # {})
  PROVE  /\ Polled'
         /\ index' = [index EXCEPT ![c] = IF watch = {} THEN "kDeleted" ELSE "kAdded"]
         /\ events' = [events EXCEPT ![c] = watch]
<1> DEFINE l == loopOf[c]
           f == fd[c]
<1>1. /\ Made \subseteq Conns /\ c \in Conns /\ l \in Loops /\ f \in Fds /\ NoChannel \notin Conns
      /\ fd \in [Conns -> Fds \cup {0}] /\ loopOf \in [Conns -> Loops]
      /\ events \in [Conns -> SUBSET {"in", "out"}] /\ index \in [Conns -> {"kNew", "kAdded", "kDeleted"}]
      /\ channels \in [Loops -> [Fds -> Conns \cup {NoChannel}]]
      /\ epoll \in [Loops -> [Fds -> [channel : Conns \cup {NoChannel}, events : SUBSET {"in", "out"}]]]
  BY MadeIsMade, Sizes DEF IInv, TypeOK, Stages, Staged, NoConn
<1>2. \A d \in Made : fd[d] \in Fds /\ loopOf[d] \in Loops
  BY <1>1 DEF IInv, Stages, Staged
<1>3. \A d \in Made : fd[d] = f /\ index[d] # "kNew" => d = c
  BY DEF IInv, DescriptorsApart, Gone
<1>4. Polled
  BY DEF IInv
<1>5. Made' = Made
  BY DEF Made
<1> HIDE DEF l, f
<1>6. CASE told[c] = 1
  <2>1. index[c] = "kAdded"
    BY <1>1, <1>6 DEF IInv, Stages, Staged, Open
  <2>2. epoll[l][f] = [channel |-> c, events |-> events[c]] /\ epoll[l][f] # NoEntry /\ channels[l][f] = c
    BY <1>1, <1>4, <2>1 DEF Polled, NoEntry, l, f
  <2>3. /\ events' = [events EXCEPT ![c] = watch] /\ UNCHANGED channels
        /\ index' = [index EXCEPT ![c] = IF watch = {} THEN "kDeleted" ELSE index[c]]
        /\ Ctl(IF watch = {} THEN "del" ELSE "mod", l, c, watch)
    BY <2>1 DEF UpdateChannel, l
  <2>4. refused' = FALSE /\ epoll' = [epoll EXCEPT ![l][f] = IF watch = {} THEN NoEntry ELSE [channel |-> c, events |-> watch]]
    <3>1. CASE watch = {}
      BY <1>4, <2>2, <2>3, <3>1 DEF Ctl, Polled, f
    <3>2. CASE watch # {}
      BY <1>4, <2>2, <2>3, <3>2 DEF Ctl, Polled, f
    <3>3. QED
      BY <3>1, <3>2
  <2>5. index' = [index EXCEPT ![c] = IF watch = {} THEN "kDeleted" ELSE "kAdded"]
    BY <2>1, <2>3
  <2>6. /\ epoll'[l][f] = IF watch = {} THEN NoEntry ELSE [channel |-> c, events |-> watch]
        /\ \A k \in Loops, g \in Fds : k # l \/ g # f => epoll'[k][g] = epoll[k][g]
    BY <1>1, <2>4
  <2>7. ASSUME NEW d \in Made
        PROVE  /\ index'[d] = "kAdded" => epoll'[loopOf[d]][fd[d]] = [channel |-> d, events |-> events'[d]]
               /\ index'[d] # "kNew" => channels'[loopOf[d]][fd[d]] = d
    <3>1. CASE d = c
      BY <1>1, <2>2, <2>3, <2>5, <2>6, <3>1 DEF l, f
    <3>2. CASE d # c
      <4>1. index'[d] = index[d] /\ events'[d] = events[d]
        BY <1>1, <2>3, <2>5, <3>2
      <4>2. index[d] # "kNew" => fd[d] # f
        BY <1>3, <3>2
      <4>3. index[d] = "kAdded" => epoll'[loopOf[d]][fd[d]] = epoll[loopOf[d]][fd[d]]
        BY <1>2, <2>6, <4>2
      <4>4. QED
        BY <1>4, <2>3, <4>1, <4>3 DEF Polled
    <3>3. QED
      BY <3>1, <3>2
  <2>8. ASSUME NEW k \in Loops, NEW g \in Fds
        PROVE  /\ epoll'[k][g] = NoEntry \/ \E d \in Made :
                    epoll'[k][g].channel = d /\ loopOf[d] = k /\ fd[d] = g /\ index'[d] = "kAdded"
               /\ channels'[k][g] = NoConn \/ \E d \in Made :
                    channels'[k][g] = d /\ loopOf[d] = k /\ fd[d] = g /\ index'[d] # "kNew"
    <3>1. \A d \in Conns : index[d] # "kNew" => index'[d] # "kNew"
      BY <1>1, <2>1, <2>5
    <3>2. channels'[k][g] = NoConn \/ \E d \in Made :
                    channels'[k][g] = d /\ loopOf[d] = k /\ fd[d] = g /\ index'[d] # "kNew"
      BY <1>1, <1>4, <2>3, <3>1 DEF Polled
    <3>3. CASE k = l /\ g = f
      BY <1>1, <2>5, <2>6, <3>2, <3>3 DEF l, f
    <3>4. CASE k # l \/ g # f
      <4>1. epoll'[k][g] = epoll[k][g]
        BY <2>6, <3>4
      <4>2. CASE epoll[k][g] = NoEntry
        BY <3>2, <4>1, <4>2
      <4>3. ASSUME NEW d \in Made, epoll[k][g].channel = d, loopOf[d] = k, fd[d] = g, index[d] = "kAdded"
            PROVE  epoll'[k][g].channel = d /\ index'[d] = "kAdded"
        <5>1. d # c
          BY <3>4, <4>3 DEF l, f
        <5>2. QED
          BY <1>1, <2>5, <4>1, <4>3, <5>1
      <4>4. QED
        BY <1>4, <3>2, <4>2, <4>3 DEF Polled
    <3>5. QED
      BY <3>3, <3>4
  <2>9. Polled'
    BY <1>5, <2>4, <2>7, <2>8 DEF Polled
  <2>10. QED
    BY <2>3, <2>5, <2>9
<1>7. CASE told[c] = 0 /\ watch # {}
  <2>1. index[c] = "kNew"
    BY <1>1, <1>7 DEF IInv, Stages, Staged, SettingUp
  <2>2. \A d \in Made : fd[d] = f => index[d] = "kNew"
    BY <1>3, <2>1
  <2>3. epoll[l][f] = NoEntry
    BY <1>1, <1>4, <2>2 DEF Polled, l
  <2>4. /\ events' = [events EXCEPT ![c] = watch]
        /\ channels' = [channels EXCEPT ![l][f] = c]
        /\ index' = [index EXCEPT ![c] = "kAdded"]
        /\ Ctl("add", l, c, watch)
    BY <2>1 DEF UpdateChannel, l, f
  <2>5. refused' = FALSE /\ epoll' = [epoll EXCEPT ![l][f] = [channel |-> c, events |-> watch]]
    BY <1>4, <2>3, <2>4 DEF Ctl, Polled, f
  <2>6. /\ epoll'[l][f] = [channel |-> c, events |-> watch] /\ channels'[l][f] = c
        /\ \A k \in Loops, g \in Fds : k # l \/ g # f => epoll'[k][g] = epoll[k][g] /\ channels'[k][g] = channels[k][g]
    BY <1>1, <2>4, <2>5
  <2>7. ASSUME NEW d \in Made
        PROVE  /\ index'[d] = "kAdded" => epoll'[loopOf[d]][fd[d]] = [channel |-> d, events |-> events'[d]]
               /\ index'[d] # "kNew" => channels'[loopOf[d]][fd[d]] = d
    <3>1. CASE d = c
      BY <1>1, <2>4, <2>6, <3>1 DEF l, f
    <3>2. CASE d # c
      <4>1. index'[d] = index[d] /\ events'[d] = events[d]
        BY <1>1, <2>4, <3>2
      <4>2. index[d] # "kNew" => fd[d] # f
        BY <1>3, <3>2
      <4>3. index[d] # "kNew" => /\ epoll'[loopOf[d]][fd[d]] = epoll[loopOf[d]][fd[d]]
                                 /\ channels'[loopOf[d]][fd[d]] = channels[loopOf[d]][fd[d]]
        BY <1>2, <2>6, <4>2
      <4>4. QED
        BY <1>4, <4>1, <4>3 DEF Polled
    <3>3. QED
      BY <3>1, <3>2
  <2>8. ASSUME NEW k \in Loops, NEW g \in Fds
        PROVE  /\ epoll'[k][g] = NoEntry \/ \E d \in Made :
                    epoll'[k][g].channel = d /\ loopOf[d] = k /\ fd[d] = g /\ index'[d] = "kAdded"
               /\ channels'[k][g] = NoConn \/ \E d \in Made :
                    channels'[k][g] = d /\ loopOf[d] = k /\ fd[d] = g /\ index'[d] # "kNew"
    <3>1. \A d \in Conns : index'[d] = index[d] \/ index'[d] = "kAdded"
      BY <1>1, <2>4
    <3>2. CASE k = l /\ g = f
      BY <1>1, <2>4, <2>6, <3>2 DEF l, f
    <3>3. CASE k # l \/ g # f
      BY <1>1, <1>4, <2>6, <3>1, <3>3 DEF Polled
    <3>4. QED
      BY <3>2, <3>3
  <2>9. Polled'
    BY <1>5, <2>5, <2>7, <2>8 DEF Polled
  <2>10. QED
    BY <1>7, <2>4, <2>9
<1>8. QED
  BY <1>6, <1>7

\* connectDestroyed takes the channel from the poller.
LEMMA RemoveAgrees ==
  ASSUME IInv, NEW c \in Made, index[c] = "kDeleted", RemoveChannel(loopOf[c], c),
         UNCHANGED <<fd, loopOf, nextConnId>>
  PROVE  /\ Polled'
         /\ index' = [index EXCEPT ![c] = "kNew"] /\ UNCHANGED events
<1> DEFINE l == loopOf[c]
           f == fd[c]
<1>1. /\ Made \subseteq Conns /\ c \in Conns /\ l \in Loops /\ f \in Fds
      /\ index \in [Conns -> {"kNew", "kAdded", "kDeleted"}]
      /\ channels \in [Loops -> [Fds -> Conns \cup {NoConn}]] /\ NoChannel = NoConn
      /\ \A d \in Made : fd[d] \in Fds /\ loopOf[d] \in Loops
  BY MadeIsMade DEF IInv, TypeOK, Stages, Staged, NoConn
<1>2. \A d \in Made : fd[d] = f /\ index[d] # "kNew" => d = c
  BY DEF IInv, DescriptorsApart, Gone
<1>3. Polled
  BY DEF IInv
<1>4. Made' = Made
  BY DEF Made
<1> HIDE DEF l, f
<1>5. /\ index' = [index EXCEPT ![c] = "kNew"] /\ UNCHANGED <<events, epoll, refused>>
      /\ channels' = [channels EXCEPT ![l][f] = NoConn]
  BY <1>1 DEF RemoveChannel, l, f
<1>6. /\ channels'[l][f] = NoConn
      /\ \A k \in Loops, g \in Fds : k # l \/ g # f => channels'[k][g] = channels[k][g]
  BY <1>1, <1>5
<1>7. /\ index'[c] = "kNew" /\ \A d \in Conns \ {c} : index'[d] = index[d]
  BY <1>1, <1>5
<1>8. ASSUME NEW d \in Made
      PROVE  /\ index'[d] = "kAdded" => epoll[loopOf[d]][fd[d]] = [channel |-> d, events |-> events[d]]
             /\ index'[d] # "kNew" => channels'[loopOf[d]][fd[d]] = d
  BY <1>1, <1>2, <1>3, <1>6, <1>7 DEF Polled
<1>9. ASSUME NEW k \in Loops, NEW g \in Fds
      PROVE  /\ epoll[k][g] = NoEntry \/ \E d \in Made :
                  epoll[k][g].channel = d /\ loopOf[d] = k /\ fd[d] = g /\ index'[d] = "kAdded"
             /\ channels'[k][g] = NoConn \/ \E d \in Made :
                  channels'[k][g] = d /\ loopOf[d] = k /\ fd[d] = g /\ index'[d] # "kNew"
  <2>1. epoll[k][g] = NoEntry \/ \E d \in Made :
                  epoll[k][g].channel = d /\ loopOf[d] = k /\ fd[d] = g /\ index'[d] = "kAdded"
    BY <1>1, <1>3, <1>7 DEF Polled
  <2>2. channels'[k][g] = NoConn \/ \E d \in Made :
                  channels'[k][g] = d /\ loopOf[d] = k /\ fd[d] = g /\ index'[d] # "kNew"
    <3>1. CASE k = l /\ g = f
      BY <1>6, <3>1
    <3>2. CASE k # l \/ g # f
      BY <1>1, <1>3, <1>6, <1>7, <3>2 DEF Polled, l, f
    <3>3. QED
      BY <3>1, <3>2
  <2>3. QED
    BY <2>1, <2>2
<1>10. Polled'
  BY <1>3, <1>4, <1>5, <1>8, <1>9 DEF Polled
<1>11. QED
  BY <1>5, <1>10
-----------------------------------------------------------------------------
(* Steps that concern one connection, and steps that concern none. *)

Others(c) ==
  \A d \in Conns \ {c} :
    /\ told'[d] = told[d] /\ index'[d] = index[d] /\ events'[d] = events[d]
    /\ state'[d] = state[d] /\ output'[d] = output[d]
    /\ d \in connections' <=> d \in connections
    /\ d \in fin' <=> d \in fin

\* The rest of the connections is where it was.
LEMMA ConnectionStep ==
  ASSUME IInv, TypeOK', NEW c \in Made, Gone(c) => Gone(c)', Others(c), UNCHANGED <<fd, loopOf, nextConnId>>,
         NEW gone, NEW new, Moved(gone, new), \A g \in gone : g[2].conn = c,
         Staged(c)',
         \A l \in Loops : \A r \in Todo(l)' : r.conn = c => Sound(l, r)',
         \A n \in new : n[2].conn = c
  PROVE  Stages' /\ QueueSound' /\ DescriptorsApart'
<1>1. /\ Made \subseteq Conns /\ c \in Conns /\ Made' = Made /\ loopOf \in [Conns -> Loops]
  BY MadeIsMade DEF IInv, TypeOK, Made
<1>2. ASSUME NEW d \in Conns \ {c} PROVE Staged(d)'
  <2>1. Staged(d)
    BY DEF IInv, Stages
  <2>2. loopOf[d] \in Loops
    BY <1>1
  <2>3. Functor("connectDestroyed", d, 0) \in Todo(loopOf[d]) => Functor("connectDestroyed", d, 0) \in Todo(loopOf[d])'
    <3>1. Functor("connectDestroyed", d, 0).conn # c
      BY DEF Functor
    <3>2. QED
      BY <2>2, <3>1 DEF Moved
  <2>4. (told[d] = 0 => SettingUp(d)) => (told'[d] = 0 => SettingUp(d)')
    BY <1>1 DEF SettingUp, Others
  <2>5. (told[d] = 1 => Open(d)) => (told'[d] = 1 => Open(d)')
    BY DEF Open, Others, isWriting
  <2>6. (told[d] = 2 => Finished(d)) => (told'[d] = 2 => Finished(d)')
    BY <2>3 DEF Finished, Others
  <2>7. QED
    BY <1>1, <2>1, <2>4, <2>5, <2>6 DEF Staged, Unmade, Others
<1>3. Stages'
  BY <1>2 DEF Stages
<1>4. ASSUME NEW l \in Loops, NEW r \in Todo(l)' PROVE Sound(l, r)'
  <2>1. CASE r.conn = c
    BY <2>1
  <2>2. CASE r.conn # c
    <3>1. r \in Todo(l)
      BY <2>2 DEF Moved
    <3>2. Sound(l, r) /\ r.conn \in Conns
      BY <1>1, <3>1 DEF IInv, QueueSound, Sound
    <3>3. QED
      BY <1>1, <2>2, <3>2 DEF Sound, Others
  <2>3. QED
    BY <2>1, <2>2
<1>5. QueueSound'
  BY <1>4 DEF QueueSound, Moved
<1>6. DescriptorsApart'
  <2>1. \A d \in Made : d # c /\ Gone(d) => Gone(d)'
    BY <1>1 DEF Others, Gone
  <2>2. QED
    BY <1>1, <2>1 DEF IInv, DescriptorsApart
<1>7. QED
  BY <1>3, <1>5, <1>6

\* Nothing happens to any connection.
LEMMA SteadyStep ==
  ASSUME IInv, TypeOK', UNCHANGED <<fd, loopOf, nextConnId, told, connections, pollers, state, data, fin>>,
         NEW gone, Moved(gone, {}), \A g \in gone : g[2].run \notin Moves
  PROVE  Stages' /\ QueueSound' /\ DescriptorsApart' /\ Polled' /\ InOrder'
<1>1. Made' = Made /\ loopOf \in [Conns -> Loops]
  BY DEF Made, IInv, TypeOK
<1>2. ASSUME NEW d \in Conns PROVE Staged(d)'
  <2>1. Staged(d) /\ loopOf[d] \in Loops
    BY <1>1 DEF IInv, Stages
  <2>2. Functor("connectDestroyed", d, 0) \in Todo(loopOf[d]) => Functor("connectDestroyed", d, 0) \in Todo(loopOf[d])'
    <3>1. Functor("connectDestroyed", d, 0).run \in Moves
      BY DEF Functor, Moves
    <3>2. QED
      BY <2>1, <3>1 DEF Moved
  <2>3. (SettingUp(d) => SettingUp(d)') /\ (Open(d) => Open(d)') /\ (Unmade(d) => Unmade(d)')
    BY <1>1 DEF SettingUp, Open, isWriting, Unmade
  <2>4. Finished(d) => Finished(d)'
    BY <2>2 DEF Finished
  <2>5. QED
    BY <1>1, <2>1, <2>3, <2>4 DEF Staged
<1>3. QueueSound'
  <2>1. ASSUME NEW l \in Loops, NEW r \in Todo(l)' PROVE Sound(l, r)'
    <3>1. r \in Todo(l)
      BY DEF Moved
    <3>2. Sound(l, r)
      BY <3>1 DEF IInv, QueueSound
    <3>3. QED
      BY <1>1, <3>2 DEF Sound
  <2>2. QED
    BY <2>1 DEF QueueSound, Moved
<1>4. DescriptorsApart'
  BY <1>1 DEF IInv, DescriptorsApart, Gone
<1>5. Polled'
  BY <1>1 DEF IInv, Polled
<1>6. InOrder'
  BY DEF IInv, InOrder
<1>7. QED
  BY <1>2, <1>3, <1>4, <1>5, <1>6 DEF Stages

\* Loops other than l do not notice what l does with a connection of its own.
LEMMA LoopStepSound ==
  ASSUME IInv, NEW l \in Loops, Attends(l)', loopOf' = loopOf, nextConnId' = nextConnId,
         \A k \in Loops \ {l} : /\ at'[k] = at[k] /\ functions'[k] = functions[k] /\ pos'[k] = pos[k]
                               /\ active'[k] = active[k] /\ handling'[k] = handling[k] /\ inUser'[k] = inUser[k],
         \A c \in Conns : told'[c] = told[c] \/ loopOf[c] = l
  PROVE  LoopSound'
<1>1. Made' = Made /\ Made \subseteq Conns
  BY MadeIsMade DEF Made, IInv
<1>2. ASSUME NEW k \in Loops \ {l} PROVE Attends(k)'
  <2>1. Attends(k)
    BY DEF IInv, LoopSound
  <2>2. \A c \in Conns : loopOf[c] = k => told'[c] = told[c]
    OBVIOUS
  <2>3. QED
    BY <1>1, <2>1, <2>2 DEF Attends
<1>3. QED
  BY <1>2 DEF LoopSound

LEMMA UsersKept ==
  ASSUME IInv, UNCHANGED users, \A c \in Conns : told[c] # 0 => told'[c] # 0
  PROVE  MessagesNumbered' /\ HeldSound'
<1>1. \A u \in Users : holds[u] \subseteq Conns
  BY MadeIsMade DEF IInv, TypeOK
<1>2. QED
  BY <1>1 DEF IInv, MessagesNumbered, HeldSound

LEMMA LoopsKept ==
  ASSUME IInv, UNCHANGED <<loopOf, nextConnId, at, functions, pos, active, handling, inUser, told>>
  PROVE  LoopSound'
BY DEF IInv, LoopSound, Attends, Made

-----------------------------------------------------------------------------
(* The steps of a loop that leave every connection where it is. *)

LEMMA WatchedOpen ==
  ASSUME IInv, NEW l \in Loops, NEW c \in Conns, c \in Watched(l)
  PROVE  loopOf[c] = l /\ told[c] = 1
<1>1. PICK f \in Fds : epoll[l][f].channel = c
  BY DEF Watched
<1>2. epoll[l][f] # NoEntry
  BY <1>1, Sizes DEF NoEntry, NoConn
<1>3. loopOf[c] = l /\ index[c] = "kAdded"
  BY <1>1, <1>2 DEF IInv, Polled
<1>4. QED
  BY <1>3 DEF IInv, Stages, Staged, SettingUp, Finished

LEMMA PollKeeps ==
  ASSUME IInv, TypeOK', NEW l \in Loops,
         NEW ready \in SUBSET (Watched(l) \cup IF l = Base THEN {Acceptor} ELSE {}), PollReturn(l, ready)
  PROVE  IInv'
<1>1. Moved({}, {}) /\ MessagesNumbered' /\ HeldSound'
  BY QueuesKept, UsersKept DEF PollReturn, IInv
<1>2. at \in [Loops -> {"poll", "events", "functors"}] /\ active \in [Loops -> SUBSET (Conns \cup {Acceptor})]
      /\ Attends(l) /\ Made' = Made
  BY DEF IInv, TypeOK, LoopSound, PollReturn, Made
<1>3. \A c \in ready \cap Conns : loopOf[c] = l /\ told[c] = 1
  BY WatchedOpen, Sizes
<1>4. Acceptor \in ready => l = Base
  <2>1. Watched(l) \subseteq Conns
    <3>1. epoll \in [Loops -> [Fds -> [channel : Conns \cup {NoConn}, events : SUBSET {"in", "out"}]]]
      BY DEF IInv, TypeOK
    <3>2. \A f \in Fds : epoll[l][f].channel \in Conns \cup {NoChannel}
      BY <3>1, Sizes
    <3>3. QED
      BY <3>2 DEF Watched
  <2>2. QED
    BY <2>1, Sizes
<1>5. /\ at[l] = "poll" /\ at'[l] = "events" /\ active'[l] = ready
      /\ UNCHANGED <<functions, pos, handling, inUser, loopOf, told>>
  BY <1>2 DEF PollReturn
<1>6. NoConn \notin Conns
  BY Sizes
<1>7. Attends(l)'
  BY <1>2, <1>3, <1>4, <1>5, <1>6 DEF Attends
<1>8. LoopSound'
  BY <1>2, <1>7, LoopStepSound DEF PollReturn
<1>9. QED
  BY <1>1, <1>8, SteadyStep DEF PollReturn, IInv

LEMMA HandlerStep ==
  ASSUME IInv, NEW l \in Loops, NEW c \in Conns, HandleEvent(l, c)
  PROVE  /\ c \in Made /\ loopOf[c] = l /\ told[c] = 1 /\ at[l] = "events"
         /\ Attends(l) /\ UNCHANGED users
         /\ LoopSound'
<1>1. c \in active[l] /\ Attends(l) /\ at[l] = "events"
  BY DEF HandleEvent, IInv, LoopSound
<1>2. loopOf[c] = l /\ told[c] = 1
  BY <1>1 DEF Attends
<1>3. c \in Made
  BY <1>2 DEF IInv, Stages, Staged, Unmade
<1>4. active' = [active EXCEPT ![l] = @ \ {c}] /\ handling' = [handling EXCEPT ![l] = c]
      /\ UNCHANGED <<nextConnId, loopOf, told, at, functions, pos, inUser, users>>
  BY DEF HandleEvent
<1>5. /\ active'[l] = active[l] \ {c} /\ handling'[l] = c
      /\ \A k \in Loops \ {l} : active'[k] = active[k] /\ handling'[k] = handling[k]
  BY <1>4 DEF IInv, TypeOK
<1>6. Made' = Made
  BY <1>4 DEF Made
<1>7. Attends(l)'
  BY <1>1, <1>2, <1>3, <1>4, <1>5, <1>6 DEF Attends
<1>8. LoopSound'
  BY <1>4, <1>5, <1>7, LoopStepSound
<1>9. QED
  BY <1>1, <1>2, <1>3, <1>4, <1>8

LEMMA NoWriteKeeps ==
  ASSUME IInv, TypeOK', NEW l \in Loops, NEW c \in Conns, HandleNoWrite(l, c)
  PROVE  IInv'
<1>1. HandleEvent(l, c) /\ UNCHANGED <<pollers, output, wire, pending, fin>>
  BY DEF HandleNoWrite
<1>2. UNCHANGED <<fd, loopOf, nextConnId, told, connections, state, data, functions, pos>>
  BY <1>1 DEF HandleEvent
<1>3. Moved({}, {}) /\ MessagesNumbered' /\ HeldSound' /\ LoopSound'
  BY <1>1, <1>2, QueuesKept, UsersKept, HandlerStep DEF IInv
<1>4. QED
  BY <1>1, <1>2, <1>3, SteadyStep DEF IInv

\* The read callback is that of an open connection.
LEMMA ReaderStep ==
  ASSUME IInv, NEW l \in Loops, NEW c \in Conns, ReadDone(l, c)
  PROVE  /\ c \in Made /\ loopOf[c] = l /\ told[c] = 1 /\ at[l] = "events" /\ at' = at
         /\ Attends(l) /\ UNCHANGED <<users, functions, pos, active, data, fin, fd, nextConnId, loopOf>>
         /\ c \notin active[l]
         /\ handling'[l] = NoConn /\ \A k \in Loops \ {l} : handling'[k] = handling[k]
<1>1. handling[l] = c /\ Attends(l) /\ c # NoConn /\ state[c] # "kConnecting"
  BY Sizes DEF ReadDone, IInv, LoopSound
<1>2. c \in Made /\ loopOf[c] = l /\ told[c] \in {0, 1} /\ at[l] = "events" /\ c \notin active[l]
  BY <1>1 DEF Attends
<1>3. told[c] = 1
  BY <1>1, <1>2 DEF IInv, Stages, Staged, SettingUp
<1>4. QED
  BY <1>1, <1>2, <1>3 DEF ReadDone, IInv, TypeOK

LEMMA ReadKeeps ==
  ASSUME IInv, TypeOK', NEW l \in Loops, NEW c \in Conns, HandleMessage(l, c) \/ HandleNoRead(l, c)
  PROVE  IInv'
<1>1. ReadDone(l, c) /\ UNCHANGED <<pollers, connections, state, pending, told>>
      /\ (UNCHANGED inUser \/ inUser' = [inUser EXCEPT ![l] = c])
  BY DEF HandleMessage, HandleNoRead
<1>2. /\ c \in Made /\ loopOf[c] = l /\ told[c] = 1 /\ at[l] = "events" /\ at' = at
      /\ Attends(l) /\ UNCHANGED <<users, functions, pos, active, data, fin, fd, nextConnId, loopOf>>
      /\ handling'[l] = NoConn /\ \A k \in Loops \ {l} : handling'[k] = handling[k]
  BY <1>1, ReaderStep
<1>3. /\ inUser'[l] = inUser[l] \/ inUser'[l] = c
      /\ \A k \in Loops \ {l} : inUser'[k] = inUser[k]
  <2>1. inUser \in [Loops -> Conns \cup {NoConn}]
    BY DEF IInv, TypeOK
  <2>2. QED
    BY <1>1, <2>1
<1>4. Made' = Made
  BY <1>2 DEF Made
<1>5. Attends(l)'
  BY <1>1, <1>2, <1>3, <1>4, Sizes DEF Attends
<1>6. LoopSound'
  BY <1>1, <1>2, <1>3, <1>5, LoopStepSound
<1>7. Moved({}, {}) /\ MessagesNumbered' /\ HeldSound'
  BY <1>1, <1>2, QueuesKept, UsersKept DEF IInv
<1>8. QED
  BY <1>1, <1>2, <1>6, <1>7, SteadyStep DEF IInv

LEMMA AcceptFailsKeeps == ASSUME IInv, TypeOK', AcceptFails PROVE IInv'
<1>1. active' = [active EXCEPT ![Base] = @ \ {Acceptor}] /\ Base \in Loops /\ Attends(Base)
      /\ UNCHANGED <<fd, pollers, server, state, data, queues, handling, inUser, users, messages,
                      peerClosed, fin, told>>
  BY Sizes DEF AcceptFails, IInv, LoopSound
<1>2. /\ active'[Base] = active[Base] \ {Acceptor}
      /\ \A k \in Loops \ {Base} : active'[k] = active[k]
  BY <1>1 DEF IInv, TypeOK
<1>3. Made' = Made
  BY <1>1 DEF Made
<1>4. Attends(Base)'
  BY <1>1, <1>2, <1>3 DEF Attends
<1>5. LoopSound'
  BY <1>1, <1>2, <1>4, LoopStepSound
<1>6. Moved({}, {}) /\ MessagesNumbered' /\ HeldSound'
  BY <1>1, QueuesKept, UsersKept DEF IInv
<1>7. QED
  BY <1>1, <1>5, <1>6, SteadyStep DEF IInv

LEMMA BatchKeeps ==
  ASSUME IInv, TypeOK', NEW l \in Loops, Swap(l) \/ FunctorsDone(l)
  PROVE  IInv'
<1>1. Moved({}, {})
  BY SwapMovesNothing DEF IInv
<1>2. /\ UNCHANGED <<fd, pollers, server, state, data, where, inUser, users, messages, peerClosed, fin, told>>
      /\ Attends(l)
  BY DEF Swap, FunctorsDone, IInv, LoopSound
<1>3. pos \in [Loops -> Nat] /\ functions \in [Loops -> Seq(Functors)] /\ at \in [Loops -> {"poll", "events", "functors"}]
  BY DEF IInv, TypeOK
<1>4. \A k \in Loops \ {l} : at'[k] = at[k] /\ functions'[k] = functions[k] /\ pos'[k] = pos[k]
  BY <1>3 DEF Swap, FunctorsDone
<1>5. Made' = Made
  BY <1>2 DEF Made
<1>6. Attends(l)'
  <2>1. CASE Swap(l)
    <3>1. at'[l] = "functors" /\ active[l] = {} /\ handling[l] = NoConn
      BY <1>3, <2>1 DEF Swap
    <3>2. QED
      BY <1>2, <1>5, <3>1 DEF Attends
  <2>2. CASE FunctorsDone(l)
    <3>1. at[l] = "functors" /\ at'[l] = "poll" /\ functions'[l] = <<>> /\ pos'[l] = 1
      BY <1>3, <2>2 DEF FunctorsDone
    <3>2. QED
      BY <1>2, <1>5, <3>1 DEF Attends
  <2>3. QED
    BY <2>1, <2>2
<1>7. LoopSound'
  BY <1>2, <1>4, <1>6, LoopStepSound
<1>8. MessagesNumbered' /\ HeldSound'
  BY <1>2, UsersKept
<1>9. QED
  BY <1>1, <1>2, <1>7, <1>8, SteadyStep DEF IInv

\* A functor runs, and its loop's batch goes on.
LEMMA RunStep ==
  ASSUME IInv, NEW l \in Loops, NEW f, NEW c \in Conns, Run(l, f, c)
  PROVE  /\ Now(l).run = f /\ Now(l).conn = c /\ Now(l) \in Todo(l) /\ Sound(l, Now(l)) /\ c \in Made
         /\ pos[l] <= Len(functions[l]) /\ pos' = [pos EXCEPT ![l] = @ + 1]
         /\ UNCHANGED <<functions, fd, loopOf, nextConnId, users, at, where>>
         /\ Made' = Made
         /\ at[l] = "functors" /\ active[l] = {} /\ handling[l] = NoConn /\ Attends(l)
         /\ \A k \in Loops \ {l} : pos'[k] = pos[k]
<1>1. /\ pos' = [pos EXCEPT ![l] = @ + 1] /\ pos[l] <= Len(functions[l]) /\ at[l] = "functors"
      /\ UNCHANGED <<functions, fd, loopOf, nextConnId, users, at, where>>
  BY DEF Run, Turn
<1>2. Now(l).run = f /\ Now(l).conn = c /\ Now(l) \in Todo(l) /\ Sound(l, Now(l)) /\ c \in Made
  BY RunTyped
<1>3. Attends(l) /\ active[l] = {} /\ handling[l] = NoConn
  BY <1>1 DEF IInv, LoopSound, Attends
<1>4. \A k \in Loops \ {l} : pos'[k] = pos[k]
  BY <1>1 DEF IInv, TypeOK
<1>5. QED
  BY <1>1, <1>2, <1>3, <1>4 DEF Made

LEMMA CallbackKeeps ==
  ASSUME IInv, TypeOK', NEW l \in Loops, NEW c \in Conns, RunCallback(l, c)
  PROVE  IInv'
<1>1. PICK f \in {"writeCompleteCallback", "highWaterMarkCallback"} : Run(l, f, c)
  BY DEF RunCallback
<1>2. /\ inUser' = [inUser EXCEPT ![l] = c]
      /\ UNCHANGED <<pollers, connections, state, data, pending, fin, told>>
  BY DEF RunCallback
<1>3. Moved({<<l, Now(l)>>}, {})
  BY <1>1, <1>2, RunStep, FunctorRuns DEF IInv
<1>4. Now(l).run = f /\ f \notin Moves
  BY <1>1, RunStep DEF Moves
<1>5. loopOf[c] = l /\ told[c] # 0
  BY <1>1, <1>4, RunStep DEF Sound, Moves
<1>6. inUser'[l] = c /\ \A k \in Loops \ {l} : inUser'[k] = inUser[k]
  BY <1>2 DEF IInv, TypeOK
<1>7. Attends(l)'
  BY <1>1, <1>2, <1>5, <1>6, RunStep DEF Attends
<1>8. LoopSound'
  BY <1>1, <1>2, <1>6, <1>7, RunStep, LoopStepSound
<1>9. MessagesNumbered' /\ HeldSound'
  BY <1>1, <1>2, RunStep, UsersKept
<1>10. UNCHANGED <<fd, loopOf, nextConnId>>
  BY <1>1, RunStep
<1>11. QED
  BY <1>2, <1>3, <1>4, <1>8, <1>9, <1>10, SteadyStep DEF IInv

LEMMA CallerStep ==
  ASSUME IInv, NEW l \in Loops, NEW c \in Conns, Callback(l, c)
  PROVE  /\ inUser[l] = c /\ c \in Made /\ loopOf[c] = l /\ told[c] # 0 /\ Attends(l)
         /\ Made' = Made
         /\ UNCHANGED <<fd, server, functions, pos, at, where, call, peerClosed, told>>
BY Sizes DEF Callback, IInv, LoopSound, Attends, Made

LEMMA ReturnKeeps ==
  ASSUME IInv, TypeOK', NEW l \in Loops, NEW c \in Conns, CallbackReturn(l, c)
  PROVE  IInv'
<1>1. /\ inUser' = [inUser EXCEPT ![l] = NoConn] /\ Callback(l, c)
      /\ UNCHANGED <<pollers, state, data, pending, holds, messages, fin>>
  BY DEF CallbackReturn
<1>2. inUser'[l] = NoConn /\ \A k \in Loops \ {l} : inUser'[k] = inUser[k]
  BY <1>1 DEF IInv, TypeOK
<1>3. Attends(l)'
  BY <1>1, <1>2, CallerStep DEF Attends
<1>4. LoopSound'
  BY <1>1, <1>2, <1>3, CallerStep, LoopStepSound
<1>5. Moved({}, {}) /\ MessagesNumbered' /\ HeldSound'
  BY <1>1, CallerStep, QueuesKept, UsersKept DEF IInv
<1>6. QED
  BY <1>1, <1>4, <1>5, CallerStep, SteadyStep DEF IInv

LEMMA HandOutKeeps ==
  ASSUME IInv, TypeOK', NEW l \in Loops, NEW c \in Conns, NEW u \in Users, HandOut(l, c, u)
  PROVE  IInv'
<1>1. /\ holds' = [holds EXCEPT ![u] = @ \cup {c}] /\ Callback(l, c)
      /\ UNCHANGED <<pollers, state, data, pending, inUser, messages, fin>>
  BY DEF HandOut
<1>2. /\ told[c] # 0
      /\ UNCHANGED <<fd, server, functions, pos, at, where, call, peerClosed, told>>
  BY <1>1, CallerStep
<1>3. HeldSound'
  BY <1>1, <1>2 DEF IInv, TypeOK, HeldSound
<1>4. MessagesNumbered' /\ LoopSound' /\ Moved({}, {})
  BY <1>1, <1>2, LoopsKept, QueuesKept DEF IInv, MessagesNumbered
<1>5. QED
  BY <1>1, <1>2, <1>3, <1>4, SteadyStep DEF IInv

\* Steps of the program's own threads, of the peer, and start().
LEMMA OutsideKeeps ==
  ASSUME IInv, TypeOK',
         \/ Start
         \/ \E c \in Conns : PeerClose(c)
         \/ \E u \in Users, c \in Conns : UserDrop(u, c)
         \/ UNCHANGED vars
  PROVE  IInv'
<1>1. /\ UNCHANGED <<fd, pollers, numThreads, next, nextConnId, connections, loopOf, state, data,
                      queues, where, inUser, call, fin, told>>
      /\ \A u \in Users : holds'[u] \subseteq holds[u]
  <2>1. holds \in [Users -> SUBSET Made]
    BY DEF IInv, TypeOK
  <2>2. ASSUME NEW u \in Users, NEW c \in Conns, UserDrop(u, c) PROVE \A v \in Users : holds'[v] \subseteq holds[v]
    BY <2>1, <2>2 DEF UserDrop
  <2>3. Start \/ (\E c \in Conns : PeerClose(c)) \/ UNCHANGED vars => UNCHANGED holds
    BY DEF Start, PeerClose, vars
  <2>4. \A u \in Users : holds'[u] \subseteq holds[u]
    BY <2>2, <2>3
  <2>5. QED
    BY <2>4 DEF Start, PeerClose, UserDrop, vars
<1>2. Moved({}, {}) /\ LoopSound'
  BY <1>1, QueuesKept, LoopsKept DEF IInv
<1>3. MessagesNumbered' /\ HeldSound'
  BY <1>1 DEF IInv, MessagesNumbered, HeldSound
<1>4. QED
  BY <1>1, <1>2, <1>3, SteadyStep DEF IInv

LEMMA UserCallKeeps ==
  ASSUME IInv, TypeOK', NEW u \in Users, NEW c \in Conns, NEW what \in {"sendInLoop", "shutdown"},
         UserCall(u, c, what)
  PROVE  IInv'
<1>1. /\ UNCHANGED <<fd, pollers, server, state, data, queues, where, inUser, holds, peerClosed, fin, told>>
      /\ call' = [call EXCEPT ![u] = [call |-> what, conn |-> c, message |-> messages']]
      /\ what = "sendInLoop" => messages' = messages + 1
  BY DEF UserCall
<1>2. MessagesNumbered'
  <2>1. messages \in Nat /\ call \in [Users -> {Idle} \cup Calls]
    BY Sizes DEF IInv, TypeOK
  <2>2. /\ call'[u].call = what /\ (what = "sendInLoop" => call'[u].message > 0)
        /\ \A v \in Users \ {u} : call'[v] = call[v]
    BY <1>1, <2>1
  <2>3. QED
    BY <2>2 DEF IInv, MessagesNumbered
<1>3. Moved({}, {}) /\ LoopSound' /\ HeldSound'
  BY <1>1, QueuesKept, LoopsKept DEF IInv, HeldSound
<1>4. QED
  BY <1>1, <1>2, <1>3, SteadyStep DEF IInv
-----------------------------------------------------------------------------
(* shutdown(). *)

LEMMA ShutdownStep ==
  ASSUME IInv, TypeOK', NEW c \in Made, told[c] # 0,
         UNCHANGED <<fd, loopOf, nextConnId, told, connections, pollers, data>>,
         NEW gone, NEW new, Moved(gone, new),
         \A g \in gone : g[2].conn = c /\ g[2].run \notin Moves,
         \A n \in new : n[2].conn = c /\ Sound(n[1], n[2])',
         state' = state \/ state' = [state EXCEPT ![c] = "kDisConnected"],
         fin' = fin \/ (fin' = fin \cup {c} /\ ~isWriting(c) /\ state'[c] = "kDisConnected")
  PROVE  Stages' /\ QueueSound' /\ DescriptorsApart' /\ Polled' /\ InOrder'
<1>1. /\ Made' = Made /\ c \in Conns /\ loopOf[c] \in Loops /\ Staged(c) /\ state \in [Conns ->
           {"none", "kConnecting", "kConnected", "kDisConnecting", "kDisConnected"}]
  BY MadeIsMade DEF Made, IInv, TypeOK, Stages
<1>2. /\ state'[c] = state[c] \/ state'[c] = "kDisConnected"
      /\ \A d \in Conns \ {c} : state'[d] = state[d]
  BY <1>1
<1>3. Others(c) /\ (Gone(c) => Gone(c)')
  BY <1>2 DEF Others, Gone
<1>4. Functor("connectDestroyed", c, 0) \in Todo(loopOf[c]) => Functor("connectDestroyed", c, 0) \in Todo(loopOf[c])'
  <2>1. Functor("connectDestroyed", c, 0).run \in Moves
    BY DEF Functor, Moves
  <2>2. QED
    <3>1. PICK k \in Loops : k = loopOf[c]
      BY <1>1
    <3>2. Functor("connectDestroyed", c, 0) \in Todo(k) => Functor("connectDestroyed", c, 0) \in Todo(k)'
      BY <2>1 DEF Moved
    <3>3. loopOf'[c] = k
      BY <3>1
    <3>4. QED
      BY <3>1, <3>2, <3>3
<1>5. Staged(c)'
  <2>1. told[c] = 1 => Open(c)'
    <3>1. told[c] = 1 => Open(c)
      BY <1>1 DEF Staged
    <3>2. CASE fin' = fin
      BY <1>2, <3>1, <3>2 DEF Open, isWriting
    <3>3. CASE fin' = fin \cup {c} /\ ~isWriting(c) /\ state'[c] = "kDisConnected"
      BY <1>2, <3>1, <3>3 DEF Open, isWriting
    <3>4. QED
      BY <3>2, <3>3
  <2>2. told[c] = 2 => Finished(c)'
    BY <1>1, <1>2, <1>4 DEF Staged, Finished
  <2>3. QED
    BY <1>1, <1>2, <2>1, <2>2 DEF Staged
<1>6. ASSUME NEW l \in Loops, NEW r \in Todo(l)', r.conn = c PROVE Sound(l, r)'
  <2>1. CASE <<l, r>> \in new
    BY <2>1
  <2>2. CASE r \in Todo(l)
    <3>1. Sound(l, r)
      BY <2>2 DEF IInv, QueueSound
    <3>2. QED
      BY <1>1, <1>2, <1>6, <3>1 DEF Sound
  <2>3. QED
    BY <2>1, <2>2 DEF Moved
<1>7. Stages' /\ QueueSound' /\ DescriptorsApart'
  BY <1>3, <1>5, <1>6, ConnectionStep
<1>8. Polled'
  BY <1>1 DEF IInv, Polled
<1>9. InOrder'
  BY DEF IInv, InOrder
<1>10. QED
  BY <1>7, <1>8, <1>9

LEMMA RunShutdownKeeps ==
  ASSUME IInv, TypeOK', NEW l \in Loops, NEW c \in Conns, RunShutdown(l, c)
  PROVE  IInv'
<1>1. /\ Run(l, "shutdownInLoop", c) /\ ShutdownInLoop(c)
      /\ UNCHANGED <<pollers, connections, state, data, pending, inUser, told>>
  BY DEF RunShutdown
<1>2. Moved({<<l, Now(l)>>}, {})
  BY <1>1, RunStep, FunctorRuns DEF IInv
<1>3. c \in Made /\ Now(l).conn = c /\ Now(l).run \notin Moves /\ told[c] # 0 /\ state[c] = "kDisConnected"
  BY <1>1, RunStep DEF Sound, Moves
<1>4. fin' = fin \/ (fin' = fin \cup {c} /\ ~isWriting(c) /\ state'[c] = "kDisConnected")
  BY <1>1, <1>3 DEF ShutdownInLoop
<1>5. Stages' /\ QueueSound' /\ DescriptorsApart' /\ Polled' /\ InOrder'
  <2>1. \A g \in {<<l, Now(l)>>} : g[2].conn = c /\ g[2].run \notin Moves
    BY <1>3
  <2>2. UNCHANGED <<fd, loopOf, nextConnId>>
    BY <1>1, RunStep
  <2>3. QED
    BY <1>1, <1>2, <1>3, <1>4, <2>1, <2>2, ShutdownStep
<1>6. Attends(l)'
  BY <1>1, RunStep DEF Attends
<1>7. LoopSound'
  BY <1>1, <1>6, RunStep, LoopStepSound
<1>8. MessagesNumbered' /\ HeldSound'
  BY <1>1, RunStep, UsersKept
<1>9. QED
  BY <1>5, <1>7, <1>8 DEF IInv

LEMMA CallbackShutdownKeeps ==
  ASSUME IInv, TypeOK', NEW l \in Loops, NEW c \in Conns, CallbackShutdown(l, c)
  PROVE  IInv'
<1>1. /\ Callback(l, c) /\ state' = [state EXCEPT ![c] = "kDisConnected"] /\ ShutdownInLoop(c)
      /\ UNCHANGED <<pollers, data, pending, inUser, holds, messages>>
  BY DEF CallbackShutdown, ClosingState
<1>2. /\ c \in Made /\ told[c] # 0
      /\ UNCHANGED <<fd, server, functions, pos, at, where, call, peerClosed, told>>
  BY <1>1, CallerStep
<1>3. state'[c] = "kDisConnected"
  BY <1>1 DEF IInv, TypeOK
<1>4. fin' = fin \/ (fin' = fin \cup {c} /\ ~isWriting(c) /\ state'[c] = "kDisConnected")
  BY <1>1, <1>3 DEF ShutdownInLoop
<1>5. Moved({}, {}) /\ LoopSound' /\ MessagesNumbered' /\ HeldSound'
  BY <1>1, <1>2, QueuesKept, LoopsKept, UsersKept DEF IInv
<1>6. Stages' /\ QueueSound' /\ DescriptorsApart' /\ Polled' /\ InOrder'
  <2>1. \A g \in {} : g[2].conn = c /\ g[2].run \notin Moves
    OBVIOUS
  <2>2. \A n \in {} : n[2].conn = c /\ Sound(n[1], n[2])'
    OBVIOUS
  <2>3. UNCHANGED <<fd, loopOf, nextConnId, told, connections, pollers, data>>
    BY <1>1, <1>2
  <2>4. state' = state \/ state' = [state EXCEPT ![c] = "kDisConnected"]
    BY <1>1
  <2>5. Moved({}, {}) /\ c \in Made /\ told[c] # 0
    BY <1>2, <1>5
  <2>6. QED
    BY <1>4, <2>1, <2>2, <2>3, <2>4, <2>5, ShutdownStep
<1>7. QED
  BY <1>5, <1>6 DEF IInv

\* A user that is about to queue shutdownInLoop has changed the state.
StateSet ==
  \A u \in Users : call[u].call = "shutdownInLoop" => state[call[u].conn] = "kDisConnected"

LEMMA UserSetStateKeeps ==
  ASSUME IInv, TypeOK', NEW u \in Users, UserSetState(u)
  PROVE  IInv'
<1>1. call[u] \in Calls /\ call[u].conn \in holds[u]
  BY DEF UserSetState, IInv, TypeOK, Idle
<1>2. PICK c \in Made : c = call[u].conn
  BY <1>1 DEF IInv, TypeOK
<1>3. /\ state' = [state EXCEPT ![c] = "kDisConnected"]
      /\ call' = [call EXCEPT ![u].call = "shutdownInLoop"]
      /\ UNCHANGED <<fd, pollers, server, data, queues, where, inUser, holds, messages, peerClosed, fin, told>>
  BY <1>2 DEF UserSetState, ClosingState
<1>4. told[c] # 0
  BY <1>1, <1>2 DEF IInv, HeldSound
<1>5. Moved({}, {}) /\ LoopSound' /\ HeldSound'
  BY <1>3, QueuesKept, LoopsKept DEF IInv, HeldSound
<1>6. Stages' /\ QueueSound' /\ DescriptorsApart' /\ Polled' /\ InOrder'
  <2>1. \A g \in {} : g[2].conn = c /\ g[2].run \notin Moves
    OBVIOUS
  <2>2. \A n \in {} : n[2].conn = c /\ Sound(n[1], n[2])'
    OBVIOUS
  <2>3. UNCHANGED <<fd, loopOf, nextConnId, told, connections, pollers, data, fin>>
    BY <1>3
  <2>4. (state' = state \/ state' = [state EXCEPT ![c] = "kDisConnected"])
        /\ (fin' = fin \/ (fin' = fin \cup {c} /\ ~isWriting(c) /\ state'[c] = "kDisConnected"))
    BY <1>3
  <2>5. QED
    BY <1>4, <1>5, <2>1, <2>2, <2>3, <2>4, ShutdownStep
<1>7. MessagesNumbered'
  <2>1. call'[u].call = "shutdownInLoop" /\ \A v \in Users \ {u} : call'[v] = call[v]
    BY <1>1, <1>3 DEF IInv, TypeOK, Calls
  <2>2. QED
    BY <2>1 DEF IInv, MessagesNumbered
<1>8. QED
  BY <1>5, <1>6, <1>7 DEF IInv

LEMMA UserQueueKeeps ==
  ASSUME IInv, StateSet, TypeOK', NEW u \in Users, UserQueue(u)
  PROVE  IInv'
<1>1. call[u] \in Calls /\ call[u].conn \in holds[u] /\ call[u].call \in Asking
  BY DEF UserQueue, IInv, TypeOK, Idle, Asking
<1>2. PICK c \in Made : c = call[u].conn
  BY <1>1 DEF IInv, TypeOK
<1>3. PICK k \in Loops : k = loopOf[c]
  BY MadeIsMade DEF IInv, TypeOK
<1>4. PICK r \in Functors : r = Functor(call[u].call, c, call[u].message)
  BY <1>1, <1>2 DEF Calls, Functors, FunctorNames, Functor
<1>5. /\ r.conn = c /\ r.run \in {"sendInLoop", "shutdownInLoop"} /\ r.run \notin Moves
      /\ r.run = call[u].call /\ r.message = call[u].message
  BY <1>1, <1>4 DEF Calls, Functor, Moves, Asking
<1>6. /\ QueueInLoop(k, r)
      /\ call' = [call EXCEPT ![u] = Idle]
      /\ UNCHANGED <<fd, pollers, server, state, data, functions, pos, at, where, inUser, holds, messages,
                      peerClosed, fin, told>>
  BY <1>2, <1>3, <1>4, <1>5 DEF UserQueue
<1>7. told[c] # 0 /\ (r.run = "sendInLoop" => r.message > 0)
  BY <1>1, <1>2, <1>5 DEF IInv, HeldSound, MessagesNumbered, Idle
<1>8. Moved({}, {<<k, r>>})
  BY <1>5, <1>6, QueueGrows DEF IInv, Fresh
<1>9. r.run = "shutdownInLoop" => state'[c] = "kDisConnected"
  BY <1>2, <1>5, <1>6 DEF StateSet
<1>10. Sound(k, r)'
  <2>1. c \in Made' /\ loopOf'[c] = k /\ told'[c] # 0
    BY <1>3, <1>6, <1>7 DEF Made
  <2>2. QED
    BY <1>5, <1>7, <1>9, <2>1 DEF Sound, Moves
<1>11. Stages' /\ QueueSound' /\ DescriptorsApart' /\ Polled' /\ InOrder'
  <2>1. \A n \in {<<k, r>>} : n[2].conn = c /\ Sound(n[1], n[2])'
    BY <1>5, <1>10
  <2>2. state' = state \/ state' = [state EXCEPT ![c] = "kDisConnected"]
    BY <1>6
  <2>3. \A g \in {} : g[2].conn = c /\ g[2].run \notin Moves
    OBVIOUS
  <2>4. UNCHANGED <<fd, loopOf, nextConnId, told, connections, pollers, data, fin>>
    BY <1>6
  <2>5. QED
    BY <1>7, <1>8, <2>1, <2>2, <2>3, <2>4, ShutdownStep
<1>12. MessagesNumbered' /\ HeldSound'
  <2>1. call \in [Users -> {Idle} \cup Calls]
    BY DEF IInv, TypeOK
  <2>2. call'[u] = Idle /\ \A v \in Users \ {u} : call'[v] = call[v]
    BY <1>6, <2>1
  <2>3. MessagesNumbered'
    BY <2>2 DEF IInv, MessagesNumbered
  <2>4. HeldSound'
    BY <1>6 DEF IInv, HeldSound
  <2>5. QED
    BY <2>3, <2>4
<1>13. LoopSound'
  BY <1>6, LoopsKept
<1>14. QED
  BY <1>11, <1>12, <1>13 DEF IInv
-----------------------------------------------------------------------------
(* send(), and the write callback. *)

WriteFunctors(c) == {Functor("writeCompleteCallback", c, 0), Functor("highWaterMarkCallback", c, 0)}

LEMMA WriteFunctorsSound ==
  ASSUME IInv, NEW c \in Made, NEW r \in WriteFunctors(c)
  PROVE  /\ r \in Functors /\ r.conn = c /\ r.run \notin Moves \cup {"sendInLoop", "shutdownInLoop"} /\ r.message = 0
         /\ loopOf' = loopOf /\ nextConnId' = nextConnId /\ told'[c] # 0 => \A l \in Loops : loopOf[c] = l => Sound(l, r)'
<1>1. r \in Functors
  BY FunctorsTyped, MadeIsMade DEF WriteFunctors, Owning, IInv
<1>2. r.conn = c /\ r.run \notin Moves \cup {"sendInLoop", "shutdownInLoop"} /\ r.message = 0
  BY DEF WriteFunctors, Functor, Moves
<1>3. ASSUME loopOf' = loopOf, nextConnId' = nextConnId, told'[c] # 0, NEW l \in Loops, loopOf[c] = l
      PROVE  Sound(l, r)'
  <2>1. c \in Made'
    BY <1>3 DEF Made
  <2>2. QED
    BY <1>2, <1>3, <2>1 DEF Sound, Moves
<1>4. QED
  BY <1>1, <1>2, <1>3

\* A step that writes to, or buffers for, an open connection.
LEMMA WriteStep ==
  ASSUME IInv, TypeOK', NEW c \in Made, told[c] = 1, Others(c),
         UNCHANGED <<fd, loopOf, nextConnId, told, connections, state>>,
         NEW gone, NEW new, Moved(gone, new),
         \A g \in gone : g[2].conn = c /\ g[2].run \notin Moves,
         \A n \in new : n[1] = loopOf[c] /\ n[2] \in WriteFunctors(c),
         Open(c)', index'[c] = index[c]
  PROVE  Stages' /\ QueueSound' /\ DescriptorsApart'
<1>1. Made' = Made /\ c \in Conns /\ loopOf[c] \in Loops /\ Staged(c)
  BY MadeIsMade DEF Made, IInv, TypeOK, Stages
<1>2. Staged(c)'
  BY <1>1 DEF Staged
<1>3. ASSUME NEW l \in Loops, NEW r \in Todo(l)', r.conn = c PROVE Sound(l, r)'
  <2>1. CASE <<l, r>> \in new
    BY <2>1, WriteFunctorsSound
  <2>2. CASE r \in Todo(l)
    <3>1. Sound(l, r)
      BY <2>2 DEF IInv, QueueSound
    <3>2. QED
      BY <1>1, <1>3, <3>1 DEF Sound
  <2>3. QED
    BY <2>1, <2>2 DEF Moved
<1>4. \A n \in new : n[2].conn = c
  BY WriteFunctorsSound
<1>5. ~Gone(c)
  BY DEF Gone
<1>6. QED
  BY <1>2, <1>3, <1>4, <1>5, ConnectionStep

LEMMA SendQueues ==
  ASSUME NEW l, NEW c, NEW m, SendInLoop(l, c, m)
  PROVE  UNCHANGED pending \/ \E r \in WriteFunctors(c) : QueueInLoop(l, r)
BY DEF SendInLoop, Write, WriteFunctors

LEMMA SendKeeps ==
  ASSUME IInv, TypeOK', NEW c \in Made, told[c] # 0, NEW m \in 1..MaxMessages, SendInLoop(loopOf[c], c, m),
         UNCHANGED <<fd, loopOf, nextConnId, told, connections, state, fin>>,
         NEW gone, NEW new, Moved(gone, new),
         \A g \in gone : g[2].conn = c /\ g[2].run \notin Moves,
         \A n \in new : n[1] = loopOf[c] /\ n[2] \in WriteFunctors(c)
  PROVE  Stages' /\ QueueSound' /\ DescriptorsApart' /\ Polled' /\ InOrder'
<1>1. /\ Made' = Made /\ c \in Conns /\ loopOf[c] \in Loops /\ Staged(c)
      /\ output \in [Conns -> Seq(Octets)] /\ wire \in [Conns -> Seq(Octets)] /\ accepted \in [Conns -> Seq(Octets)]
      /\ events \in [Conns -> SUBSET {"in", "out"}] /\ index \in [Conns -> {"kNew", "kAdded", "kDeleted"}]
  BY MadeIsMade DEF Made, IInv, TypeOK, Stages
<1>2. CASE UNCHANGED <<data, pending, pollers>>
  <2>1. \A n \in new : n[2].conn = c /\ Sound(n[1], n[2])'
    BY <1>1, WriteFunctorsSound
  <2>2. QED
    BY <1>2, <2>1, ShutdownStep
<1>3. CASE Write(loopOf[c], c, m, Direct(c)) /\ state[c] # "kDisConnected"
  <2>1. told[c] = 1 /\ Open(c) /\ index[c] = "kAdded" /\ c \notin fin
    BY <1>1, <1>3 DEF Staged, Finished, Open
  <2>2. PICK n \in 0..(IF Direct(c) THEN Size ELSE 0) :
          /\ wire' = [wire EXCEPT ![c] = @ \o SubSeq(Bytes(m), 1, n)]
          /\ output' = [output EXCEPT ![c] = @ \o SubSeq(Bytes(m), n + 1, Size)]
          /\ accepted' = [accepted EXCEPT ![c] = @ \o Bytes(m)]
          /\ IF SubSeq(Bytes(m), n + 1, Size) = <<>> \/ isWriting(c)
             THEN UNCHANGED pollers
             ELSE UpdateChannel(loopOf[c], c, events[c] \cup {"out"})
    BY <1>3 DEF Write
  <2> DEFINE first == SubSeq(Bytes(m), 1, n)
             rest  == SubSeq(Bytes(m), n + 1, Size)
  <2>3. n \in 0..Size /\ (~Direct(c) => n = 0) /\ Size \in Nat \ {0}
    BY Sizes
  <2>4. /\ first \in Seq(Octets) /\ rest \in Seq(Octets) /\ Bytes(m) \in Seq(Octets) /\ first \o rest = Bytes(m)
    BY <2>3, BytesTyped
  <2>5. /\ n = 0 => first = <<>>
        /\ n = 0 => rest # <<>>
    <3>1. n = 0 => first = <<>>
      BY SubSeqEmpty
    <3>2. n = 0 => Len(rest) = Size
      <4>1. ASSUME n = 0 PROVE Len(SubSeq(Bytes(m), 1, Len(Bytes(m)))) = Size
        BY BytesTyped, SubSeqFull
      <4>2. QED
        BY <4>1, BytesTyped
    <3>3. QED
      BY <2>3, <3>1, <3>2, EmptySeq
  <2>6. /\ wire' = [wire EXCEPT ![c] = @ \o first]
        /\ output' = [output EXCEPT ![c] = @ \o rest]
        /\ rest = <<>> \/ isWriting(c) => UNCHANGED pollers
        /\ ~(rest = <<>> \/ isWriting(c)) => UpdateChannel(loopOf[c], c, events[c] \cup {"out"})
    BY <2>2
  <2> HIDE DEF first, rest
  <2>7. /\ wire'[c] = wire[c] \o first /\ output'[c] = output[c] \o rest /\ accepted'[c] = accepted[c] \o Bytes(m)
        /\ \A d \in Conns \ {c} : wire'[d] = wire[d] /\ output'[d] = output[d] /\ accepted'[d] = accepted[d]
    BY <1>1, <2>2, <2>6
  <2>8. /\ Polled'
        /\ index' = index
        /\ events' = events \/ events' = [events EXCEPT ![c] = @ \cup {"out"}]
        /\ rest = <<>> \/ isWriting(c) => events' = events
        /\ rest # <<>> => "out" \in events'[c]
    <3>1. CASE rest = <<>> \/ isWriting(c)
      <4>1. UNCHANGED pollers
        BY <2>6, <3>1
      <4>2. QED
        BY <1>1, <3>1, <4>1 DEF IInv, Polled, isWriting
    <3>2. CASE ~(rest = <<>> \/ isWriting(c))
      <4>1. events[c] \cup {"out"} \in SUBSET {"in", "out"}
        BY <1>1
      <4>2. /\ Polled'
            /\ index' = [index EXCEPT ![c] = IF events[c] \cup {"out"} = {} THEN "kDeleted" ELSE "kAdded"]
            /\ events' = [events EXCEPT ![c] = events[c] \cup {"out"}]
        BY <2>1, <2>6, <3>2, <4>1, UpdateAgrees
      <4>3. index' = index
        BY <1>1, <2>1, <4>2
      <4>4. QED
        BY <1>1, <3>2, <4>2, <4>3
    <3>3. QED
      BY <3>1, <3>2
  <2>9. Others(c)
    BY <1>1, <2>7, <2>8 DEF Others
  <2>10. output'[c] # <<>> <=> "out" \in events'[c]
    <3>1. output[c] \in Seq(Octets)
      BY <1>1
    <3>2. output'[c] = <<>> <=> output[c] = <<>> /\ rest = <<>>
      BY <2>4, <2>7, <3>1, ConcatEqualIffEmpty
    <3>3. rest = <<>> => Direct(c)
      BY <2>3, <2>5
    <3>4. QED
      BY <2>1, <2>8, <3>2, <3>3 DEF Direct, Open, isWriting
  <2>11. Open(c)'
    <3>1. "in" \in events'[c]
      BY <1>1, <2>1, <2>8 DEF Open
    <3>2. QED
      BY <2>1, <2>8, <2>10, <3>1 DEF Open, isWriting
  <2>12. Stages' /\ QueueSound' /\ DescriptorsApart'
    BY <2>1, <2>8, <2>9, <2>11, WriteStep
  <2>13. wire'[c] \o output'[c] = accepted'[c]
    <3>1. wire[c] \in Seq(Octets) /\ output[c] \in Seq(Octets) /\ wire[c] \o output[c] = accepted[c]
      BY <1>1 DEF IInv, InOrder
    <3>2. first \in Seq(Octets) /\ rest \in Seq(Octets)
      BY <2>4
    <3>3. wire[c] \in Seq(Octets) /\ output[c] \in Seq(Octets)
      BY <1>1
    <3>4. CASE output[c] = <<>>
      <4>1. output[c] \o rest = rest /\ wire[c] \o output[c] = wire[c]
        BY <2>4, <3>1, <3>4, ConcatEmptySeq
      <4>2. (wire[c] \o first) \o rest = wire[c] \o (first \o rest)
        BY <3>2, <3>3, Joined, ZenonT(60)
      <4>3. QED
        BY <2>4, <2>7, <3>1, <4>1, <4>2
    <3>5. CASE output[c] # <<>>
      <4>1. n = 0
        BY <2>3, <3>5 DEF Direct
      <4>2. wire[c] \o first = wire[c] /\ rest = Bytes(m)
        BY <2>4, <2>5, <3>1, <4>1, ConcatEmptySeq
      <4>3. wire[c] \o (output[c] \o rest) = (wire[c] \o output[c]) \o rest
        BY <3>2, <3>3, Joined, ZenonT(60)
      <4>4. QED
        BY <2>7, <3>1, <4>2, <4>3
    <3>6. QED
      BY <3>4, <3>5
  <2>14. InOrder'
    BY <2>7, <2>13 DEF IInv, InOrder
  <2>15. QED
    BY <2>8, <2>12, <2>14
<1>4. QED
  BY <1>2, <1>3 DEF SendInLoop

LEMMA RunSendKeeps ==
  ASSUME IInv, TypeOK', NEW l \in Loops, NEW c \in Conns, RunSend(l, c)
  PROVE  IInv'
<1>1. /\ Run(l, "sendInLoop", c) /\ SendInLoop(l, c, Now(l).message)
      /\ UNCHANGED <<connections, state, inUser, fin, told>>
  BY DEF RunSend, Now
<1>2. PICK m \in 1..MaxMessages : m = Now(l).message
  BY <1>1, RunTyped
<1>3. c \in Made /\ Now(l).conn = c /\ Now(l).run \notin Moves /\ told[c] # 0 /\ loopOf[c] = l
  BY <1>1, RunStep DEF Sound, Moves
<1>4. \E new \in SUBSET {<<l, r>> : r \in WriteFunctors(c)} : Moved({<<l, Now(l)>>}, new)
  <2>1. CASE UNCHANGED pending
    BY <1>1, <2>1, RunStep, FunctorRuns DEF IInv
  <2>2. ASSUME NEW r \in WriteFunctors(c), QueueInLoop(l, r) PROVE Moved({<<l, Now(l)>>}, {<<l, r>>})
    <3>1. r \in Functors /\ Fresh(l, r)
      BY <1>3, WriteFunctorsSound DEF Fresh
    <3>2. QED
      BY <1>1, <2>2, <3>1, RunStep, FunctorRunsAndQueues DEF IInv
  <2>3. QED
    BY <1>1, <2>1, <2>2, SendQueues
<1>5. Stages' /\ QueueSound' /\ DescriptorsApart' /\ Polled' /\ InOrder'
  <2>1. PICK new \in SUBSET {<<l, r>> : r \in WriteFunctors(c)} : Moved({<<l, Now(l)>>}, new)
    BY <1>4
  <2>2. \A n \in new : n[1] = loopOf[c] /\ n[2] \in WriteFunctors(c)
    BY <1>3, <2>1
  <2>3. \A g \in {<<l, Now(l)>>} : g[2].conn = c /\ g[2].run \notin Moves
    BY <1>3
  <2>4. UNCHANGED <<fd, loopOf, nextConnId>>
    BY <1>1, RunStep
  <2>5. QED
    BY <1>1, <1>2, <1>3, <2>1, <2>2, <2>3, <2>4, SendKeeps
<1>6. Attends(l)'
  BY <1>1, RunStep DEF Attends
<1>7. LoopSound'
  BY <1>1, <1>6, RunStep, LoopStepSound
<1>8. MessagesNumbered' /\ HeldSound'
  BY <1>1, RunStep, UsersKept
<1>9. QED
  BY <1>5, <1>7, <1>8 DEF IInv

LEMMA CallbackSendKeeps ==
  ASSUME IInv, TypeOK', NEW l \in Loops, NEW c \in Conns, CallbackSend(l, c)
  PROVE  IInv'
<1>1. /\ Callback(l, c) /\ SendInLoop(l, c, messages + 1) /\ messages + 1 \in 1..MaxMessages
      /\ UNCHANGED <<state, inUser, holds, fin>>
  BY Sizes DEF CallbackSend, IInv, TypeOK
<1>2. PICK m \in 1..MaxMessages : m = messages + 1
  BY <1>1
<1>3. /\ c \in Made /\ told[c] # 0 /\ loopOf[c] = l
      /\ UNCHANGED <<fd, server, functions, pos, at, where, call, peerClosed, told>>
  BY <1>1, CallerStep
<1>4. \E new \in SUBSET {<<l, r>> : r \in WriteFunctors(c)} : Moved({}, new)
  <2>1. CASE UNCHANGED pending
    BY <1>3, <2>1, QueuesKept DEF IInv
  <2>2. ASSUME NEW r \in WriteFunctors(c), QueueInLoop(l, r) PROVE Moved({}, {<<l, r>>})
    <3>1. r \in Functors /\ Fresh(l, r)
      BY <1>3, WriteFunctorsSound DEF Fresh
    <3>2. QED
      BY <1>3, <2>2, <3>1, QueueGrows DEF IInv
  <2>3. QED
    BY <1>1, <2>1, <2>2, SendQueues
<1>5. Stages' /\ QueueSound' /\ DescriptorsApart' /\ Polled' /\ InOrder'
  <2>1. PICK new \in SUBSET {<<l, r>> : r \in WriteFunctors(c)} : Moved({}, new)
    BY <1>4
  <2>2. \A n \in new : n[1] = loopOf[c] /\ n[2] \in WriteFunctors(c)
    BY <1>3, <2>1
  <2>3. \A g \in {} : g[2].conn = c /\ g[2].run \notin Moves
    OBVIOUS
  <2>4. QED
    BY <1>1, <1>2, <1>3, <2>1, <2>2, <2>3, SendKeeps
<1>6. LoopSound' /\ MessagesNumbered' /\ HeldSound'
  BY <1>1, <1>3, LoopsKept, UsersKept
<1>7. QED
  BY <1>5, <1>6 DEF IInv

LEMMA HandleWriteKeeps ==
  ASSUME IInv, TypeOK', NEW l \in Loops, NEW c \in Conns, NEW n \in 1..Len(output[c]), HandleWrite(l, c, n)
  PROVE  IInv'
<1>1. /\ HandleEvent(l, c) /\ isWriting(c)
      /\ wire' = [wire EXCEPT ![c] = @ \o SubSeq(output[c], 1, n)]
      /\ output' = [output EXCEPT ![c] = SubSeq(output[c], n + 1, Len(output[c]))]
      /\ IF n = Len(output[c]) THEN Drained(l, c) ELSE UNCHANGED <<pollers, pending, fin>>
  BY DEF HandleWrite
<1>2. /\ c \in Made /\ loopOf[c] = l /\ told[c] = 1 /\ LoopSound'
      /\ UNCHANGED users
  BY <1>1, HandlerStep
<1>3. UNCHANGED <<fd, loopOf, nextConnId, told, connections, state, accepted, functions, pos>>
  BY <1>1 DEF HandleEvent
<1>4. Open(c) /\ index[c] = "kAdded" /\ c \notin fin /\ "in" \in events[c]
  <2>1. Open(c)
    BY <1>2 DEF IInv, Stages, Staged
  <2>2. QED
    BY <1>1, <2>1 DEF Open
<1>5. /\ output \in [Conns -> Seq(Octets)] /\ wire \in [Conns -> Seq(Octets)] /\ output[c] \in Seq(Octets)
      /\ events \in [Conns -> SUBSET {"in", "out"}] /\ index \in [Conns -> {"kNew", "kAdded", "kDeleted"}]
  BY DEF IInv, TypeOK
<1> DEFINE first == SubSeq(output[c], 1, n)
           rest  == SubSeq(output[c], n + 1, Len(output[c]))
<1>6. /\ first \in Seq(Octets) /\ rest \in Seq(Octets) /\ first \o rest = output[c]
      /\ rest = <<>> <=> n = Len(output[c])
  BY <1>5, PartTyped
<1>7. wire' = [wire EXCEPT ![c] = @ \o first] /\ output' = [output EXCEPT ![c] = rest]
  BY <1>1
<1> HIDE DEF first, rest
<1>8. /\ wire'[c] = wire[c] \o first /\ output'[c] = rest
      /\ \A d \in Conns \ {c} : wire'[d] = wire[d] /\ output'[d] = output[d]
  BY <1>5, <1>7
<1>9. ASSUME n # Len(output[c]) PROVE Stages' /\ QueueSound' /\ DescriptorsApart' /\ Polled'
  <2>1. UNCHANGED <<pollers, pending, fin>>
    BY <1>1, <1>9
  <2>2. Others(c) /\ Open(c)' /\ index'[c] = index[c]
    BY <1>1, <1>3, <1>4, <1>6, <1>8, <1>9, <2>1 DEF Others, Open, isWriting
  <2>3. Moved({}, {})
    BY <1>3, <2>1, QueuesKept DEF IInv
  <2>4. Stages' /\ QueueSound' /\ DescriptorsApart'
    <3>1. \A g \in {} : g[2].conn = c /\ g[2].run \notin Moves
      OBVIOUS
    <3>2. \A w \in {} : w[1] = loopOf[c] /\ w[2] \in WriteFunctors(c)
      OBVIOUS
    <3>3. QED
      BY <1>2, <1>3, <2>2, <2>3, <3>1, <3>2, WriteStep
  <2>5. Polled'
    BY <1>3, <2>1 DEF IInv, Polled, Made
  <2>6. QED
    BY <2>4, <2>5
<1>10. ASSUME n = Len(output[c]) PROVE Stages' /\ QueueSound' /\ DescriptorsApart' /\ Polled'
  <2>1. /\ UpdateChannel(loopOf[c], c, events[c] \ {"out"})
        /\ QueueInLoop(l, Functor("writeCompleteCallback", c, 0))
        /\ fin' = fin
    BY <1>1, <1>2, <1>4, <1>10 DEF Drained, Open
  <2>2. /\ Polled'
        /\ index' = [index EXCEPT ![c] = IF events[c] \ {"out"} = {} THEN "kDeleted" ELSE "kAdded"]
        /\ events' = [events EXCEPT ![c] = events[c] \ {"out"}]
    <3>1. events[c] \ {"out"} \in SUBSET {"in", "out"}
      BY <1>5
    <3>2. QED
      BY <1>2, <1>3, <2>1, <3>1, UpdateAgrees
  <2>3. index' = index /\ events'[c] = events[c] \ {"out"} /\ "in" \in events'[c]
        /\ \A d \in Conns \ {c} : events'[d] = events[d]
    BY <1>4, <1>5, <2>2
  <2>4. Others(c) /\ Open(c)'
    BY <1>3, <1>4, <1>6, <1>8, <1>10, <2>1, <2>3 DEF Others, Open, isWriting
  <2>5. PICK r \in WriteFunctors(c) : r = Functor("writeCompleteCallback", c, 0)
    BY DEF WriteFunctors
  <2>6. Moved({}, {<<l, r>>})
    <3>1. r \in Functors /\ Fresh(l, r)
      BY <1>2, WriteFunctorsSound DEF Fresh
    <3>2. QED
      BY <1>3, <2>1, <2>5, <3>1, QueueGrows DEF IInv
  <2>7. Stages' /\ QueueSound' /\ DescriptorsApart'
    <3>1. \A g \in {} : g[2].conn = c /\ g[2].run \notin Moves
      OBVIOUS
    <3>2. \A w \in {<<l, r>>} : w[1] = loopOf[c] /\ w[2] \in WriteFunctors(c)
      BY <1>2
    <3>3. QED
      BY <1>2, <1>3, <2>3, <2>4, <2>6, <3>1, <3>2, WriteStep
  <2>8. QED
    BY <2>2, <2>7
<1>11. InOrder'
  <2>1. wire[c] \in Seq(Octets) /\ wire[c] \o output[c] = accepted[c]
    BY <1>5 DEF IInv, InOrder
  <2>2. (wire[c] \o first) \o rest = wire[c] \o (first \o rest)
    BY <1>6, <2>1, Joined
  <2>3. QED
    BY <1>3, <1>6, <1>8, <2>1, <2>2 DEF IInv, InOrder
<1>12. MessagesNumbered' /\ HeldSound'
  BY <1>2, <1>3, UsersKept
<1>13. QED
  BY <1>2, <1>9, <1>10, <1>11, <1>12 DEF IInv

-----------------------------------------------------------------------------
(* Connections come up and are taken apart. *)

\* Functors of a connection that is being set up: the one that establishes it.
LEMMA OnlyEstablish ==
  ASSUME IInv, NEW c \in Made, told[c] = 0, NEW k \in Loops, NEW r \in Todo(k), r.conn = c
  PROVE  r.run = "connectEstablished" /\ k = loopOf[c] /\ k # Base
<1>1. Sound(k, r)
  BY DEF IInv, QueueSound
<1>2. QED
  BY <1>1 DEF Sound, Moves

LEMMA EstablishStep ==
  ASSUME IInv, TypeOK', NEW c \in Made, NEW l \in Loops, l = loopOf[c], told[c] = 0, ConnectEstablished(l, c),
         UNCHANGED <<fd, loopOf, nextConnId, connections, data, fin>>,
         NEW gone, Moved(gone, {}),
         \A g \in gone : g[2].conn = c,
         \A k \in Loops : \A r \in Todo(k)' : r.conn # c
  PROVE  /\ Stages' /\ QueueSound' /\ DescriptorsApart' /\ Polled' /\ InOrder'
         /\ told'[c] = 1 /\ \A d \in Conns \ {c} : told'[d] = told[d]
<1>1. /\ Made' = Made /\ c \in Conns /\ SettingUp(c) /\ fd[c] \in Fds
      /\ state \in [Conns -> {"none", "kConnecting", "kConnected", "kDisConnecting", "kDisConnected"}]
      /\ told \in [Conns -> Nat]
      /\ events \in [Conns -> SUBSET {"in", "out"}] /\ index \in [Conns -> {"kNew", "kAdded", "kDeleted"}]
  BY MadeIsMade DEF Made, IInv, TypeOK, Stages, Staged
<1>2. /\ state' = [state EXCEPT ![c] = "kConnected"] /\ told' = [told EXCEPT ![c] = @ + 1]
      /\ UpdateChannel(loopOf[c], c, {"in"})
  BY <1>1 DEF ConnectEstablished, SettingUp
<1>3. /\ Polled'
      /\ index' = [index EXCEPT ![c] = IF {"in"} = {} THEN "kDeleted" ELSE "kAdded"]
      /\ events' = [events EXCEPT ![c] = {"in"}]
  BY <1>2, UpdateAgrees
<1>4. /\ told'[c] = 1 /\ state'[c] = "kConnected" /\ events'[c] = {"in"} /\ index'[c] = "kAdded"
      /\ \A d \in Conns \ {c} : /\ told'[d] = told[d] /\ state'[d] = state[d]
                                /\ events'[d] = events[d] /\ index'[d] = index[d]
  <2>1. told'[c] = 1 /\ \A d \in Conns \ {c} : told'[d] = told[d]
    BY <1>1, <1>2
  <2>2. state'[c] = "kConnected" /\ \A d \in Conns \ {c} : state'[d] = state[d]
    BY <1>1, <1>2
  <2>3. QED
    BY <1>1, <1>3, <2>1, <2>2
<1>5. Others(c) /\ ~Gone(c)
  BY <1>4 DEF Others, Gone
<1>6. Staged(c)'
  <2>1. Open(c)'
    BY <1>1, <1>4 DEF Open, SettingUp, isWriting
  <2>2. QED
    BY <1>1, <1>4, <2>1 DEF Staged
<1>7. Stages' /\ QueueSound' /\ DescriptorsApart'
  <2>1. \A n \in {} : n[2].conn = c
    OBVIOUS
  <2>2. \A k \in Loops : \A r \in Todo(k)' : r.conn = c => Sound(k, r)'
    OBVIOUS
  <2>3. QED
    BY <1>5, <1>6, <2>1, <2>2, ConnectionStep
<1>8. InOrder'
  BY DEF IInv, InOrder
<1>9. QED
  BY <1>3, <1>4, <1>7, <1>8

LEMMA EstablishNowKeeps ==
  ASSUME IInv, TypeOK', NEW c \in Conns, EstablishNow(c)
  PROVE  IInv'
<1>1. /\ Base \in Loops /\ handling[Base] = c /\ state[c] = "kConnecting" /\ ConnectEstablished(Base, c)
      /\ handling' = [handling EXCEPT ![Base] = NoConn] /\ inUser' = [inUser EXCEPT ![Base] = c]
      /\ UNCHANGED <<fd, server, data, queues, active, users, messages, peerClosed, fin>>
      /\ c # NoConn /\ Attends(Base)
  BY Sizes DEF EstablishNow, ConnectEstablished, IInv, LoopSound
<1>2. c \in Made /\ loopOf[c] = Base /\ told[c] \in {0, 1}
  BY <1>1 DEF Attends
<1>3. told[c] = 0
  BY <1>1, <1>2 DEF IInv, Stages, Staged, Open
<1>4. \A k \in Loops : Todo(k)' = Todo(k)
  BY <1>1 DEF Todo, Unrun
<1>5. /\ Stages' /\ QueueSound' /\ DescriptorsApart' /\ Polled' /\ InOrder'
      /\ told'[c] = 1 /\ \A d \in Conns \ {c} : told'[d] = told[d]
  <2>1. Moved({}, {})
    BY <1>1, QueuesKept DEF IInv
  <2>2. \A k \in Loops : \A r \in Todo(k)' : r.conn # c
    BY <1>2, <1>3, <1>4, OnlyEstablish
  <2>3. \A g \in {} : g[2].conn = c
    OBVIOUS
  <2>4. QED
    BY <1>1, <1>2, <1>3, <2>1, <2>2, <2>3, EstablishStep
<1>6. /\ handling'[Base] = NoConn /\ inUser'[Base] = c
      /\ \A k \in Loops \ {Base} : handling'[k] = handling[k] /\ inUser'[k] = inUser[k]
  BY <1>1 DEF IInv, TypeOK
<1>7. Attends(Base)'
  <2>1. Made' = Made /\ c \notin active[Base] /\ at[Base] = "events"
    BY <1>1, <1>3 DEF Made, Attends
  <2>2. UNCHANGED <<at, functions, pos, active, loopOf>>
    BY <1>1
  <2>3. \A d \in active'[Base] \cap Conns : loopOf'[d] = Base /\ told'[d] = 1 /\ handling'[Base] # d
    BY <1>1, <1>5, <1>6, <2>1, <2>2, Sizes DEF Attends
  <2>4. inUser'[Base] \in Made' /\ loopOf'[inUser'[Base]] = Base /\ told'[inUser'[Base]] # 0
    BY <1>2, <1>5, <1>6, <2>1, <2>2
  <2>5. QED
    BY <1>1, <1>6, <2>1, <2>2, <2>3, <2>4 DEF Attends
<1>8. LoopSound'
  BY <1>1, <1>2, <1>5, <1>6, <1>7, LoopStepSound
<1>9. MessagesNumbered' /\ HeldSound'
  BY <1>1, <1>3, <1>5, UsersKept
<1>10. QED
  BY <1>5, <1>8, <1>9 DEF IInv

LEMMA RunEstablishedKeeps ==
  ASSUME IInv, TypeOK', NEW l \in Loops, NEW c \in Conns, RunEstablished(l, c)
  PROVE  IInv'
<1>1. /\ Run(l, "connectEstablished", c) /\ ConnectEstablished(l, c)
      /\ UNCHANGED <<connections, data, pending, fin>>
      /\ inUser' = [inUser EXCEPT ![l] = c]
  BY DEF RunEstablished, ConnectEstablished
<1>2. /\ c \in Made /\ loopOf[c] = l /\ told[c] = 0 /\ Now(l).conn = c /\ Now(l).run = "connectEstablished"
      /\ "connectEstablished" \in Moves
  BY <1>1, RunStep DEF Sound, Moves
<1>3. Moved({<<l, Now(l)>>}, {})
  BY <1>1, RunStep, FunctorRuns DEF IInv
<1>4. /\ Stages' /\ QueueSound' /\ DescriptorsApart' /\ Polled' /\ InOrder'
      /\ told'[c] = 1 /\ \A d \in Conns \ {c} : told'[d] = told[d]
  <2>1. ASSUME NEW k \in Loops, NEW r \in Todo(k)' PROVE r.conn # c
    <3>1. r \in Todo(k) /\ (k = l => ~Same(r, Now(l)))
      BY <1>2, <1>3 DEF Moved
    <3>2. QED
      BY <1>2, <3>1, OnlyEstablish DEF Same
  <2>2. \A g \in {<<l, Now(l)>>} : g[2].conn = c
    BY <1>2
  <2>3. UNCHANGED <<fd, loopOf, nextConnId>>
    BY <1>1, RunStep
  <2>4. QED
    BY <1>1, <1>2, <1>3, <2>1, <2>2, <2>3, EstablishStep
<1>5. inUser'[l] = c /\ \A k \in Loops \ {l} : inUser'[k] = inUser[k]
  BY <1>1 DEF IInv, TypeOK
<1>6. Attends(l)'
  BY <1>1, <1>2, <1>4, <1>5, RunStep DEF Attends
<1>7. LoopSound'
  BY <1>1, <1>2, <1>4, <1>5, <1>6, RunStep, LoopStepSound
<1>8. MessagesNumbered' /\ HeldSound'
  BY <1>1, <1>2, <1>4, RunStep, UsersKept
<1>9. QED
  BY <1>4, <1>7, <1>8 DEF IInv

\* Functors of a connection whose stage they do not change.
LEMMA CommonFunctors ==
  ASSUME IInv, NEW c \in Made, told'[c] = 2, state'[c] = "kDisConnected", loopOf' = loopOf, nextConnId' = nextConnId,
         NEW k \in Loops, NEW r \in Todo(k), r.conn = c, r.run \notin Moves
  PROVE  Sound(k, r)'
<1>1. Sound(k, r) /\ Made' = Made
  BY DEF IInv, QueueSound, Made
<1>2. QED
  BY <1>1 DEF Sound, Moves

\* connectDestroyed is queued when the connection has been forgotten.
LEMMA DestroyerSound ==
  ASSUME IInv, NEW c \in Made
  PROVE  LET r == Functor("connectDestroyed", c, 0)
         IN /\ r \in Functors /\ r.conn = c /\ r.run = "connectDestroyed" /\ r.run \in Moves
            /\ told'[c] = 2 /\ c \notin connections' /\ index'[c] = "kDeleted" /\ loopOf' = loopOf
                 /\ nextConnId' = nextConnId => Sound(loopOf[c], r)'
<1> DEFINE r == Functor("connectDestroyed", c, 0)
<1>1. r \in Functors
  BY FunctorsTyped, MadeIsMade DEF Owning, IInv
<1>2. r.conn = c /\ r.run = "connectDestroyed" /\ r.run \in Moves /\ r.message = 0
  BY DEF Functor, Moves
<1> HIDE DEF r
<1>3. ASSUME told'[c] = 2, c \notin connections', index'[c] = "kDeleted", loopOf' = loopOf, nextConnId' = nextConnId
      PROVE  Sound(loopOf[c], Functor("connectDestroyed", c, 0))'
  <2>1. c \in Made' /\ loopOf'[c] = loopOf[c]
    BY <1>3 DEF Made
  <2>2. QED
    BY <1>3, <2>1 DEF Sound, Functor, Moves
<1>4. QED
  BY <1>1, <1>2, <1>3 DEF r

LEMMA HandleEofKeeps ==
  ASSUME IInv, TypeOK', NEW l \in Loops, NEW c \in Conns, HandleEof(l, c)
  PROVE  IInv'
<1>1. /\ ReadDone(l, c) /\ state' = [state EXCEPT ![c] = "kDisConnected"] /\ UpdateChannel(l, c, {})
      /\ told' = [told EXCEPT ![c] = @ + 1] /\ RemoveConnection(l, c) /\ UNCHANGED inUser
      /\ inUser[l] = NoConn
  BY DEF HandleEof, HandleClose, ReadDone, Runs
<1>2. /\ c \in Made /\ loopOf[c] = l /\ told[c] = 1 /\ at[l] = "events" /\ at' = at /\ Attends(l)
      /\ UNCHANGED <<users, functions, pos, active, data, fin, fd, nextConnId, loopOf>>
      /\ c \notin active[l]
      /\ handling'[l] = NoConn /\ \A k \in Loops \ {l} : handling'[k] = handling[k]
  BY <1>1, ReaderStep
<1>3. Made' = Made /\ Open(c) /\ Base \in Loops
  BY <1>2, Sizes DEF Made, IInv, Stages, Staged
<1>4. Polled' /\ index' = [index EXCEPT ![c] = "kDeleted"] /\ events' = [events EXCEPT ![c] = {}]
  <2>1. /\ Polled'
        /\ index' = [index EXCEPT ![c] = IF {} = {} THEN "kDeleted" ELSE "kAdded"]
        /\ events' = [events EXCEPT ![c] = {}]
    BY <1>1, <1>2, UpdateAgrees
  <2>2. QED
    BY <2>1
<1>5. /\ told'[c] = 2 /\ state'[c] = "kDisConnected" /\ index'[c] = "kDeleted" /\ events'[c] = {}
      /\ \A d \in Conns \ {c} : /\ told'[d] = told[d] /\ state'[d] = state[d]
                                /\ index'[d] = index[d] /\ events'[d] = events[d]
  <2>1. told \in [Conns -> Nat] /\ state \in [Conns -> {"none", "kConnecting", "kConnected", "kDisConnecting", "kDisConnected"}]
        /\ events \in [Conns -> SUBSET {"in", "out"}] /\ index \in [Conns -> {"kNew", "kAdded", "kDeleted"}]
    BY DEF IInv, TypeOK
  <2>2. told'[c] = 2 /\ \A d \in Conns \ {c} : told'[d] = told[d]
    BY <1>1, <1>2, <2>1
  <2>3. state'[c] = "kDisConnected" /\ \A d \in Conns \ {c} : state'[d] = state[d]
    BY <1>1, <2>1
  <2>4. QED
    BY <1>4, <2>1, <2>2, <2>3
<1>6. \A k \in Loops : \A r \in Todo(k) : r.conn = c => r.run \notin Moves
  BY <1>2 DEF IInv, QueueSound, Sound, Moves
<1>7. \A d \in Conns : d # c => (d \in connections' <=> d \in connections)
  BY <1>1 DEF RemoveConnection, RemoveConnectionInLoop
<1>8. Others(c) /\ ~Gone(c)
  BY <1>2, <1>5, <1>7 DEF Others, Gone
<1>9. ASSUME l = Base PROVE Stages' /\ QueueSound' /\ DescriptorsApart'
  <2>1. PICK r \in Functors : r = Functor("connectDestroyed", c, 0)
    BY <1>2, DestroyerSound
  <2>2. QueueInLoop(l, r) /\ c \notin connections'
    BY <1>1, <1>2, <1>9, <2>1 DEF RemoveConnection, RemoveConnectionInLoop
  <2>3. Moved({}, {<<l, r>>}) /\ r.conn = c
    <3>1. r.conn = c
      BY <2>1 DEF Functor
    <3>2. Fresh(l, r)
      BY <1>6, <3>1 DEF Fresh, Same
    <3>3. QED
      BY <1>2, <2>2, <3>1, <3>2, QueueGrows DEF IInv
  <2>4. Sound(loopOf[c], Functor("connectDestroyed", c, 0))'
    BY <1>2, <1>5, <2>2, DestroyerSound
  <2>5. ASSUME NEW k \in Loops, NEW x \in Todo(k)', x.conn = c PROVE Sound(k, x)'
    <3>1. CASE k = l /\ x = r
      BY <1>2, <2>1, <2>4, <3>1
    <3>2. CASE x \in Todo(k)
      BY <1>2, <1>5, <1>6, <2>5, <3>2, CommonFunctors
    <3>3. QED
      BY <2>3, <3>1, <3>2 DEF Moved
  <2>6. Staged(c)'
    <3>1. Functor("connectDestroyed", c, 0) \in Todo(loopOf[c])'
      BY <1>2, <2>1, <2>3 DEF Moved
    <3>2. Finished(c)'
      BY <1>2, <1>5, <2>2, <3>1 DEF Finished
    <3>3. fd[c] \in Fds
      BY <1>2 DEF IInv, Stages, Staged
    <3>4. QED
      BY <1>2, <1>3, <1>5, <3>2, <3>3 DEF Staged
  <2>7. \A n \in {<<l, r>>} : n[2].conn = c
    BY <2>3
  <2>8. \A g \in {} : g[2].conn = c
    OBVIOUS
  <2>9. QED
    BY <1>2, <1>8, <2>3, <2>5, <2>6, <2>7, <2>8, ConnectionStep
<1>10. ASSUME l # Base PROVE Stages' /\ QueueSound' /\ DescriptorsApart'
  <2>1. PICK r \in Functors : r = Functor("removeConnectionInLoop", c, 0)
    BY FunctorsTyped DEF Owning
  <2>2. QueueInLoop(Base, r) /\ connections' = connections /\ c \in connections
    BY <1>1, <1>3, <1>10, <2>1 DEF RemoveConnection, Open
  <2>3. Moved({}, {<<Base, r>>}) /\ r.conn = c /\ r.run = "removeConnectionInLoop" /\ r.message = 0
    <3>1. r.conn = c /\ r.run = "removeConnectionInLoop" /\ r.message = 0
      BY <2>1 DEF Functor
    <3>2. Fresh(Base, r)
      BY <1>3, <1>6, <3>1 DEF Fresh, Same
    <3>3. QED
      BY <1>2, <1>3, <2>2, <3>1, <3>2, QueueGrows DEF IInv
  <2>4. PICK b \in Loops : b = Base
    BY <1>3
  <2>5. Sound(b, r)'
    BY <1>2, <1>3, <1>5, <2>2, <2>3, <2>4 DEF Sound, Moves
  <2>6. ASSUME NEW k \in Loops, NEW x \in Todo(k)', x.conn = c PROVE Sound(k, x)'
    <3>1. CASE k = b /\ x = r
      BY <2>5, <3>1
    <3>2. CASE x \in Todo(k)
      BY <1>2, <1>5, <1>6, <2>6, <3>2, CommonFunctors
    <3>3. QED
      BY <2>3, <2>4, <3>1, <3>2 DEF Moved
  <2>7. Staged(c)'
    <3>1. Finished(c)'
      BY <1>5, <2>2 DEF Finished
    <3>2. fd[c] \in Fds
      BY <1>2 DEF IInv, Stages, Staged
    <3>3. QED
      BY <1>2, <1>3, <1>5, <3>1, <3>2 DEF Staged
  <2>8. \A n \in {<<Base, r>>} : n[2].conn = c
    BY <2>3
  <2>9. \A g \in {} : g[2].conn = c
    OBVIOUS
  <2>10. QED
    BY <1>2, <1>8, <2>3, <2>6, <2>7, <2>8, <2>9, ConnectionStep
<1>11. Attends(l)'
  BY <1>1, <1>2, <1>3, <1>5, <1>7, Sizes DEF Attends
<1>12. LoopSound'
  BY <1>1, <1>2, <1>5, <1>11, LoopStepSound
<1>13. MessagesNumbered' /\ HeldSound'
  BY <1>2, <1>5, UsersKept
<1>14. InOrder'
  BY <1>2 DEF IInv, InOrder
<1>15. QED
  BY <1>4, <1>9, <1>10, <1>12, <1>13, <1>14 DEF IInv

LEMMA RunRemoveKeeps ==
  ASSUME IInv, TypeOK', NEW l \in Loops, NEW c \in Conns, RunRemove(l, c)
  PROVE  IInv'
<1>1. /\ Run(l, "removeConnectionInLoop", c) /\ connections' = connections \ {c}
      /\ QueueInLoop(loopOf[c], Functor("connectDestroyed", c, 0))
      /\ UNCHANGED <<pollers, state, data, inUser, fin, told>>
  BY DEF RunRemove, RemoveConnectionInLoop
<1>2. /\ c \in Made /\ Now(l).conn = c /\ Now(l).run = "removeConnectionInLoop" /\ Now(l) \in Todo(l)
      /\ l = Base /\ told[c] = 2 /\ c \in connections
      /\ UNCHANGED <<functions, fd, loopOf, nextConnId, users, at, where>> /\ Made' = Made
  BY <1>1, RunStep DEF Sound, Moves
<1>3. Finished(c) /\ index[c] = "kDeleted" /\ state[c] = "kDisConnected" /\ fd[c] \in Fds
  BY <1>2 DEF IInv, Stages, Staged, Finished
<1>4. \A k \in Loops : \A r \in Todo(k) :
        r.conn = c /\ r.run \in Moves => k = l /\ r.run = "removeConnectionInLoop"
  BY <1>2 DEF IInv, QueueSound, Sound, Moves
<1>5. PICK r \in Functors : r = Functor("connectDestroyed", c, 0)
  BY <1>2, DestroyerSound
<1>6. PICK k \in Loops : k = loopOf[c]
  BY DEF IInv, TypeOK
<1>7. r.conn = c /\ r.run = "connectDestroyed"
  BY <1>5 DEF Functor
<1>8. Moved({<<l, Now(l)>>}, {<<k, r>>})
  <2>1. Fresh(k, r)
    BY <1>4, <1>7 DEF Fresh, Same
  <2>2. QueueInLoop(k, r)
    BY <1>1, <1>5, <1>6
  <2>3. pos[l] <= Len(functions[l]) /\ pos' = [pos EXCEPT ![l] = @ + 1] /\ UNCHANGED functions
    BY <1>1, RunStep
  <2>4. QED
    BY <2>1, <2>2, <2>3, FunctorRunsAndQueues DEF IInv
<1>9. UNCHANGED <<told, state, index, events, output, fin>> /\ c \notin connections'
  BY <1>1
<1>10. Sound(k, r)'
  BY <1>2, <1>3, <1>5, <1>6, <1>9, DestroyerSound
<1>11. ASSUME NEW m \in Loops, NEW x \in Todo(m)', x.conn = c PROVE Sound(m, x)'
  <2>1. CASE m = k /\ x = r
    BY <1>10, <2>1
  <2>2. ASSUME x \in Todo(m), m = l => ~Same(x, Now(l)) PROVE Sound(m, x)'
    <3>1. x.run \notin Moves
      BY <1>2, <1>4, <1>11, <2>2 DEF Same
    <3>2. QED
      BY <1>2, <1>3, <1>9, <1>11, <2>2, <3>1, CommonFunctors
  <2>3. Now(l).run \in Moves
    BY <1>2 DEF Moves
  <2>4. QED
    BY <1>8, <2>1, <2>2, <2>3 DEF Moved
<1>12. Staged(c)'
  <2>1. Functor("connectDestroyed", c, 0) \in Todo(loopOf[c])'
    BY <1>2, <1>5, <1>6, <1>8 DEF Moved
  <2>2. Finished(c)'
    BY <1>2, <1>3, <1>9, <2>1 DEF Finished
  <2>3. QED
    BY <1>2, <1>3, <1>9, <2>2 DEF Staged
<1>13. Stages' /\ QueueSound' /\ DescriptorsApart'
  <2>1. \A n \in {<<k, r>>} : n[2].conn = c
    BY <1>7
  <2>2. \A g \in {<<l, Now(l)>>} : g[2].conn = c
    BY <1>2
  <2>3. Others(c)
    BY <1>1, <1>9 DEF Others
  <2>4. ~Gone(c)
    BY <1>2 DEF Gone
  <2>5. QED
    BY <1>2, <1>8, <1>11, <1>12, <2>1, <2>2, <2>3, <2>4, ConnectionStep
<1>14. Polled' /\ InOrder'
  <2>1. UNCHANGED <<events, index, channels, epoll, refused, fd, loopOf>> /\ Made' = Made
    BY <1>1, <1>2
  <2>2. Polled'
    BY <2>1 DEF IInv, Polled
  <2>3. InOrder'
    BY <1>1 DEF IInv, InOrder
  <2>4. QED
    BY <2>2, <2>3
<1>15. Attends(l)'
  BY <1>1, <1>2, RunStep DEF Attends
<1>16. LoopSound'
  BY <1>1, <1>15, RunStep, LoopStepSound
<1>17. MessagesNumbered' /\ HeldSound'
  BY <1>1, <1>2, UsersKept
<1>18. QED
  BY <1>13, <1>14, <1>16, <1>17 DEF IInv

LEMMA RunDestroyedKeeps ==
  ASSUME IInv, TypeOK', NEW l \in Loops, NEW c \in Conns, RunDestroyed(l, c)
  PROVE  IInv'
<1>0. state[c] # "kConnected"
  <2>1. Sound(l, Now(l)) /\ Now(l).run = "connectDestroyed" /\ Now(l).conn = c
    BY TurnTyped DEF RunDestroyed, Run
  <2>2. QED
    BY <2>1 DEF Sound, IInv, Stages, Staged, Finished
<1>1. /\ Run(l, "connectDestroyed", c) /\ RemoveChannel(l, c)
      /\ UNCHANGED <<state, told, connections, data, pending, inUser, fin>>
  BY <1>0 DEF RunDestroyed
<1>2. /\ c \in Made /\ Now(l).conn = c /\ Now(l).run = "connectDestroyed" /\ Now(l).run \in Moves
      /\ l = loopOf[c] /\ told[c] = 2 /\ c \notin connections /\ index[c] = "kDeleted"
      /\ UNCHANGED <<functions, fd, loopOf, nextConnId, users, at, where>> /\ Made' = Made
  BY <1>1, RunStep DEF Sound, Moves
<1>3. Finished(c) /\ state[c] = "kDisConnected" /\ events[c] = {} /\ fd[c] \in Fds
  BY <1>2 DEF IInv, Stages, Staged, Finished
<1>4. UNCHANGED <<state, told>>
  BY <1>1, <1>3
<1>5. Polled' /\ index' = [index EXCEPT ![c] = "kNew"] /\ UNCHANGED events
  BY <1>1, <1>2, RemoveAgrees
<1>6. index'[c] = "kNew" /\ \A d \in Conns \ {c} : index'[d] = index[d]
  BY <1>5 DEF IInv, TypeOK
<1>7. \A k \in Loops : \A r \in Todo(k) :
        r.conn = c /\ r.run \in Moves => k = l /\ r.run = "connectDestroyed"
  BY <1>2 DEF IInv, QueueSound, Sound, Moves
<1>8. Moved({<<l, Now(l)>>}, {})
  BY <1>1, RunStep, FunctorRuns DEF IInv
<1>9. ASSUME NEW m \in Loops, NEW x \in Todo(m)', x.conn = c PROVE Sound(m, x)'
  <2>1. x \in Todo(m) /\ (m = l => ~Same(x, Now(l)))
    BY <1>2, <1>8 DEF Moved
  <2>2. x.run \notin Moves
    BY <1>2, <1>7, <1>9, <2>1 DEF Same
  <2>3. QED
    BY <1>2, <1>3, <1>4, <1>9, <2>1, <2>2, CommonFunctors
<1>10. Staged(c)'
  <2>1. Finished(c)'
    BY <1>1, <1>2, <1>3, <1>4, <1>5, <1>6 DEF Finished
  <2>2. QED
    BY <1>2, <1>3, <1>4, <2>1 DEF Staged
<1>11. Stages' /\ QueueSound' /\ DescriptorsApart'
  <2>1. \A n \in {} : n[2].conn = c
    OBVIOUS
  <2>2. \A g \in {<<l, Now(l)>>} : g[2].conn = c
    BY <1>2
  <2>3. Others(c)
    BY <1>1, <1>4, <1>5, <1>6 DEF Others
  <2>4. ~Gone(c)
    BY <1>2 DEF Gone
  <2>5. QED
    BY <1>2, <1>8, <1>9, <1>10, <2>1, <2>2, <2>3, <2>4, ConnectionStep
<1>12. InOrder'
  BY <1>1 DEF IInv, InOrder
<1>13. Attends(l)'
  BY <1>1, <1>2, <1>4, RunStep DEF Attends
<1>14. LoopSound'
  BY <1>1, <1>4, <1>13, RunStep, LoopStepSound
<1>15. MessagesNumbered' /\ HeldSound'
  BY <1>2, <1>4, UsersKept
<1>16. QED
  BY <1>5, <1>11, <1>12, <1>14, <1>15 DEF IInv

\* What a loop has to run is in one of its lists.
LEMMA RestMembers ==
  ASSUME NEW s \in Seq(Functors), NEW p \in 1..(Len(s) + 1), NEW t \in Seq(Functors)
  PROVE  Elements(SubSeq(s, p, Len(s)) \o t) = {s[i] : i \in p..Len(s)} \cup Elements(t)
<1> DEFINE h == SubSeq(s, p, Len(s))
           v == h \o t
<1>1. Len(s) \in Nat /\ Len(t) \in Nat
  OBVIOUS
<1>2. h \in Seq(Functors) /\ Len(h) = Len(s) - p + 1 /\ \A i \in 1..Len(h) : h[i] = s[p + i - 1]
  <2>1. \A i \in p..Len(s) : s[i] \in Functors
    BY <1>1
  <2>2. /\ h \in Seq(Functors)
        /\ Len(h) = IF p <= Len(s) THEN Len(s) - p + 1 ELSE 0
        /\ \A i \in 1..(Len(s) - p + 1) : h[i] = s[p + i - 1]
    BY <1>1, <2>1, SubSeqProperties
  <2> HIDE DEF h
  <2>3. Len(h) = Len(s) - p + 1
    BY <1>1, <2>2
  <2>4. QED
    BY <2>2, <2>3
<1> HIDE DEF h
<1>3. /\ Len(v) = Len(h) + Len(t) /\ Len(h) \in Nat
      /\ \A j \in 1..(Len(h) + Len(t)) : v[j] = IF j <= Len(h) THEN h[j] ELSE t[j - Len(h)]
  <2>1. Len(h) \in Nat
    BY <1>2
  <2>2. QED
    BY <1>2, <2>1, ConcatProperties
<1> HIDE DEF v
<1>4. ASSUME NEW i \in p..Len(s) PROVE s[i] \in Elements(v)
  <2>1. PICK j \in 1..Len(h) : p + j - 1 = i
    <3>1. i - p + 1 \in 1..Len(h) /\ p + (i - p + 1) - 1 = i
      BY <1>1, <1>2
    <3>2. QED
      BY <3>1
  <2>2. h[j] = s[i]
    BY <1>2, <2>1
  <2>3. j \in 1..Len(v) /\ v[j] = s[i]
    BY <1>1, <1>3, <2>2
  <2>4. QED
    BY <2>3 DEF Elements
<1>5. ASSUME NEW i \in 1..Len(t) PROVE t[i] \in Elements(v)
  <2>1. PICK j \in 1..(Len(h) + Len(t)) : ~(j <= Len(h)) /\ j - Len(h) = i
    <3>1. Len(h) + i \in 1..(Len(h) + Len(t)) /\ ~(Len(h) + i <= Len(h)) /\ Len(h) + i - Len(h) = i
      BY <1>1, <1>3
    <3>2. QED
      BY <3>1
  <2>2. j \in 1..Len(v) /\ v[j] = t[i]
    BY <1>3, <2>1
  <2>3. QED
    BY <2>2 DEF Elements
<1>6. ASSUME NEW j \in 1..Len(v) PROVE v[j] \in {s[i] : i \in p..Len(s)} \cup Elements(t)
  <2>1. CASE j <= Len(h)
    <3>1. j \in 1..Len(h) /\ v[j] = h[j]
      BY <1>1, <1>3, <2>1
    <3>2. v[j] = s[p + j - 1]
      BY <1>2, <3>1
    <3>3. p + j - 1 \in p..Len(s)
      BY <1>1, <1>2, <3>1
    <3>4. QED
      BY <3>2, <3>3
  <2>2. CASE ~(j <= Len(h))
    <3>1. j - Len(h) \in 1..Len(t) /\ v[j] = t[j - Len(h)]
      BY <1>1, <1>3, <2>2
    <3>2. QED
      BY <3>1 DEF Elements
  <2>3. QED
    BY <2>1, <2>2
<1>7. Elements(v) = {s[i] : i \in p..Len(s)} \cup Elements(t)
  <2>1. Elements(v) \subseteq {s[i] : i \in p..Len(s)} \cup Elements(t)
    BY <1>6 DEF Elements
  <2>2. Elements(t) \subseteq Elements(v)
    BY <1>5 DEF Elements
  <2>3. {s[i] : i \in p..Len(s)} \subseteq Elements(v)
    BY <1>4
  <2>4. QED
    BY <2>1, <2>2, <2>3
<1>8. QED
  BY <1>7 DEF v, h

Ahead(l) == {functions[l][i] : i \in pos[l]..Len(functions[l])}

LEMMA TodoMembers ==
  ASSUME NEW l \in Loops
  PROVE  /\ TypeOK => Todo(l) = Ahead(l) \cup Elements(pending[l])
         /\ TypeOK' => Todo(l)' = Ahead(l)' \cup Elements(pending'[l])
<1>1. ASSUME TypeOK PROVE Todo(l) = Ahead(l) \cup Elements(pending[l])
  <2>1. pending[l] \in Seq(Functors) /\ functions[l] \in Seq(Functors) /\ pos[l] \in 1..(Len(functions[l]) + 1)
    BY <1>1 DEF TypeOK
  <2>2. QED
    BY <2>1, RestMembers DEF Todo, Unrun, Ahead
<1>2. ASSUME TypeOK' PROVE Todo(l)' = Ahead(l)' \cup Elements(pending'[l])
  <2>1. pending'[l] \in Seq(Functors) /\ functions'[l] \in Seq(Functors) /\ pos'[l] \in 1..(Len(functions'[l]) + 1)
    BY <1>2 DEF TypeOK
  <2>2. QED
    BY <2>1, RestMembers DEF Todo, Unrun, Ahead
<1>3. QED
  BY <1>1, <1>2

LEMMA TodoIsListed ==
  ASSUME TypeOK, NEW l \in Loops, NEW x \in Todo(l)
  PROVE  In(x, pending[l]) \/ In(x, functions[l])
<1>1. x \in Ahead(l) \/ x \in Elements(pending[l])
  BY TodoMembers
<1>2. \A i \in pos[l]..Len(functions[l]) : i \in 1..Len(functions[l])
  BY LenProperties DEF TypeOK
<1>3. QED
  BY <1>1, <1>2 DEF Ahead, Elements, In

\* A connection that has been made stays until its channel is off the poller.
LEMMA AliveOrGone == ASSUME IInv, NEW c \in Made PROVE Alive(c) \/ Gone(c)
<1>1. Staged(c) /\ state[c] # "none" /\ told[c] \in 0..2 /\ loopOf[c] \in Loops
  BY MadeIsMade DEF IInv, TypeOK, Stages, Staged
<1>2. CASE c \in connections
  BY <1>1, <1>2 DEF Alive
<1>3. CASE c \notin connections
  <2>1. told[c] = 2 /\ Finished(c)
    BY <1>1, <1>3 DEF Staged, SettingUp, Open
  <2>2. CASE index[c] = "kNew"
    BY <1>3, <2>1, <2>2 DEF Gone
  <2>3. CASE index[c] = "kDeleted"
    <3>1. Functor("connectDestroyed", c, 0) \in Todo(loopOf[c])
      BY <1>3, <2>1, <2>3 DEF Finished
    <3>2. OwnedByFunctor(c)
      BY <1>1, <3>1, TodoIsListed DEF OwnedByFunctor, Owning, IInv
    <3>3. QED
      BY <1>1, <3>2 DEF Alive
  <2>4. QED
    BY <2>1, <2>2, <2>3 DEF Finished
<1>4. QED
  BY <1>2, <1>3

\* getNextLoop returns a loop that runs.
LEMMA NextLoopTyped == ASSUME TypeOK PROVE (IF numThreads = 0 THEN Base ELSE next) \in Loops
<1>1. Base \in Loops /\ numThreads \in Loops /\ next \in 1..(IF numThreads = 0 THEN 1 ELSE numThreads)
  BY Sizes DEF TypeOK
<1>2. numThreads # 0 => next \in Loops
  BY <1>1, Sizes
<1>3. QED
  BY <1>1, <1>2

LEMMA NewConnectionKeeps ==
  ASSUME IInv, TypeOK', NEW f \in Fds, NewConnection(f)
  PROVE  IInv'
<1>1. PICK c \in Conns : c = nextConnId
  BY DEF NewConnection
<1>2. PICK l \in Loops : l = IF numThreads = 0 THEN Base ELSE next
  BY NextLoopTyped DEF IInv
<1>3. /\ Accept /\ Closed(f) /\ nextConnId' = c + 1
      /\ active' = [active EXCEPT ![Base] = @ \ {Acceptor}]
      /\ fd' = [fd EXCEPT ![c] = f] /\ loopOf' = [loopOf EXCEPT ![c] = l]
      /\ state' = [state EXCEPT ![c] = "kConnecting"] /\ connections' = connections \cup {c}
      /\ IF l = Base
         THEN handling' = [handling EXCEPT ![Base] = c] /\ UNCHANGED pending
         ELSE QueueInLoop(l, Functor("connectEstablished", c, 0)) /\ UNCHANGED handling
      /\ UNCHANGED <<pollers, data, functions, pos, at, inUser, users, fin, told>>
  BY <1>1, <1>2 DEF NewConnection
<1>4. c \notin Made /\ Made' = Made \cup {c} /\ Made \subseteq Conns /\ Base \in Loops
  <2>1. c \notin Made /\ Made \subseteq Conns
    BY <1>1, MadeIsMade DEF IInv
  <2>2. Made' = Made \cup {c}
    BY <1>1, <1>3, Sizes DEF Made
  <2>3. QED
    BY <2>1, <2>2, Sizes
<1>5. Unmade(c) /\ SettingUp(c) /\ told[c] = 0
  BY <1>4 DEF IInv, Stages, Staged, Unmade
<1>6. /\ fd'[c] = f /\ loopOf'[c] = l /\ state'[c] = "kConnecting" /\ c \in connections'
      /\ \A d \in Conns \ {c} : /\ fd'[d] = fd[d] /\ loopOf'[d] = loopOf[d] /\ state'[d] = state[d]
                                /\ d \in connections' <=> d \in connections
  <2>1. /\ fd \in [Conns -> Fds \cup {0}] /\ loopOf \in [Conns -> Loops]
        /\ state \in [Conns -> {"none", "kConnecting", "kConnected", "kDisConnecting", "kDisConnected"}]
    BY DEF IInv, TypeOK
  <2>2. QED
    BY <1>3, <2>1
<1>7. \A k \in Loops : \A r \in Todo(k) : r.conn \in Made /\ r.conn # c
  BY <1>4 DEF IInv, QueueSound, Sound
<1>8. ASSUME NEW k \in Loops, NEW r \in Todo(k) PROVE Sound(k, r)'
  <2>1. Sound(k, r) /\ r.conn \in Conns \ {c}
    BY <1>4, <1>7 DEF IInv, QueueSound
  <2>2. QED
    BY <1>3, <1>4, <1>6, <2>1 DEF Sound
<1>9. QueueSound' /\ \A k \in Loops : \A r \in Todo(k) : r \in Todo(k)'
  <2>1. CASE l = Base
    <3>1. Moved({}, {})
      BY <1>3, <2>1, QueuesKept DEF IInv
    <3>2. QED
      BY <1>8, <3>1 DEF Moved, QueueSound
  <2>2. CASE l # Base
    <3>1. PICK r \in Functors : r = Functor("connectEstablished", c, 0)
      BY FunctorsTyped DEF Owning
    <3>2. r.conn = c /\ r.run = "connectEstablished" /\ r.message = 0
      BY <3>1 DEF Functor
    <3>3. Fresh(l, r)
      BY <1>7, <3>2 DEF Fresh, Same
    <3>4. Moved({}, {<<l, r>>})
      BY <1>3, <2>2, <3>1, <3>3, QueueGrows DEF IInv
    <3>5. Sound(l, r)'
      BY <1>3, <1>4, <1>5, <1>6, <2>2, <3>2 DEF Sound, Moves
    <3>6. QED
      BY <1>8, <3>4, <3>5 DEF Moved, QueueSound
  <2>3. QED
    BY <2>1, <2>2
<1>10. ASSUME NEW d \in Conns PROVE Staged(d)'
  <2>1. CASE d = c
    <3>1. SettingUp(c)'
      BY <1>3, <1>5, <1>6 DEF SettingUp
    <3>2. QED
      BY <1>3, <1>4, <1>5, <1>6, <2>1, <3>1 DEF Staged
  <2>2. CASE d # c
    <3>1. Staged(d) /\ loopOf[d] \in Loops
      BY DEF IInv, Stages, TypeOK
    <3>2. /\ fd'[d] = fd[d] /\ loopOf'[d] = loopOf[d] /\ state'[d] = state[d] /\ told'[d] = told[d]
          /\ d \in connections' <=> d \in connections
          /\ d \in Made' <=> d \in Made
          /\ UNCHANGED <<events, index, output, fin>>
      BY <1>3, <1>4, <1>6, <2>2
    <3>3. Functor("connectDestroyed", d, 0) \in Todo(loopOf[d]) => Functor("connectDestroyed", d, 0) \in Todo(loopOf[d])'
      <4>1. PICK k \in Loops : k = loopOf[d]
        BY <3>1
      <4>2. k = loopOf'[d]
        BY <3>2, <4>1
      <4>3. Functor("connectDestroyed", d, 0) \in Todo(k) => Functor("connectDestroyed", d, 0) \in Todo(k)'
        BY <1>9
      <4>4. QED
        BY <4>1, <4>2, <4>3
    <3>4. (SettingUp(d) => SettingUp(d)') /\ (Open(d) => Open(d)') /\ (Unmade(d) => Unmade(d)')
      BY <3>2 DEF SettingUp, Open, isWriting, Unmade
    <3>5. Finished(d) => Finished(d)'
      BY <3>2, <3>3 DEF Finished
    <3>6. QED
      BY <3>1, <3>2, <3>4, <3>5 DEF Staged
  <2>3. QED
    BY <2>1, <2>2
<1>11. DescriptorsApart'
  <2>1. ASSUME NEW d \in Made, fd[d] = f PROVE Gone(d)'
    <3>1. Gone(d)
      BY <1>3, <1>4, <2>1, AliveOrGone DEF Closed
    <3>2. QED
      BY <1>3, <1>4, <1>6, <3>1 DEF Gone
  <2>2. \A d \in Made : Gone(d) => Gone(d)'
    BY <1>3, <1>4, <1>6 DEF Gone
  <2>3. ASSUME NEW d \in Made', NEW e \in Made', fd'[d] = fd'[e] PROVE d = e \/ Gone(d)' \/ Gone(e)'
    <3>1. CASE d = c \/ e = c
      BY <1>4, <1>6, <2>1, <2>3, <3>1
    <3>2. CASE d # c /\ e # c
      BY <1>4, <1>6, <2>2, <2>3, <3>2 DEF IInv, DescriptorsApart
    <3>3. QED
      BY <3>1, <3>2
  <2>4. QED
    BY <2>3 DEF DescriptorsApart
<1>12. Polled'
  <2>1. UNCHANGED <<events, index, channels, epoll, refused>> /\ index[c] = "kNew" /\ Polled
    BY <1>3, <1>5 DEF SettingUp, IInv
  <2>2. \A d \in Made : fd'[d] = fd[d] /\ loopOf'[d] = loopOf[d]
    BY <1>4, <1>6
  <2>3. QED
    BY <1>4, <2>1, <2>2 DEF Polled
<1>13. InOrder'
  BY <1>3 DEF IInv, InOrder
<1>14. ASSUME NEW k \in Loops PROVE Attends(k)'
  <2>1. Attends(k) /\ handling[k] # c /\ inUser[k] # c /\ c \notin active[k] /\ c # NoConn
    BY <1>4, <1>5, Sizes DEF IInv, LoopSound, Attends
  <2>2. active'[k] \subseteq active[k] /\ inUser'[k] = inUser[k]
        /\ (handling'[k] = handling[k] \/ (k = Base /\ l = Base /\ handling'[k] = c /\ at[k] = "events"))
    <3>1. handling \in [Loops -> Conns \cup {NoConn}] /\ active \in [Loops -> SUBSET (Conns \cup {Acceptor})]
      BY DEF IInv, TypeOK
    <3>2. active'[k] \subseteq active[k] /\ inUser'[k] = inUser[k] /\ at[Base] = "events"
      BY <1>3, <3>1 DEF Accept
    <3>3. QED
      BY <1>3, <3>1, <3>2
  <2>3. /\ \A d \in Made : d \in Made' /\ loopOf'[d] = loopOf[d] /\ told'[d] = told[d]
        /\ \A d \in active[k] \cap Conns : d # c /\ loopOf'[d] = loopOf[d] /\ told'[d] = told[d]
        /\ UNCHANGED <<at, functions, pos>>
        /\ c \in Made' /\ loopOf'[c] = l /\ told'[c] = 0
    BY <1>3, <1>4, <1>5, <1>6, <2>1
  <2>4. handling'[k] # NoConn => /\ handling'[k] \in Made' /\ loopOf'[handling'[k]] = k
                                 /\ told'[handling'[k]] = 1 \/ (told'[handling'[k]] = 0 /\ k = Base)
    BY <2>1, <2>2, <2>3 DEF Attends
  <2>5. inUser'[k] # NoConn => inUser'[k] \in Made' /\ loopOf'[inUser'[k]] = k /\ told'[inUser'[k]] # 0
    BY <2>1, <2>2, <2>3 DEF Attends
  <2>6. \A d \in active'[k] \cap Conns : loopOf'[d] = k /\ told'[d] = 1 /\ handling'[k] # d
    BY <2>1, <2>2, <2>3 DEF Attends
  <2>7. /\ at'[k] # "functors" => functions'[k] = <<>> /\ pos'[k] = 1
        /\ at'[k] # "events" => active'[k] = {} /\ handling'[k] = NoConn
        /\ Acceptor \in active'[k] => k = Base
    BY <2>1, <2>2, <2>3 DEF Attends
  <2>8. QED
    BY <2>4, <2>5, <2>6, <2>7 DEF Attends
<1>15. MessagesNumbered' /\ HeldSound'
  BY <1>3, UsersKept
<1>16. QED
  BY <1>9, <1>10, <1>11, <1>12, <1>13, <1>14, <1>15 DEF IInv, Stages, LoopSound

-----------------------------------------------------------------------------
(* The invariant. *)

LEMMA LoopStepKeeps ==
  ASSUME IInv, TypeOK', NEW l \in Loops, LoopStep(l)
  PROVE  IInv'
<1>1. ASSUME NEW ready \in SUBSET (Watched(l) \cup IF l = Base THEN {Acceptor} ELSE {}), PollReturn(l, ready)
      PROVE  IInv'
  BY <1>1, PollKeeps
<1>2. ASSUME NEW c \in Conns, HandleNoWrite(l, c) PROVE IInv'
  BY <1>2, NoWriteKeeps
<1>3. ASSUME NEW c \in Conns, NEW n \in 1..Len(output[c]), HandleWrite(l, c, n) PROVE IInv'
  BY <1>3, HandleWriteKeeps
<1>4. ASSUME NEW c \in Conns, HandleMessage(l, c) \/ HandleNoRead(l, c) PROVE IInv'
  BY <1>4, ReadKeeps
<1>5. ASSUME NEW c \in Conns, HandleEof(l, c) PROVE IInv'
  BY <1>5, HandleEofKeeps
<1>6. ASSUME NEW c \in Conns, RunEstablished(l, c) PROVE IInv'
  BY <1>6, RunEstablishedKeeps
<1>7. ASSUME NEW c \in Conns, RunSend(l, c) PROVE IInv'
  BY <1>7, RunSendKeeps
<1>8. ASSUME NEW c \in Conns, RunShutdown(l, c) PROVE IInv'
  BY <1>8, RunShutdownKeeps
<1>9. ASSUME NEW c \in Conns, RunRemove(l, c) PROVE IInv'
  BY <1>9, RunRemoveKeeps
<1>10. ASSUME NEW c \in Conns, RunDestroyed(l, c) PROVE IInv'
  BY <1>10, RunDestroyedKeeps
<1>11. ASSUME NEW c \in Conns, RunCallback(l, c) PROVE IInv'
  BY <1>11, CallbackKeeps
<1>12. ASSUME NEW c \in Conns, CallbackReturn(l, c) PROVE IInv'
  BY <1>12, ReturnKeeps
<1>13. ASSUME AcceptFails PROVE IInv'
  BY <1>13, AcceptFailsKeeps
<1>14. ASSUME NEW f \in Fds, NewConnection(f) PROVE IInv'
  BY <1>14, NewConnectionKeeps
<1>15. ASSUME NEW c \in Conns, EstablishNow(c) PROVE IInv'
  BY <1>15, EstablishNowKeeps
<1>16. ASSUME Swap(l) \/ FunctorsDone(l) PROVE IInv'
  BY <1>16, BatchKeeps
<1>17. QED
  BY <1>1, <1>2, <1>3, <1>4, <1>5, <1>6, <1>7, <1>8, <1>9, <1>10, <1>11, <1>12, <1>13, <1>14, <1>15, <1>16
  DEF LoopStep

LEMMA UserStepKeeps == ASSUME IInv, StateSet, TypeOK', UserStep PROVE IInv'
<1>1. ASSUME NEW l \in Loops, NEW c \in Conns, CallbackSend(l, c) PROVE IInv'
  BY <1>1, CallbackSendKeeps
<1>2. ASSUME NEW l \in Loops, NEW c \in Conns, CallbackShutdown(l, c) PROVE IInv'
  BY <1>2, CallbackShutdownKeeps
<1>3. ASSUME NEW l \in Loops, NEW c \in Conns, NEW u \in Users, HandOut(l, c, u) PROVE IInv'
  BY <1>3, HandOutKeeps
<1>4. ASSUME NEW u \in Users, UserSetState(u) \/ UserQueue(u) PROVE IInv'
  BY <1>4, UserSetStateKeeps, UserQueueKeeps
<1>5. ASSUME NEW u \in Users, NEW c \in Conns, UserDrop(u, c) PROVE IInv'
  BY <1>5, OutsideKeeps
<1>6. ASSUME NEW u \in Users, NEW c \in Conns, NEW what \in {"sendInLoop", "shutdown"}, UserCall(u, c, what)
      PROVE  IInv'
  BY <1>6, UserCallKeeps
<1>7. QED
  BY <1>1, <1>2, <1>3, <1>4, <1>5, <1>6 DEF UserStep

LEMMA StepKeeps == IInv /\ StateSet /\ [Next]_vars => IInv'
<1> SUFFICES ASSUME IInv, StateSet, [Next]_vars PROVE IInv'
  OBVIOUS
<1>1. TypeOK'
  BY TypeStep
<1>2. CASE Start
  BY <1>1, <1>2, OutsideKeeps
<1>3. ASSUME NEW l \in Loops, LoopStep(l) PROVE IInv'
  BY <1>1, <1>3, LoopStepKeeps
<1>4. CASE UserStep
  BY <1>1, <1>4, UserStepKeeps
<1>5. ASSUME NEW c \in Conns, PeerClose(c) PROVE IInv'
  BY <1>1, <1>5, OutsideKeeps
<1>6. CASE UNCHANGED vars
  BY <1>1, <1>6, OutsideKeeps
<1>7. QED
  BY <1>2, <1>3, <1>4, <1>5, <1>6 DEF Next

LEMMA InitIInv == Init => IInv
<1> SUFFICES ASSUME Init PROVE IInv
  OBVIOUS
<1>1. Made = {} /\ 1 \in 1..(MaxConns + 1)
  BY Sizes DEF Init, Made
<1>2. <<>> \in Seq(Functors) /\ <<>> \in Seq(Octets) /\ Len(<<>>) = 0
  BY EmptySeq
<1>3. /\ pending = [l \in Loops |-> <<>>] /\ functions = [l \in Loops |-> <<>>] /\ pos = [l \in Loops |-> 1]
      /\ at = [l \in Loops |-> "poll"] /\ active = [l \in Loops |-> {}]
      /\ handling = [l \in Loops |-> NoConn] /\ inUser = [l \in Loops |-> NoConn]
  BY DEF Init
<1>4. /\ fd = [c \in Conns |-> 0] /\ events = [c \in Conns |-> {}] /\ index = [c \in Conns |-> "kNew"]
      /\ channels = [l \in Loops |-> [f \in Fds |-> NoChannel]]
      /\ epoll = [l \in Loops |-> [f \in Fds |-> NoEntry]] /\ refused = FALSE
  BY Sizes DEF Init, PollerInit
<1>5. TypeOK
  <2>1. /\ fd \in [Conns -> Fds \cup {0}]
        /\ events \in [Conns -> SUBSET {"in", "out"}]
        /\ index \in [Conns -> {"kNew", "kAdded", "kDeleted"}]
        /\ refused \in BOOLEAN
    BY <1>4
  <2>2. channels \in [Loops -> [Fds -> Conns \cup {NoConn}]]
    BY <1>4, Sizes
  <2>3. epoll \in [Loops -> [Fds -> [channel : Conns \cup {NoConn}, events : SUBSET {"in", "out"}]]]
    BY <1>4, Sizes DEF NoEntry
  <2>4. /\ listenning \in BOOLEAN /\ numThreads \in ThreadNums /\ nextConnId \in 1..(MaxConns + 1)
        /\ connections \subseteq Made /\ messages \in 0..MaxMessages
        /\ peerClosed \subseteq Made /\ fin \subseteq Made
    <3>1. listenning = FALSE /\ numThreads \in ThreadNums /\ nextConnId = 1 /\ connections = {}
          /\ messages = 0 /\ peerClosed = {} /\ fin = {}
      BY DEF Init
    <3>2. 0 \in 0..MaxMessages
      BY Sizes
    <3>3. QED
      BY <1>1, <3>1, <3>2
  <2>5. next \in 1..(IF numThreads = 0 THEN 1 ELSE numThreads)
    BY Sizes DEF Init
  <2>6. /\ loopOf \in [Conns -> Loops] /\ told \in [Conns -> Nat]
        /\ state \in [Conns -> {"none", "kConnecting", "kConnected", "kDisConnecting", "kDisConnected"}]
    BY Sizes DEF Init
  <2>7. output \in [Conns -> Seq(Octets)] /\ wire \in [Conns -> Seq(Octets)] /\ accepted \in [Conns -> Seq(Octets)]
    BY <1>2 DEF Init
  <2>8. /\ pending \in [Loops -> Seq(Functors)] /\ functions \in [Loops -> Seq(Functors)]
        /\ pos \in [Loops -> Nat] /\ \A l \in Loops : pos[l] \in 1..(Len(functions[l]) + 1)
    BY <1>2, <1>3
  <2>9. /\ at \in [Loops -> {"poll", "events", "functors"}]
        /\ active \in [Loops -> SUBSET (Conns \cup {Acceptor})]
        /\ handling \in [Loops -> Conns \cup {NoConn}] /\ inUser \in [Loops -> Conns \cup {NoConn}]
    BY <1>3
  <2>10. /\ call \in [Users -> {Idle} \cup Calls] /\ (\A u \in Users : call[u] = Idle)
         /\ holds \in [Users -> SUBSET Made]
    BY DEF Init
  <2>11. QED
    BY <2>1, <2>2, <2>3, <2>4, <2>5, <2>6, <2>7, <2>8, <2>9, <2>10 DEF TypeOK
<1>6. MessagesNumbered /\ HeldSound
  BY DEF Init, MessagesNumbered, HeldSound
<1>7. Stages
  BY <1>1, <1>4 DEF Init, Stages, Staged, Unmade, SettingUp
<1>8. QueueSound
  <2>1. \A l \in Loops : Unrun(l) = <<>>
    BY <1>3, RestNone, EmptySeq DEF Unrun
  <2>2. QED
    BY <1>2, <2>1 DEF QueueSound, Distinct, Todo, Elements
<1>9. LoopSound
  BY <1>3 DEF LoopSound, Attends
<1>10. DescriptorsApart /\ Polled
  BY <1>1, <1>4, Sizes DEF DescriptorsApart, Polled
<1>11. InOrder
  <2>1. \A c \in Conns : wire[c] = <<>> /\ output[c] = <<>> /\ accepted[c] = <<>>
    BY DEF Init
  <2>2. <<>> \o <<>> = <<>>
    BY <1>2, ConcatEmptySeq
  <2>3. QED
    BY <2>1, <2>2 DEF InOrder
<1>12. QED
  BY <1>5, <1>6, <1>7, <1>8, <1>9, <1>10, <1>11 DEF IInv

\* The invariant holds of the server.
\* What a connection that is made, or not yet, becomes does not undo the end of another.
LEMMA StaysDown ==
  ASSUME IInv, [Next]_vars, NEW c \in Conns, state[c] = "kDisConnected"
  PROVE  state'[c] = "kDisConnected"
<1>1. /\ state \in [Conns -> {"none", "kConnecting", "kConnected", "kDisConnecting", "kDisConnected"}]
      /\ told[c] # 0 /\ c \in Made
  BY DEF IInv, TypeOK, Stages, Staged, SettingUp, Unmade
<1>2. ASSUME NEW d \in Conns, state' = [state EXCEPT ![d] = "kDisConnected"] PROVE state'[c] = "kDisConnected"
  BY <1>1, <1>2
<1>3. ASSUME NEW l \in Loops, NEW d \in Conns, RunEstablished(l, d) PROVE state'[c] = "kDisConnected"
  <2>1. told[d] = 0
    BY <1>3, RunTyped DEF RunEstablished, Sound
  <2>2. state' = [state EXCEPT ![d] = "kConnected"]
    BY <1>3 DEF RunEstablished, ConnectEstablished
  <2>3. QED
    BY <1>1, <2>1, <2>2
<1>4. ASSUME NEW d \in Conns, EstablishNow(d) PROVE state'[c] = "kDisConnected"
  BY <1>1, <1>4 DEF EstablishNow, ConnectEstablished
<1>5. ASSUME NEW f \in Fds, NewConnection(f) PROVE state'[c] = "kDisConnected"
  <2>1. nextConnId \in Nat /\ nextConnId # c
    BY <1>1, Sizes DEF IInv, TypeOK, Made
  <2>2. state' = [state EXCEPT ![nextConnId] = "kConnecting"]
    BY <1>5 DEF NewConnection
  <2>3. QED
    BY <1>1, <2>1, <2>2
<1>6. ASSUME NEW l \in Loops, LoopStep(l) PROVE state'[c] = "kDisConnected"
  <2>1. ASSUME NEW d \in Conns, HandleEof(l, d) \/ RunDestroyed(l, d) PROVE state'[c] = "kDisConnected"
    BY <1>2, <2>1 DEF HandleEof, HandleClose, RunDestroyed
  <2>2. ASSUME NEW d \in Conns,
               \/ HandleNoWrite(l, d) \/ \E n \in 1..Len(output[d]) : HandleWrite(l, d, n)
               \/ HandleMessage(l, d) \/ HandleNoRead(l, d)
               \/ RunSend(l, d) \/ RunShutdown(l, d) \/ RunRemove(l, d) \/ RunCallback(l, d) \/ CallbackReturn(l, d)
        PROVE  UNCHANGED state
    BY <2>2 DEF HandleNoWrite, HandleWrite, HandleEvent, HandleMessage, HandleNoRead, RunSend, RunShutdown,
       RunRemove, RunCallback, CallbackReturn
  <2>3. ASSUME \/ \E ready \in SUBSET (Watched(l) \cup IF l = Base THEN {Acceptor} ELSE {}) : PollReturn(l, ready)
               \/ AcceptFails \/ Swap(l) \/ FunctorsDone(l)
        PROVE  UNCHANGED state
    BY <2>3 DEF PollReturn, AcceptFails, Swap, FunctorsDone
  <2>4. QED
    BY <1>3, <1>4, <1>5, <1>6, <2>1, <2>2, <2>3 DEF LoopStep
<1>7. ASSUME UserStep PROVE state'[c] = "kDisConnected"
  <2>1. ASSUME NEW l \in Loops, NEW d \in Conns, CallbackShutdown(l, d) PROVE state'[c] = "kDisConnected"
    BY <1>2, <2>1 DEF CallbackShutdown, ClosingState
  <2>2. ASSUME NEW u \in Users, UserSetState(u) PROVE state'[c] = "kDisConnected"
    BY <1>1, <2>2 DEF UserSetState, ClosingState
  <2>3. QED
    BY <1>7, <2>1, <2>2 DEF UserStep, CallbackSend, HandOut, UserQueue, UserDrop, UserCall
<1>8. Start \/ (\E d \in Conns : PeerClose(d)) \/ UNCHANGED vars => UNCHANGED state
  BY DEF Start, PeerClose, vars
<1>9. QED
  BY <1>6, <1>7, <1>8 DEF Next

\* Only a thread of the program changes the call it is in.
LEMMA CallMoves ==
  ASSUME IInv, [Next]_vars, \A v \in Users : ~UserSetState(v), NEW u \in Users
  PROVE  call'[u] = call[u] \/ call'[u].call # "shutdownInLoop"
<1>1. call \in [Users -> {Idle} \cup Calls]
  BY DEF IInv, TypeOK
<1>2. ASSUME NEW l \in Loops, LoopStep(l) PROVE UNCHANGED call
  <2>1. ASSUME NEW c \in Conns,
               \/ HandleNoWrite(l, c) \/ \E n \in 1..Len(output[c]) : HandleWrite(l, c, n)
               \/ HandleMessage(l, c) \/ HandleEof(l, c) \/ HandleNoRead(l, c)
        PROVE  UNCHANGED call
    BY <2>1 DEF HandleNoWrite, HandleWrite, HandleEvent, HandleMessage, HandleEof, HandleNoRead, ReadDone
  <2>2. ASSUME NEW c \in Conns,
               \/ RunEstablished(l, c) \/ RunSend(l, c) \/ RunShutdown(l, c)
               \/ RunRemove(l, c) \/ RunDestroyed(l, c) \/ RunCallback(l, c)
        PROVE  UNCHANGED call
    BY <2>2 DEF RunEstablished, RunSend, RunShutdown, RunRemove, RunDestroyed, RunCallback, Run, Turn
  <2>3. ASSUME \/ \E ready \in SUBSET (Watched(l) \cup IF l = Base THEN {Acceptor} ELSE {}) : PollReturn(l, ready)
               \/ \E c \in Conns : CallbackReturn(l, c) \/ EstablishNow(c)
               \/ AcceptFails \/ (\E f \in Fds : NewConnection(f)) \/ Swap(l) \/ FunctorsDone(l)
        PROVE  UNCHANGED call
    BY <2>3 DEF PollReturn, CallbackReturn, Callback, EstablishNow, AcceptFails, NewConnection, Swap, FunctorsDone
  <2>4. QED
    BY <1>2, <2>1, <2>2, <2>3 DEF LoopStep
<1>3. ASSUME NEW l \in Loops, NEW c \in Conns,
             CallbackSend(l, c) \/ CallbackShutdown(l, c) \/ \E v \in Users : HandOut(l, c, v)
      PROVE  UNCHANGED call
  BY <1>3 DEF CallbackSend, CallbackShutdown, HandOut, Callback
<1>4. ASSUME NEW v \in Users, UserQueue(v) PROVE call'[u] = call[u] \/ call'[u].call # "shutdownInLoop"
  BY <1>1, <1>4 DEF UserQueue, Idle
<1>5. ASSUME NEW v \in Users, NEW c \in Conns, NEW what \in {"sendInLoop", "shutdown"}, UserCall(v, c, what)
      PROVE  call'[u] = call[u] \/ call'[u].call # "shutdownInLoop"
  BY <1>1, <1>5 DEF UserCall
<1>6. Start \/ (\E c \in Conns : PeerClose(c)) \/ (\E v \in Users, c \in Conns : UserDrop(v, c)) \/ UNCHANGED vars
        => UNCHANGED call
  BY DEF Start, PeerClose, UserDrop, vars
<1>7. QED
  BY <1>2, <1>3, <1>4, <1>5, <1>6 DEF Next, UserStep

LEMMA StateSetStep == IInv /\ StateSet /\ [Next]_vars => StateSet'
<1> SUFFICES ASSUME IInv, StateSet, [Next]_vars, NEW u \in Users, call'[u].call = "shutdownInLoop"
             PROVE  state'[call'[u].conn] = "kDisConnected"
  BY DEF StateSet
<1>1. call \in [Users -> {Idle} \cup Calls] /\ state \in [Conns ->
           {"none", "kConnecting", "kConnected", "kDisConnecting", "kDisConnected"}]
  BY DEF IInv, TypeOK
<1>2. CASE call'[u] = call[u]
  <2>1. call[u].conn \in Conns
    BY <1>1, <1>2 DEF Idle, Calls
  <2>2. QED
    BY <1>2, <2>1, StaysDown DEF StateSet
<1>3. ASSUME NEW v \in Users, UserSetState(v), call'[u] # call[u] PROVE state'[call'[u].conn] = "kDisConnected"
  <2>1. u = v /\ call[u] \in Calls
    BY <1>1, <1>3 DEF UserSetState, Idle
  <2>2. call'[u].conn = call[u].conn /\ call[u].conn \in Conns
    BY <1>1, <1>3, <2>1 DEF UserSetState, Calls
  <2>3. QED
    BY <1>1, <1>3, <2>1, <2>2 DEF UserSetState, ClosingState
<1>4. QED
  BY <1>2, <1>3, CallMoves

THEOREM Invariant == Spec => []IInv
<1>1. Init => StateSet
  BY DEF Init, StateSet, Idle
<1>2. IInv /\ StateSet /\ [Next]_vars => IInv' /\ StateSet'
  BY StepKeeps, StateSetStep
<1>3. QED
  BY InitIInv, <1>1, <1>2, PTL DEF Spec

\* Every variable has its type: no connection is made past the bound, no loop
\* reads past its batch, and nobody calls on a connection it holds no pointer to.
THEOREM TypeCorrect == Spec => []TypeOK
<1>1. IInv => TypeOK
  BY DEF IInv
<1>2. QED
  BY Invariant, <1>1, PTL

-----------------------------------------------------------------------------
(* What the invariant says of the poller and of the bytes. *)

\* epoll_ctl never fails, and what the poller believes of a channel, what the
\* channel wants and what the kernel watches are always the same.
THEOREM PollerAlwaysAgrees == Spec => []PollerAgrees
<1>1. ASSUME IInv PROVE PollerAgrees
  <2>1. ~refused
    BY <1>1 DEF IInv, Polled
  <2>2. ASSUME NEW c \in Made
        PROVE  /\ index[c] = "kAdded" => epoll[loopOf[c]][fd[c]] = [channel |-> c, events |-> events[c]] /\ events[c] # {}
               /\ index[c] # "kAdded" => epoll[loopOf[c]][fd[c]].channel # c /\ events[c] = {}
               /\ index[c] = "kNew" <=> channels[loopOf[c]][fd[c]] # c
    <3>1. /\ c \in Conns /\ Staged(c) /\ fd[c] \in Fds /\ loopOf[c] \in Loops /\ c # NoConn
          /\ told[c] \in 0..2
      <4>1. c \in Conns /\ c # NoConn
        BY <1>1, MadeIsMade, Sizes DEF IInv
      <4>2. Staged(c) /\ loopOf[c] \in Loops
        BY <1>1, <4>1 DEF IInv, TypeOK, Stages
      <4>3. QED
        BY <4>1, <4>2 DEF Staged
    <3>2. index[c] = "kAdded" => events[c] # {}
      BY <3>1 DEF Staged, SettingUp, Open, Finished
    <3>3. index[c] # "kAdded" => events[c] = {}
      BY <3>1 DEF Staged, SettingUp, Open, Finished
    <3>4. index[c] = "kAdded" => epoll[loopOf[c]][fd[c]] = [channel |-> c, events |-> events[c]]
      BY <1>1 DEF IInv, Polled
    <3>5. index[c] # "kAdded" => epoll[loopOf[c]][fd[c]].channel # c
      <4>1. NoEntry.channel # c
        BY <3>1, Sizes DEF NoEntry
      <4>2. QED
        BY <1>1, <3>1, <4>1 DEF IInv, Polled
    <3>6. index[c] = "kNew" <=> channels[loopOf[c]][fd[c]] # c
      <4>1. index[c] # "kNew" => channels[loopOf[c]][fd[c]] = c
        BY <1>1 DEF IInv, Polled
      <4>2. ASSUME channels[loopOf[c]][fd[c]] = c PROVE index[c] # "kNew"
        BY <1>1, <3>1, <4>2 DEF IInv, Polled
      <4>3. QED
        BY <4>1, <4>2
    <3>7. QED
      BY <3>2, <3>3, <3>4, <3>5, <3>6
  <2>3. QED
    BY <2>1, <2>2 DEF PollerAgrees
<1>2. QED
  BY Invariant, <1>1, PTL

\* channels_ and the kernel's table hold no pointer to the channel of a connection
\* that has been destroyed.
THEOREM NoDanglingChannelEver == Spec => []NoDanglingChannel
<1>1. ASSUME IInv PROVE NoDanglingChannel
  <2>1. ASSUME NEW l \in Loops, NEW f \in Fds, channels[l][f] # NoConn PROVE Alive(channels[l][f])
    <3>1. PICK c \in Made : channels[l][f] = c /\ index[c] # "kNew"
      BY <1>1, <2>1 DEF IInv, Polled
    <3>2. Alive(c)
      BY <1>1, <3>1, AliveOrGone DEF Gone
    <3>3. QED
      BY <3>1, <3>2
  <2>2. ASSUME NEW l \in Loops, NEW f \in Fds, epoll[l][f].channel # NoConn PROVE Alive(epoll[l][f].channel)
    <3>1. epoll[l][f] # NoEntry
      BY <2>2, Sizes DEF NoEntry
    <3>2. PICK c \in Made : epoll[l][f].channel = c /\ index[c] = "kAdded"
      BY <1>1, <3>1 DEF IInv, Polled
    <3>3. Alive(c)
      BY <1>1, <3>2, AliveOrGone DEF Gone
    <3>4. QED
      BY <3>2, <3>3
  <2>3. QED
    BY <2>1, <2>2 DEF NoDanglingChannel
<1>2. QED
  BY Invariant, <1>1, PTL

\* The bytes on the wire and in outputBuffer_ are those that sendInLoop took, in
\* order, whoever sent them and however the socket cut them up.
THEOREM WireAlwaysInOrder == Spec => []WireInOrder
<1>1. IInv => WireInOrder
  BY MadeIsMade DEF IInv, InOrder, WireInOrder
<1>2. QED
  BY Invariant, <1>1, PTL

\* An open connection is watched for space exactly when output is buffered.
THEOREM WriteAlwaysArmed == Spec => []WriteArmed
<1>1. IInv => WriteArmed
  BY MadeIsMade DEF IInv, Stages, Staged, Open, WriteArmed
<1>2. QED
  BY Invariant, <1>1, PTL

-----------------------------------------------------------------------------
(* What a step may do. *)

\* Bytes are written by sendInLoop and by the write callback.
LEMMA WireMoves ==
  ASSUME IInv, [Next]_vars, NEW c \in Conns
  PROVE  \/ wire'[c] = wire[c]
         \/ state[c] # "kDisConnected"
         \/ told[c] = 1 /\ isWriting(c)
<1>1. wire \in [Conns -> Seq(Octets)]
  BY DEF IInv, TypeOK
<1>2. ASSUME NEW l \in Loops, NEW d \in Conns, NEW m, SendInLoop(l, d, m)
      PROVE  wire'[c] = wire[c] \/ state[c] # "kDisConnected"
  BY <1>1, <1>2 DEF SendInLoop, Write
<1>3. ASSUME NEW l \in Loops, NEW d \in Conns, NEW n \in 1..Len(output[d]), HandleWrite(l, d, n)
      PROVE  wire'[c] = wire[c] \/ (told[c] = 1 /\ isWriting(c))
  BY <1>1, <1>3, HandlerStep DEF HandleWrite
<1>4. ASSUME NEW l \in Loops, LoopStep(l),
             \A d \in Conns : ~RunSend(l, d) /\ \A n \in 1..Len(output[d]) : ~HandleWrite(l, d, n)
      PROVE  UNCHANGED wire
  BY <1>4 DEF LoopStep, PollReturn, HandleNoWrite, HandleMessage, HandleEof, HandleNoRead, ReadDone,
     RunEstablished, RunShutdown, RunRemove, RunDestroyed, RunCallback, CallbackReturn, AcceptFails,
     NewConnection, EstablishNow, Swap, FunctorsDone
<1>5. ASSUME UserStep, \A l \in Loops, d \in Conns : ~CallbackSend(l, d) PROVE UNCHANGED wire
  BY <1>5 DEF UserStep, CallbackShutdown, HandOut, UserSetState, UserQueue, UserDrop, UserCall
<1>6. Start \/ (\E d \in Conns : PeerClose(d)) \/ UNCHANGED vars => UNCHANGED wire
  BY DEF Start, PeerClose, vars
<1>7. QED
  BY <1>2, <1>3, <1>4, <1>5, <1>6 DEF Next, RunSend, CallbackSend

\* After its write side was shut down nothing is written to a connection, and
\* while it is open nothing is left to be.
THEOREM NothingAfterFinEver == Spec => NothingAfterFin
<1>1. ASSUME IInv, [Next]_vars
      PROVE  \A c \in fin : wire'[c] = wire[c] /\ (told[c] = 1 => output[c] = <<>>)
  <2>1. ASSUME NEW c \in fin PROVE wire'[c] = wire[c] /\ (told[c] = 1 => output[c] = <<>>)
    <3>1. c \in Conns /\ Staged(c) /\ told[c] \in 0..2
      BY <1>1, MadeIsMade DEF IInv, TypeOK, Stages, Staged
    <3>2. state[c] = "kDisConnected" /\ (told[c] = 1 => output[c] = <<>> /\ ~isWriting(c))
      BY <3>1 DEF Staged, SettingUp, Open, Finished
    <3>3. QED
      BY <1>1, <3>1, <3>2, WireMoves
  <2>2. QED
    BY <2>1
<1>2. QED
  BY Invariant, <1>1, PTL DEF Spec, NothingAfterFin

\* Who calls connectionCallback_.
LEMMA ToldMoves ==
  ASSUME IInv, [Next]_vars
  PROVE  UNCHANGED told \/ \E c \in Conns : told' = [told EXCEPT ![c] = @ + 1]
<1>1. ASSUME NEW l \in Loops, LoopStep(l)
      PROVE  UNCHANGED told \/ \E c \in Conns : told' = [told EXCEPT ![c] = @ + 1]
  <2>1. ASSUME NEW c \in Conns,
               HandleEof(l, c) \/ RunEstablished(l, c) \/ RunDestroyed(l, c) \/ EstablishNow(c)
        PROVE  UNCHANGED told \/ told' = [told EXCEPT ![c] = @ + 1]
    BY <2>1 DEF HandleEof, HandleClose, RunEstablished, EstablishNow, ConnectEstablished, RunDestroyed
  <2>2. ASSUME \A c \in Conns : ~(HandleEof(l, c) \/ RunEstablished(l, c) \/ RunDestroyed(l, c) \/ EstablishNow(c))
        PROVE  UNCHANGED told
    BY <1>1, <2>2 DEF LoopStep, PollReturn, HandleNoWrite, HandleWrite, HandleEvent, HandleMessage, HandleNoRead,
       RunSend, RunShutdown, RunRemove, RunCallback, CallbackReturn, Callback, AcceptFails, NewConnection,
       Swap, FunctorsDone
  <2>3. QED
    BY <2>1, <2>2
<1>2. ASSUME UserStep PROVE UNCHANGED told
  BY <1>2 DEF UserStep, CallbackSend, CallbackShutdown, HandOut, Callback, UserSetState, UserQueue, UserDrop, UserCall
<1>3. Start \/ (\E c \in Conns : PeerClose(c)) \/ UNCHANGED vars => UNCHANGED told
  BY DEF Start, PeerClose, vars
<1>4. QED
  BY <1>1, <1>2, <1>3 DEF Next

\* A handler enters a callback of the program only for an open connection.
LEMMA HandlersEnter ==
  ASSUME IInv, [Next]_vars, NEW k \in Loops, inUser'[k] # inUser[k], at[k] = "events", inUser'[k] # NoConn
  PROVE  told'[inUser'[k]] = 1
<1>1. inUser \in [Loops -> Conns \cup {NoConn}] /\ told \in [Conns -> Nat]
  BY DEF IInv, TypeOK
<1>2. ASSUME NEW l \in Loops, NEW c \in Conns, HandleMessage(l, c) PROVE told'[inUser'[k]] = 1
  <2>1. ReadDone(l, c) /\ inUser' = [inUser EXCEPT ![l] = c] /\ UNCHANGED told
    BY <1>2 DEF HandleMessage
  <2>2. k = l /\ inUser'[k] = c
    BY <1>1, <2>1
  <2>3. told[c] = 1
    BY <2>1, ReaderStep
  <2>4. QED
    BY <2>1, <2>2, <2>3
<1>3. ASSUME NEW c \in Conns, EstablishNow(c) PROVE told'[inUser'[k]] = 1
  <2>1. /\ Base \in Loops /\ handling[Base] = c /\ c # NoConn /\ state[c] = "kConnecting"
        /\ told' = [told EXCEPT ![c] = @ + 1] /\ inUser' = [inUser EXCEPT ![Base] = c]
    BY <1>3, Sizes DEF EstablishNow, ConnectEstablished
  <2>2. inUser'[k] = c
    BY <1>1, <2>1
  <2>3. c \in Made /\ told[c] \in {0, 1}
    BY <2>1 DEF IInv, LoopSound, Attends
  <2>4. told[c] = 0
    BY <2>1, <2>3 DEF IInv, Stages, Staged, Open
  <2>5. QED
    BY <1>1, <2>1, <2>2, <2>4
<1>4. ASSUME NEW l \in Loops, NEW c \in Conns, RunEstablished(l, c) \/ RunDestroyed(l, c) \/ RunCallback(l, c)
      PROVE  FALSE
  <2>1. at[l] = "functors" /\ (inUser' = [inUser EXCEPT ![l] = c] \/ UNCHANGED inUser)
    BY <1>4 DEF RunEstablished, ConnectEstablished, RunDestroyed, RunCallback, Run, Turn
  <2>2. QED
    BY <1>1, <2>1
<1>5. ASSUME NEW l \in Loops, NEW c \in Conns, CallbackReturn(l, c) PROVE FALSE
  BY <1>1, <1>5 DEF CallbackReturn
<1>6. ASSUME NEW l \in Loops, LoopStep(l),
             \A c \in Conns : ~(HandleMessage(l, c) \/ EstablishNow(c) \/ RunEstablished(l, c)
                                \/ RunDestroyed(l, c) \/ RunCallback(l, c) \/ CallbackReturn(l, c))
      PROVE  UNCHANGED inUser
  BY <1>6 DEF LoopStep, PollReturn, HandleNoWrite, HandleWrite, HandleEvent, HandleEof, HandleNoRead,
     RunSend, RunShutdown, RunRemove, AcceptFails, NewConnection, Swap, FunctorsDone
<1>7. UserStep => UNCHANGED inUser
  BY DEF UserStep, CallbackSend, CallbackShutdown, HandOut, UserSetState, UserQueue, UserDrop, UserCall
<1>8. Start \/ (\E c \in Conns : PeerClose(c)) \/ UNCHANGED vars => UNCHANGED inUser
  BY DEF Start, PeerClose, vars
<1>9. QED
  BY <1>2, <1>3, <1>4, <1>5, <1>6, <1>7, <1>8 DEF Next

\* The program hears of a connection once when it is up and once when it is down,
\* and of messages only in between.
THEOREM CallbacksAlwaysInOrder == Spec => CallbacksInOrder
<1>1. ASSUME IInv, IInv', [Next]_vars
      PROVE  /\ \A c \in Conns : told'[c] \in {told[c], told[c] + 1} /\ told'[c] <= 2
             /\ \A l \in Loops : inUser'[l] # inUser[l] /\ at[l] = "events" /\ inUser'[l] # NoConn
                                  => told'[inUser'[l]] = 1
  <2>1. ASSUME NEW c \in Conns PROVE told'[c] \in {told[c], told[c] + 1} /\ told'[c] <= 2
    <3>1. told'[c] \in 0..2
      BY <1>1 DEF IInv, Stages, Staged
    <3>2. told \in [Conns -> Nat]
      BY <1>1 DEF IInv, TypeOK
    <3>3. told'[c] \in {told[c], told[c] + 1}
      BY <1>1, <3>2, ToldMoves
    <3>4. QED
      BY <3>1, <3>3
  <2>2. QED
    BY <1>1, <2>1, HandlersEnter
<1>2. QED
  BY Invariant, <1>1, PTL DEF Spec, CallbacksInOrder

-----------------------------------------------------------------------------
(* Calls of the program are bound to a plain this: they are safe only while   *)
(* the program keeps the connection until its loop has done what was asked.   *)

Kept ==
  \A l \in Loops : \A r \in Todo(l) : r.run \in Asking => \E u \in Users : r.conn \in holds[u]

\* Only a call of the program queues what the program asks.
LEMMA WhoQueues ==
  ASSUME IInv, [Next]_vars, \A u \in Users : ~UserQueue(u)
  PROVE  \/ \E l \in Loops : Swap(l) \/ FunctorsDone(l)
         \/ /\ UNCHANGED functions
            /\ pos' = pos \/ \E l \in Loops : pos' = [pos EXCEPT ![l] = @ + 1]
            /\ pending' = pending
                 \/ \E k \in Loops, r \in Functors : QueueInLoop(k, r) /\ r.run \notin Asking
<1> DEFINE Grows == pending' = pending
                      \/ \E k \in Loops, r \in Functors : QueueInLoop(k, r) /\ r.run \notin Asking
           Takes == pos' = pos \/ \E l \in Loops : pos' = [pos EXCEPT ![l] = @ + 1]
<1>1. ASSUME NEW c \in Conns, NEW f \in Owning, NEW k \in Loops, QueueInLoop(k, Functor(f, c, 0)) PROVE Grows
  <2>1. Functor(f, c, 0) \in Functors /\ Functor(f, c, 0).run \notin Asking
    BY FunctorsTyped DEF Functor, Owning, Asking
  <2>2. QED
    BY <1>1, <2>1
<1>2. loopOf \in [Conns -> Loops] /\ Base \in Loops
  BY Sizes DEF IInv, TypeOK
<1>3. ASSUME NEW l \in Loops, NEW c \in Conns, NEW m, SendInLoop(l, c, m) PROVE Grows
  BY <1>1, <1>3, SendQueues DEF WriteFunctors, Owning
<1>4. pending' = pending => Grows
  OBVIOUS
<1> HIDE DEF Grows
<1>5. ASSUME NEW l \in Loops, LoopStep(l), ~Swap(l), ~FunctorsDone(l) PROVE UNCHANGED functions /\ Takes /\ Grows
  <2>1. ASSUME NEW c \in Conns, RunSend(l, c) PROVE UNCHANGED functions /\ Takes /\ Grows
    BY <1>3, <2>1 DEF RunSend, Run, Turn
  <2>2. ASSUME NEW c \in Conns, RunRemove(l, c) PROVE UNCHANGED functions /\ Takes /\ Grows
    BY <1>1, <1>2, <2>2 DEF RunRemove, RemoveConnectionInLoop, Run, Turn, Owning
  <2>3. ASSUME NEW c \in Conns, NEW n \in 1..Len(output[c]), HandleWrite(l, c, n)
        PROVE  UNCHANGED functions /\ Takes /\ Grows
    BY <1>1, <1>4, <2>3 DEF HandleWrite, Drained, HandleEvent, Owning
  <2>4. ASSUME NEW c \in Conns, HandleEof(l, c) PROVE UNCHANGED functions /\ Takes /\ Grows
    BY <1>1, <1>2, <2>4 DEF HandleEof, HandleClose, RemoveConnection, RemoveConnectionInLoop, ReadDone, Owning
  <2>5. ASSUME NEW f \in Fds, NewConnection(f) PROVE UNCHANGED functions /\ Takes /\ Grows
    BY <1>1, <1>4, <2>5, NextLoopTyped DEF NewConnection, Owning, IInv
  <2>6. ASSUME NEW c \in Conns, RunEstablished(l, c) \/ RunShutdown(l, c) \/ RunDestroyed(l, c) \/ RunCallback(l, c)
        PROVE  UNCHANGED functions /\ Takes /\ Grows
    BY <1>4, <2>6 DEF RunEstablished, RunShutdown, RunDestroyed, RunCallback, Run, Turn
  <2>7. ASSUME \/ \E ready \in SUBSET (Watched(l) \cup IF l = Base THEN {Acceptor} ELSE {}) : PollReturn(l, ready)
               \/ \E c \in Conns : \/ HandleNoWrite(l, c) \/ HandleMessage(l, c) \/ HandleNoRead(l, c)
                                   \/ CallbackReturn(l, c) \/ EstablishNow(c)
               \/ AcceptFails
        PROVE  UNCHANGED functions /\ Takes /\ Grows
    BY <1>4, <2>7 DEF PollReturn, HandleNoWrite, HandleEvent, HandleMessage, HandleNoRead, ReadDone, CallbackReturn,
       Callback, EstablishNow, AcceptFails
  <2>8. QED
    BY <1>5, <2>1, <2>2, <2>3, <2>4, <2>5, <2>6, <2>7 DEF LoopStep
<1>6. ASSUME UserStep PROVE UNCHANGED functions /\ Takes /\ Grows
  <2>1. ASSUME NEW l \in Loops, NEW c \in Conns, CallbackSend(l, c) PROVE UNCHANGED functions /\ Takes /\ Grows
    BY <1>3, <2>1 DEF CallbackSend, Callback
  <2>2. QED
    BY <1>4, <1>6, <2>1 DEF UserStep, CallbackShutdown, HandOut, Callback, UserSetState, UserDrop, UserCall
<1>7. ASSUME Start \/ (\E c \in Conns : PeerClose(c)) \/ UNCHANGED vars PROVE UNCHANGED functions /\ Takes /\ Grows
  BY <1>4, <1>7 DEF Start, PeerClose, vars
<1>8. QED
  BY <1>5, <1>6, <1>7 DEF Next, Grows

\* A list loses what has run and gains what is queued.
LEMMA TodoGrows ==
  ASSUME IInv, TypeOK', NEW m \in Loops, UNCHANGED functions,
         pos' = pos \/ \E l \in Loops : pos' = [pos EXCEPT ![l] = @ + 1]
  PROVE  /\ pending' = pending => Todo(m)' \subseteq Todo(m)
         /\ \A k \in Loops, r \in Functors : QueueInLoop(k, r) => Todo(m)' \subseteq Todo(m) \cup {r}
<1>1. /\ Todo(m) = Ahead(m) \cup Elements(pending[m]) /\ Todo(m)' = Ahead(m)' \cup Elements(pending'[m])
      /\ pos \in [Loops -> Nat] /\ pending \in [Loops -> Seq(Functors)] /\ Len(functions[m]) \in Nat
  BY TodoMembers, LenProperties DEF IInv, TypeOK
<1>2. Ahead(m)' \subseteq Ahead(m)
  <2>1. pos'[m] \in Nat /\ pos[m] \in Nat /\ pos'[m] >= pos[m]
    BY <1>1
  <2>2. \A i \in pos'[m]..Len(functions[m]) : i \in pos[m]..Len(functions[m])
    BY <1>1, <2>1
  <2>3. QED
    BY <2>2 DEF Ahead
<1>3. ASSUME NEW k \in Loops, NEW r \in Functors, QueueInLoop(k, r)
      PROVE  Elements(pending'[m]) \subseteq Elements(pending[m]) \cup {r}
  <2>1. pending'[m] = pending[m] \/ pending'[m] = Append(pending[m], r)
    BY <1>1, <1>3 DEF QueueInLoop
  <2>2. Elements(Append(pending[m], r)) = Elements(pending[m]) \cup {r}
    BY <1>1, DistinctAppend
  <2>3. QED
    BY <2>1, <2>2
<1>4. QED
  BY <1>1, <1>2, <1>3

\* Pointers are only given up by UserDrop.
LEMMA HoldsGrow ==
  ASSUME IInv, [Next]_vars, NEW u \in Users
  PROVE  holds[u] \subseteq holds'[u] \/ \E v \in Users, c \in Conns : UserDrop(v, c)
<1>1. holds \in [Users -> SUBSET Made]
  BY DEF IInv, TypeOK
<1>2. ASSUME NEW l \in Loops, LoopStep(l) PROVE UNCHANGED holds
  <2>1. ASSUME NEW c \in Conns,
               \/ HandleNoWrite(l, c) \/ \E n \in 1..Len(output[c]) : HandleWrite(l, c, n)
               \/ HandleMessage(l, c) \/ HandleEof(l, c) \/ HandleNoRead(l, c)
        PROVE  UNCHANGED holds
    BY <2>1 DEF HandleNoWrite, HandleWrite, HandleEvent, HandleMessage, HandleEof, HandleNoRead, ReadDone
  <2>2. ASSUME NEW c \in Conns,
               \/ RunEstablished(l, c) \/ RunSend(l, c) \/ RunShutdown(l, c)
               \/ RunRemove(l, c) \/ RunDestroyed(l, c) \/ RunCallback(l, c)
        PROVE  UNCHANGED holds
    BY <2>2 DEF RunEstablished, RunSend, RunShutdown, RunRemove, RunDestroyed, RunCallback, Run, Turn
  <2>3. ASSUME \/ \E ready \in SUBSET (Watched(l) \cup IF l = Base THEN {Acceptor} ELSE {}) : PollReturn(l, ready)
               \/ \E c \in Conns : CallbackReturn(l, c) \/ EstablishNow(c)
               \/ AcceptFails \/ (\E f \in Fds : NewConnection(f)) \/ Swap(l) \/ FunctorsDone(l)
        PROVE  UNCHANGED holds
    BY <2>3 DEF PollReturn, CallbackReturn, EstablishNow, AcceptFails, NewConnection, Swap, FunctorsDone
  <2>4. QED
    BY <1>2, <2>1, <2>2, <2>3 DEF LoopStep
<1>3. ASSUME NEW l \in Loops, NEW c \in Conns, CallbackSend(l, c) \/ CallbackShutdown(l, c) PROVE UNCHANGED holds
  BY <1>3 DEF CallbackSend, CallbackShutdown
<1>4. ASSUME NEW l \in Loops, NEW c \in Conns, NEW v \in Users, HandOut(l, c, v) PROVE holds[u] \subseteq holds'[u]
  BY <1>1, <1>4 DEF HandOut
<1>5. (\E v \in Users : UserSetState(v) \/ UserQueue(v)) => UNCHANGED holds
  BY DEF UserSetState, UserQueue
<1>6. (\E v \in Users, c \in Conns, what \in {"sendInLoop", "shutdown"} : UserCall(v, c, what)) => UNCHANGED holds
  BY DEF UserCall
<1>7. Start \/ (\E c \in Conns : PeerClose(c)) \/ UNCHANGED vars => UNCHANGED holds
  BY DEF Start, PeerClose, vars
<1>8. QED
  BY <1>2, <1>3, <1>4, <1>5, <1>6, <1>7 DEF Next, UserStep

LEMMA KeptStep ==
  ASSUME CallersWait, IInv, Kept, [Next]_vars
  PROVE  Kept'
<1>1. TypeOK'
  BY TypeStep
<1>2. ASSUME NEW u \in Users, NEW c \in Conns, UserDrop(u, c) PROVE Kept'
  <2>1. /\ ~Asked(c) /\ holds' = [holds EXCEPT ![u] = @ \ {c}] /\ UNCHANGED <<pending, functions, pos>>
    BY <1>2 DEF UserDrop
  <2>2. \A v \in Users : \A d \in holds[v] : d \in holds'[v] \/ d = c
    BY <2>1 DEF IInv, TypeOK
  <2>3. ASSUME NEW l \in Loops, NEW r \in Todo(l), r.run \in Asking PROVE r.conn # c
    <3>1. l = loopOf[r.conn]
      BY <2>3 DEF IInv, QueueSound, Sound, Asking
    <3>2. QED
      BY <2>1, <2>3, <3>1 DEF Asked, Todo, Elements, Asking
  <2>4. \A l \in Loops : Todo(l)' = Todo(l)
    BY <2>1 DEF Todo, Unrun
  <2>5. QED
    BY <2>2, <2>3, <2>4 DEF Kept
<1>3. ASSUME \A v \in Users, c \in Conns : ~UserDrop(v, c) PROVE Kept'
  <2>1. \A u \in Users : holds[u] \subseteq holds'[u]
    BY <1>3, HoldsGrow
  <2>2. ASSUME NEW u \in Users, UserQueue(u) PROVE Kept'
    <3>1. call[u] \in Calls /\ call[u].conn \in holds[u]
      BY <2>2 DEF UserQueue, IInv, TypeOK, Idle, Asking
    <3>2. PICK r \in Functors : r = Functor(call[u].call, call[u].conn, call[u].message)
      BY <2>2, <3>1 DEF UserQueue, Calls, Functors, FunctorNames, Functor
    <3>3. PICK k \in Loops : k = loopOf[call[u].conn]
      BY <3>1 DEF Calls, IInv, TypeOK
    <3>4. r.conn \in holds[u] /\ QueueInLoop(k, r) /\ UNCHANGED <<functions, pos>>
      BY <2>2, <3>1, <3>2, <3>3 DEF UserQueue, Functor
    <3>5. \A m \in Loops : Todo(m)' \subseteq Todo(m) \cup {r}
      BY <1>1, <3>4, TodoGrows
    <3>6. QED
      BY <2>1, <3>4, <3>5 DEF Kept
  <2>3. ASSUME \A u \in Users : ~UserQueue(u) PROVE Kept'
    <3>1. ASSUME NEW l \in Loops, Swap(l) \/ FunctorsDone(l) PROVE Kept'
      <4>1. Moved({}, {})
        BY <3>1, SwapMovesNothing DEF IInv
      <4>2. \A m \in Loops : Todo(m)' \subseteq Todo(m)
        BY <4>1 DEF Moved
      <4>3. QED
        BY <2>1, <4>2 DEF Kept
    <3>2. ASSUME UNCHANGED functions, pos' = pos \/ \E l \in Loops : pos' = [pos EXCEPT ![l] = @ + 1],
                 pending' = pending
                   \/ \E k \in Loops, r \in Functors : QueueInLoop(k, r) /\ r.run \notin Asking
          PROVE  Kept'
      <4>1. \A m \in Loops : \A r \in Todo(m)' : r \in Todo(m) \/ r.run \notin Asking
        BY <1>1, <3>2, TodoGrows
      <4>2. QED
        BY <2>1, <4>1 DEF Kept
    <3>3. QED
      BY <2>3, <3>1, <3>2, WhoQueues
  <2>4. QED
    BY <2>2, <2>3
<1>4. QED
  BY <1>2, <1>3

LEMMA KeptInit == Init => Kept
<1> SUFFICES ASSUME Init PROVE Kept
  OBVIOUS
<1>1. \A l \in Loops : Unrun(l) = <<>>
  <2>1. /\ pending = [l \in Loops |-> <<>>] /\ functions = [l \in Loops |-> <<>>] /\ pos = [l \in Loops |-> 1]
    BY DEF Init
  <2>2. <<>> \in Seq(Functors)
    BY EmptySeq
  <2>3. QED
    BY <2>1, <2>2, RestNone DEF Unrun
<1>2. QED
  BY <1>1, EmptySeq DEF Kept, Todo, Elements

\* While callers wait, no handler of a reported event and no functor is called on a
\* connection that has been destroyed.
THEOREM NoDeadTargetEver == ASSUME CallersWait PROVE Spec => []NoDeadTarget
<1>1. ASSUME IInv, Kept PROVE NoDeadTarget
  <2>1. ASSUME NEW l \in Loops, NEW c \in active[l] \cap Conns PROVE Alive(c)
    <3>1. told[c] = 1
      BY <1>1, <2>1 DEF IInv, LoopSound, Attends
    <3>2. c \in Made
      BY <1>1, <3>1 DEF IInv, Stages, Staged, Unmade
    <3>3. QED
      BY <1>1, <3>1, <3>2, AliveOrGone DEF Gone
  <2>2. ASSUME NEW l \in Loops, NEW r \in Todo(l) PROVE Alive(r.conn)
    <3>1. Sound(l, r) /\ r.conn \in Made /\ r \in Functors
      <4>1. Sound(l, r) /\ r.conn \in Made
        BY <1>1 DEF IInv, QueueSound, Sound
      <4>2. Unrun(l) \in Seq(Functors)
        BY <1>1, UnrunTyped DEF IInv
      <4>3. QED
        BY <4>1, <4>2 DEF Todo, Elements
    <3>2. state[r.conn] # "none"
      BY <1>1, <3>1, MadeIsMade DEF IInv, Stages, Staged
    <3>3. CASE r.run \in Asking
      BY <1>1, <3>2, <3>3 DEF Kept, Alive
    <3>4. CASE r.run \notin Asking
      <4>1. r.run \in Owning /\ r.message = 0
        BY <3>1, <3>4 DEF Functors, FunctorNames, Sound, Asking
      <4>2. r = Functor(r.run, r.conn, 0)
        BY <3>1, <4>1 DEF Functors, Functor
      <4>3. OwnedByFunctor(r.conn)
        BY <1>1, <4>1, <4>2, TodoIsListed DEF OwnedByFunctor, IInv
      <4>4. QED
        BY <3>2, <4>3 DEF Alive
    <3>5. QED
      BY <3>3, <3>4
  <2>3. QED
    BY <2>1, <2>2 DEF NoDeadTarget, Todo, Elements
<1>2. Spec => []Kept
  <2>1. IInv /\ Kept /\ [Next]_vars => Kept'
    BY KeptStep
  <2>2. QED
    BY Invariant, KeptInit, <2>1, PTL DEF Spec
<1>3. QED
  BY Invariant, <1>1, <1>2, PTL

=============================================================================
