---------------------------- MODULE NginxProofs ----------------------------
(***************************************************************************)
(* Theorems about Nginx, for any number of workers and signals, any        *)
(* configuration and any number of signals sent.                           *)
(*                                                                         *)
(* What a process blocks follows from where its program is, and from the   *)
(* handlers that have interrupted it: the first of them has saved the mask *)
(* of the place, and while the master makes processes each of them blocks  *)
(* at least what the master blocks.                                        *)
(***************************************************************************)
EXTENDS Nginx, SequenceTheorems, FiniteSetTheorems, WellFoundedInduction, TLAPS

\* The places of a process in which the signals of the master are blocked.
MaskedPlaces == {"spawn", "cycle", "born", "printing"}

Base(at) == IF at \in MaskedPlaces THEN Masked ELSE {}

Frames == [signal : Signals, saved : SUBSET Signals]

\* A process at a place at, with the handlers hs, the mask m and old what
\* sigsuspend is to restore.
Good(at, hs, m, old) ==
  /\ hs \in Seq(Frames) /\ m \in SUBSET Signals
  /\ at \in Gone => hs = <<>>
  /\ at \notin Gone /\ hs = <<>> => m = Base(at)
  /\ hs # <<>> => hs[1].saved = IF at = "suspended" THEN old ELSE Base(at)
  /\ at = "suspended" => old = Masked
  /\ at \in MaskedPlaces =>
       /\ Masked \subseteq m
       /\ \A i \in 1..Len(hs) : hs[i].signal \notin Masked /\ Masked \subseteq hs[i].saved

GoodProcess(p) == Good(pc[p], handlers[p], mask[p], oldMask)

MasterPlaces == {"load", "signalInit", "spawn", "cycle", "suspended", "exited", "dead"}
WorkerPlaces == {"unborn", "born", "printing", "working", "dead"}

GoodPlaces == pc[Master] \in MasterPlaces /\ \A w \in Workers : pc[w] \in WorkerPlaces

Ready(p) == Alive(p) /\ pc[p] \notin {"load", "signalInit"} => installed[p] = Signals

GoodIds ==
  /\ ngxPid[Master] = Master
  /\ \A w \in Workers :
       /\ pc[w] = "born" => ngxPid[w] = Master
       /\ pc[w] \in {"printing", "working"} => ngxPid[w] = w /\ ngxPpid[w] = Master

IInv ==
  /\ TypeOK /\ GoodPlaces /\ GoodIds
  /\ \A p \in Processes : GoodProcess(p) /\ Ready(p)

-----------------------------------------------------------------------------
(* Handlers. *)

\* A handler begins: what it blocks and saves keeps the process good.
LEMMA EnterGood ==
  ASSUME NEW at, at \notin Gone, NEW hs, NEW m, NEW old \in SUBSET Signals, Good(at, hs, m, old),
         NEW s \in Signals \ m,
         NEW saved, saved = IF at = "suspended" /\ hs = <<>> THEN old ELSE m
  PROVE  Good(at, Append(hs, [signal |-> s, saved |-> saved]), m \cup {s}, old)
<1> DEFINE e == [signal |-> s, saved |-> saved]
           hs2 == Append(hs, e)
<1>1. hs \in Seq(Frames) /\ m \in SUBSET Signals /\ e \in Frames
  BY DEF Good, Frames
<1>2. hs2 \in Seq(Frames) /\ hs2 # <<>> /\ Len(hs2) = Len(hs) + 1 /\ Len(hs) \in Nat
  BY <1>1
<1>3. /\ \A i \in 1..Len(hs) : hs2[i] = hs[i]
      /\ hs2[Len(hs) + 1] = e
  BY <1>1
<1>4. hs2[1].saved = IF at = "suspended" THEN old ELSE Base(at)
  <2>1. CASE hs = <<>>
    <3>1. hs2[1] = e
      BY <1>3, <2>1
    <3>2. m = Base(at)
      BY <2>1 DEF Good
    <3>3. QED
      BY <2>1, <3>1, <3>2
  <2>2. CASE hs # <<>>
    <3>1. 1 \in 1..Len(hs)
      BY <1>1, <2>2
    <3>2. hs2[1] = hs[1]
      BY <1>3, <3>1
    <3>3. QED
      BY <2>2, <3>2 DEF Good
  <2>3. QED
    BY <2>1, <2>2
<1>5. ASSUME at \in MaskedPlaces
      PROVE  /\ Masked \subseteq m \cup {s}
             /\ \A i \in 1..Len(hs2) : hs2[i].signal \notin Masked /\ Masked \subseteq hs2[i].saved
  <2>1. Masked \subseteq m /\ saved = m /\ s \notin Masked
    BY <1>5 DEF Good, MaskedPlaces
  <2>2. \A i \in 1..Len(hs) : hs[i].signal \notin Masked /\ Masked \subseteq hs[i].saved
    BY <1>5 DEF Good
  <2>3. ASSUME NEW i \in 1..Len(hs2)
        PROVE  hs2[i].signal \notin Masked /\ Masked \subseteq hs2[i].saved
    <3>1. CASE i \in 1..Len(hs)
      BY <1>3, <2>2, <3>1
    <3>2. CASE i = Len(hs) + 1
      BY <1>3, <2>1, <3>2
    <3>3. QED
      BY <1>2, <2>3, <3>1, <3>2
  <2>4. QED
    BY <2>1, <2>3
<1>6. at = "suspended" => old = Masked
  BY DEF Good
<1>7. QED
  BY <1>1, <1>2, <1>4, <1>5, <1>6 DEF Good

\* The last handler returns; the first one ends sigsuspend.
LEMMA ReturnGood ==
  ASSUME NEW at, at \notin Gone, NEW hs, NEW m, NEW old, Good(at, hs, m, old), hs # <<>>,
         NEW to, to = IF Len(hs) = 1 /\ at = "suspended" THEN "cycle" ELSE at
  PROVE  Good(to, SubSeq(hs, 1, Len(hs) - 1), hs[Len(hs)].saved, old)
<1>0. hs \in Seq(Frames) /\ Len(hs) \in Nat /\ Len(hs) >= 1
  BY DEF Good
<1>1. PICK top \in Nat : top = Len(hs) /\ top >= 1
  BY <1>0
<1> DEFINE hs2 == SubSeq(hs, 1, top - 1)
<1>2. hs[top] \in Frames /\ hs[top].saved \in SUBSET Signals
  <2>1. top \in 1..Len(hs)
    BY <1>1
  <2>2. hs[top] \in Frames
    BY <1>0, <2>1
  <2>3. QED
    BY <2>2 DEF Frames
<1>3. hs2 \in Seq(Frames) /\ Len(hs2) = top - 1 /\ \A i \in 1..(top - 1) : hs2[i] = hs[i]
  <2>1. \A i \in 1..(top - 1) : hs[i] \in Frames
    BY <1>0, <1>1
  <2>2. /\ hs2 \in Seq(Frames)
        /\ Len(hs2) = IF 1 <= top - 1 THEN (top - 1) - 1 + 1 ELSE 0
        /\ \A i \in 1..((top - 1) - 1 + 1) : hs2[i] = hs[1 + i - 1]
    BY <1>1, <2>1, SubSeqProperties
  <2>3. (IF 1 <= top - 1 THEN (top - 1) - 1 + 1 ELSE 0) = top - 1
    BY <1>1
  <2>4. (top - 1) - 1 + 1 = top - 1
    BY <1>1
  <2>5. \A i \in 1..(top - 1) : 1 + i - 1 = i
    BY <1>1
  <2>6. \A i \in 1..(top - 1) : hs2[i] = hs[i]
    BY <2>2, <2>4, <2>5
  <2>7. QED
    BY <2>2, <2>3, <2>6
<1>4. hs[1].saved = IF at = "suspended" THEN old ELSE Base(at)
  BY DEF Good
<1>5. at = "suspended" => old = Masked
  BY DEF Good
<1>6. to \notin Gone
  BY DEF Gone
<1>7. CASE top = 1
  <2>1. hs2 = <<>>
    BY <1>3, <1>7
  <2>2. to # "suspended" /\ hs[top].saved = Base(to)
    BY <1>1, <1>4, <1>5, <1>7 DEF Base, MaskedPlaces
  <2>3. to \in MaskedPlaces => Masked \subseteq hs[top].saved
    BY <2>2 DEF Base
  <2>4. \A i \in 1..Len(hs2) : hs2[i].signal \notin Masked /\ Masked \subseteq hs2[i].saved
    BY <1>3, <1>7
  <2>5. to = "suspended" => old = Masked
    BY <2>2
  <2>6. Good(to, hs2, hs[top].saved, old)
    BY <1>2, <1>3, <1>6, <2>1, <2>2, <2>3, <2>4, <2>5 DEF Good
  <2>7. QED
    BY <1>1, <2>6
<1>8. CASE top # 1
  <2>0. top \in Nat /\ top >= 2
    BY <1>1, <1>8
  <2>1. to = at /\ 1 \in 1..(top - 1) /\ top \in 1..top
    <3>1. to = at
      BY <1>1, <1>8
    <3>2. QED
      BY <2>0, <3>1
  <2>2. hs2 # <<>> /\ hs2[1] = hs[1]
    <3>1. Len(hs2) # 0
      BY <1>3, <2>0
    <3>2. hs2 # <<>>
      BY <3>1
    <3>3. QED
      BY <1>3, <2>1, <3>2
  <2>3. ASSUME at \in MaskedPlaces
        PROVE  /\ Masked \subseteq hs[top].saved
               /\ \A i \in 1..Len(hs2) : hs2[i].signal \notin Masked /\ Masked \subseteq hs2[i].saved
    <3>1. \A i \in 1..Len(hs) : hs[i].signal \notin Masked /\ Masked \subseteq hs[i].saved
      BY <2>3 DEF Good
    <3>2. QED
      BY <1>1, <1>3, <2>1, <3>1
  <2>4. Good(to, hs2, hs[top].saved, old)
    BY <1>2, <1>3, <1>4, <1>5, <1>6, <2>1, <2>2, <2>3 DEF Good
  <2>5. QED
    BY <1>1, <2>4
<1>9. QED
  BY <1>7, <1>8

-----------------------------------------------------------------------------
(* Steps. *)

LEMMA InitGood == Init => IInv
<1> SUFFICES ASSUME Init PROVE IInv
  OBVIOUS
<1> USE NginxAssumption DEF Init, Processes
<1>1. TypeOK
  BY DEF TypeOK, Places, Gone
<1>2. GoodPlaces /\ GoodIds
  BY DEF GoodPlaces, GoodIds, MasterPlaces, WorkerPlaces
<1>3. ASSUME NEW p \in Processes
      PROVE  GoodProcess(p) /\ Ready(p)
  <2>1. handlers[p] = <<>> /\ mask[p] = {} /\ pc[p] \in {"load", "unborn"}
    BY <1>3
  <2>2. QED
    BY <1>3, <2>1 DEF GoodProcess, Good, Ready, Alive, Gone, Base, MaskedPlaces
<1>4. QED
  BY <1>1, <1>2, <1>3 DEF IInv

\* A step that leaves the signals of every process alone, and takes one of them, p,
\* from a place to another where the same signals are blocked.
LEMMA PlaceKeeps ==
  ASSUME IInv, NEW p \in Processes, NEW to, pc' = [pc EXCEPT ![p] = to],
         UNCHANGED signals,
         to \in Gone => handlers[p] = <<>>,
         to \notin Gone => pc[p] \notin Gone /\ Base(to) = Base(pc[p]),
         to \in MaskedPlaces => pc[p] \in MaskedPlaces,
         to # "suspended" /\ pc[p] # "suspended"
  PROVE  \A q \in Processes : GoodProcess(q)'
<1> SUFFICES ASSUME NEW q \in Processes
             PROVE  Good(pc'[q], handlers[q], mask[q], oldMask)
  BY DEF GoodProcess, signals
<1>1. pc \in [Processes -> Places] /\ Good(pc[q], handlers[q], mask[q], oldMask)
  BY DEF IInv, TypeOK, GoodProcess
<1>2. CASE q = p
  <2>1. pc'[q] = to
    BY <1>1, <1>2
  <2>2. QED
    BY <1>1, <1>2, <2>1 DEF Good
<1>3. CASE q # p
  BY <1>1, <1>3
<1>4. QED
  BY <1>2, <1>3

-----------------------------------------------------------------------------
(* One lemma for the steps that leave the processes alone, ... *)

LEMMA QuietKeeps ==
  ASSUME IInv,
         UNCHANGED <<pc, spawned, failed, installed, mask, pending, oldMask, handlers, ngxPid, ngxPpid>>
  PROVE  IInv'
<1>1. TypeOK' /\ GoodPlaces' /\ GoodIds'
  BY DEF IInv, TypeOK, GoodPlaces, GoodIds
<1>2. \A q \in Processes : GoodProcess(q)' /\ Ready(q)'
  BY DEF IInv, GoodProcess, Ready, Alive
<1>3. QED
  BY <1>1, <1>2 DEF IInv

-----------------------------------------------------------------------------
(* ... one for those of the program of the master, ... *)

LEMMA MasterKeeps ==
  ASSUME IInv,
         Load \/ LoadDone \/ (\E s \in Signals : SignalInit(s)) \/ Block \/ ForkFails \/ SpawnDone \/ Suspend
  PROVE  IInv'
<1> USE NginxAssumption
<1>0. TypeOK /\ GoodPlaces /\ GoodIds /\ Master \in Processes
  BY DEF IInv, Processes
<1>1. \A q \in Processes : GoodProcess(q) /\ Ready(q)
  BY DEF IInv
<1>2. CASE LoadDone
  <2>1. PICK to \in {"exited", "signalInit"} : Goes(Master, to)
    BY <1>2 DEF LoadDone
  <2>2. pc[Master] = "load" /\ handlers[Master] = <<>> /\ UNCHANGED signals /\ UNCHANGED ids
    BY <1>2 DEF LoadDone, Runs
  <2>3. TypeOK'
    BY <1>0, <1>2, <2>1, <2>2 DEF TypeOK, LoadDone, Goes, Places, Gone, signals, ids, forks
  <2>4. GoodPlaces' /\ GoodIds'
    BY <1>0, <2>1, <2>2 DEF TypeOK, GoodPlaces, GoodIds, Goes, MasterPlaces, ids, Processes
  <2>5. \A q \in Processes : GoodProcess(q)'
    BY <1>0, <2>1, <2>2, PlaceKeeps DEF Goes, Gone, Base, MaskedPlaces
  <2>6. \A q \in Processes : Ready(q)'
    BY <1>0, <1>1, <2>1, <2>2 DEF TypeOK, Ready, Alive, Goes, Gone, signals
  <2>7. QED
    BY <2>3, <2>4, <2>5, <2>6 DEF IInv
<1>3. ASSUME NEW s \in Signals, SignalInit(s)
      PROVE  IInv'
  <2>1. TypeOK'
    BY <1>0, <1>3 DEF TypeOK, SignalInit, ids, forks
  <2>2. GoodPlaces' /\ GoodIds'
    BY <1>0, <1>3 DEF GoodPlaces, GoodIds, SignalInit, ids
  <2>3. \A q \in Processes : GoodProcess(q)'
    BY <1>1, <1>3 DEF GoodProcess, SignalInit
  <2>4. \A q \in Processes : Ready(q)'
    BY <1>0, <1>1, <1>3 DEF TypeOK, Ready, Alive, SignalInit, Runs
  <2>5. QED
    BY <2>1, <2>2, <2>3, <2>4 DEF IInv
<1>4. CASE Block
  <2>1. /\ pc[Master] = "signalInit" /\ handlers[Master] = <<>> /\ installed[Master] = Signals
        /\ Goes(Master, "spawn") /\ UNCHANGED <<installed, pending, oldMask, handlers, ids, forks, sent>>
        /\ mask' = [mask EXCEPT ![Master] = @ \cup Masked]
    BY <1>4 DEF Block, Runs
  <2>2. TypeOK'
    BY <1>0, <2>1 DEF TypeOK, Goes, Places, ids, forks
  <2>3. GoodPlaces' /\ GoodIds'
    BY <1>0, <2>1 DEF TypeOK, GoodPlaces, GoodIds, Goes, MasterPlaces, ids, Processes
  <2>4. ASSUME NEW q \in Processes
        PROVE  GoodProcess(q)'
    <3>1. CASE q = Master
      <4>1. Good(pc[q], handlers[q], mask[q], oldMask)
        BY <1>1 DEF GoodProcess
      <4>2. mask[q] = {}
        BY <2>1, <3>1, <4>1 DEF Good, Gone, Base, MaskedPlaces
      <4>3. mask'[q] = Masked /\ pc'[q] = "spawn" /\ handlers'[q] = <<>> /\ oldMask' = oldMask
        BY <1>0, <2>1, <3>1, <4>2 DEF TypeOK, Goes
      <4>4. Good("spawn", <<>>, Masked, oldMask)
        BY <4>1 DEF Good, Gone, Base, MaskedPlaces
      <4>5. QED
        BY <4>3, <4>4 DEF GoodProcess
    <3>2. CASE q # Master
      BY <1>0, <1>1, <2>1, <3>2 DEF TypeOK, GoodProcess, Goes
    <3>3. QED
      BY <3>1, <3>2
  <2>5. \A q \in Processes : Ready(q)'
    BY <1>0, <1>1, <2>1 DEF TypeOK, Ready, Alive, Goes
  <2>6. QED
    BY <2>2, <2>3, <2>4, <2>5 DEF IInv
<1>5. CASE ForkFails
  <2>1. TypeOK'
    <3>1. spawned' = spawned + 1 /\ failed' = failed + 1
      BY <1>5 DEF ForkFails
    <3>2. spawned' \in Nat /\ failed' \in Nat
      BY <1>0, <3>1 DEF TypeOK
    <3>3. UNCHANGED <<pc, installed, mask, pending, oldMask, handlers, ngxPid, ngxPpid>>
      BY <1>5 DEF ForkFails, signals, ids
    <3>4. QED
      BY <1>0, <3>2, <3>3 DEF TypeOK
  <2>2. UNCHANGED <<pc, installed, mask, oldMask, handlers, ngxPid, ngxPpid>>
    BY <1>5 DEF ForkFails, signals, ids
  <2>3. GoodPlaces' /\ GoodIds'
    BY <1>0, <2>2 DEF GoodPlaces, GoodIds
  <2>4. \A q \in Processes : GoodProcess(q)' /\ Ready(q)'
    BY <1>1, <2>2 DEF GoodProcess, Ready, Alive
  <2>5. QED
    BY <2>1, <2>3, <2>4 DEF IInv
<1>6. CASE SpawnDone
  <2>1. pc[Master] = "spawn" /\ Goes(Master, "cycle") /\ UNCHANGED signals /\ UNCHANGED ids
    BY <1>6 DEF SpawnDone, Runs
  <2>2. TypeOK'
    <3>1. UNCHANGED <<spawned, failed>>
      BY <1>6 DEF SpawnDone, forks
    <3>2. UNCHANGED <<installed, mask, pending, oldMask, handlers, ngxPid, ngxPpid>>
      BY <2>1 DEF signals, ids
    <3>3. pc' \in [Processes -> Places]
      BY <1>0, <2>1 DEF TypeOK, Goes, Places
    <3>4. QED
      BY <1>0, <3>1, <3>2, <3>3 DEF TypeOK
  <2>3. GoodPlaces' /\ GoodIds'
    BY <1>0, <2>1 DEF TypeOK, GoodPlaces, GoodIds, Goes, MasterPlaces, ids, Processes
  <2>4. \A q \in Processes : GoodProcess(q)'
    BY <1>0, <2>1, PlaceKeeps DEF Goes, Gone, Base, MaskedPlaces
  <2>5. \A q \in Processes : Ready(q)'
    BY <1>0, <1>1, <2>1 DEF TypeOK, Ready, Alive, Goes, Gone, signals
  <2>6. QED
    BY <2>2, <2>3, <2>4, <2>5 DEF IInv
<1>7. CASE Suspend
  <2>1. /\ pc[Master] = "cycle" /\ handlers[Master] = <<>> /\ Goes(Master, "suspended")
        /\ oldMask' = mask[Master] /\ mask' = [mask EXCEPT ![Master] = {}]
        /\ UNCHANGED <<installed, pending, handlers, ids, forks, sent>>
    BY <1>7 DEF Suspend, Runs
  <2>2. TypeOK'
    BY <1>0, <2>1 DEF TypeOK, Goes, Places, ids, forks
  <2>3. GoodPlaces' /\ GoodIds'
    BY <1>0, <2>1 DEF TypeOK, GoodPlaces, GoodIds, Goes, MasterPlaces, ids, Processes
  <2>4. ASSUME NEW q \in Processes
        PROVE  GoodProcess(q)'
    <3>1. CASE q = Master
      <4>1. Good(pc[q], handlers[q], mask[q], oldMask)
        BY <1>1 DEF GoodProcess
      <4>2. mask[q] = Masked
        BY <2>1, <3>1, <4>1 DEF Good, Gone, Base, MaskedPlaces
      <4>3. mask'[q] = {} /\ pc'[q] = "suspended" /\ handlers'[q] = <<>> /\ oldMask' = Masked
        BY <1>0, <2>1, <3>1, <4>2 DEF TypeOK, Goes
      <4>4. Good("suspended", <<>>, {}, Masked)
        BY DEF Good, Gone, Base, MaskedPlaces
      <4>5. QED
        BY <4>3, <4>4 DEF GoodProcess
    <3>2. CASE q # Master
      <4>1. q \in Workers /\ pc[q] # "suspended"
        BY <1>0, <3>2 DEF GoodPlaces, WorkerPlaces, Processes
      <4>2. pc'[q] = pc[q] /\ mask'[q] = mask[q] /\ handlers'[q] = handlers[q]
        BY <1>0, <2>1, <3>2 DEF TypeOK, Goes
      <4>3. Good(pc[q], handlers[q], mask[q], oldMask')
        BY <1>1, <4>1 DEF GoodProcess, Good
      <4>4. QED
        BY <4>2, <4>3 DEF GoodProcess
    <3>3. QED
      BY <3>1, <3>2
  <2>5. \A q \in Processes : Ready(q)'
    BY <1>0, <1>1, <2>1 DEF TypeOK, Ready, Alive, Goes, Gone
  <2>6. QED
    BY <2>2, <2>3, <2>4, <2>5 DEF IInv
<1>8. CASE Load
  BY <1>8, QuietKeeps DEF Load, forks, signals, ids
<1>9. QED
  BY <1>2, <1>3, <1>4, <1>5, <1>6, <1>7, <1>8

-----------------------------------------------------------------------------
(* ... for fork and the steps of a worker, ... *)

LEMMA WorkerKeeps ==
  ASSUME IInv, NEW w \in Workers, Fork(w) \/ SetIds(w) \/ ProcessInit(w)
  PROVE  IInv'
<1> USE NginxAssumption
<1>0. TypeOK /\ GoodPlaces /\ GoodIds /\ Master \in Processes /\ w \in Processes /\ w # Master
  BY DEF IInv, Processes
<1>1. \A q \in Processes : GoodProcess(q) /\ Ready(q)
  BY DEF IInv
<1>2. CASE Fork(w)
  <2>1. /\ pc[Master] = "spawn" /\ handlers[Master] = <<>> /\ pc[w] = "unborn"
        /\ Goes(w, "born") /\ spawned' = spawned + 1
        /\ installed' = [installed EXCEPT ![w] = installed[Master]]
        /\ mask' = [mask EXCEPT ![w] = mask[Master]]
        /\ ngxPid' = [ngxPid EXCEPT ![w] = ngxPid[Master]]
        /\ ngxPpid' = [ngxPpid EXCEPT ![w] = ngxPpid[Master]]
        /\ UNCHANGED <<failed, pending, oldMask, handlers>>
    BY <1>2 DEF Fork, Runs
  <2>2. TypeOK'
    <3>1. spawned' \in Nat
      BY <1>0, <2>1 DEF TypeOK
    <3>2. pc' \in [Processes -> Places]
      BY <1>0, <2>1 DEF TypeOK, Goes, Places
    <3>3. /\ installed' \in [Processes -> SUBSET Signals] /\ mask' \in [Processes -> SUBSET Signals]
          /\ ngxPid' \in [Processes -> Processes] /\ ngxPpid' \in [Processes -> Processes \cup {Shell}]
      BY <1>0, <2>1 DEF TypeOK
    <3>4. QED
      BY <1>0, <2>1, <3>1, <3>2, <3>3 DEF TypeOK
  <2>3. GoodPlaces' /\ GoodIds'
    BY <1>0, <2>1 DEF TypeOK, GoodPlaces, GoodIds, Goes, WorkerPlaces, Processes
  <2>4. ASSUME NEW q \in Processes
        PROVE  GoodProcess(q)'
    <3>1. CASE q = w
      <4>1. Good(pc[Master], handlers[Master], mask[Master], oldMask) /\ handlers[w] = <<>>
        BY <1>0, <1>1, <2>1 DEF GoodProcess, Good, Gone
      <4>2. mask[Master] = Masked
        BY <2>1, <4>1 DEF Good, Gone, Base, MaskedPlaces
      <4>3. mask'[q] = Masked /\ pc'[q] = "born" /\ handlers'[q] = <<>> /\ oldMask' = oldMask
        BY <1>0, <2>1, <3>1, <4>1, <4>2 DEF TypeOK, Goes
      <4>4. Good("born", <<>>, Masked, oldMask)
        BY DEF Good, Gone, Base, MaskedPlaces
      <4>5. QED
        BY <4>3, <4>4 DEF GoodProcess
    <3>2. CASE q # w
      BY <1>0, <1>1, <2>1, <3>2 DEF TypeOK, GoodProcess, Goes
    <3>3. QED
      BY <3>1, <3>2
  <2>5. \A q \in Processes : Ready(q)'
    <3>1. installed[Master] = Signals
      BY <1>0, <1>1, <2>1 DEF Ready, Alive, Gone
    <3>2. QED
      BY <1>0, <1>1, <2>1, <3>1 DEF TypeOK, Ready, Alive, Goes
  <2>6. QED
    BY <2>2, <2>3, <2>4, <2>5 DEF IInv
<1>3. CASE SetIds(w)
  <2>1. /\ pc[w] = "born" /\ Goes(w, "printing") /\ UNCHANGED signals /\ UNCHANGED <<spawned, failed>>
        /\ ngxPpid' = [ngxPpid EXCEPT ![w] = ngxPid[w]]
        /\ ngxPid' = [ngxPid EXCEPT ![w] = w]
    BY <1>3 DEF SetIds, Runs, forks
  <2>2. TypeOK'
    <3>1. pc' \in [Processes -> Places]
      BY <1>0, <2>1 DEF TypeOK, Goes, Places
    <3>2. /\ ngxPid' \in [Processes -> Processes] /\ ngxPpid' \in [Processes -> Processes \cup {Shell}]
      BY <1>0, <2>1 DEF TypeOK
    <3>3. UNCHANGED <<installed, mask, pending, oldMask, handlers>>
      BY <2>1 DEF signals
    <3>4. QED
      BY <1>0, <2>1, <3>1, <3>2, <3>3 DEF TypeOK
  <2>3. GoodPlaces' /\ GoodIds'
    BY <1>0, <2>1 DEF TypeOK, GoodPlaces, GoodIds, Goes, WorkerPlaces, Processes
  <2>4. \A q \in Processes : GoodProcess(q)'
    BY <1>0, <2>1, PlaceKeeps DEF Goes, Gone, Base, MaskedPlaces
  <2>5. \A q \in Processes : Ready(q)'
    BY <1>0, <1>1, <2>1 DEF TypeOK, Ready, Alive, Goes, Gone, signals
  <2>6. QED
    BY <2>2, <2>3, <2>4, <2>5 DEF IInv
<1>4. CASE ProcessInit(w)
  <2>1. /\ pc[w] = "printing" /\ handlers[w] = <<>> /\ Goes(w, "working")
        /\ mask' = [mask EXCEPT ![w] = {}]
        /\ UNCHANGED <<installed, pending, oldMask, handlers, ngxPid, ngxPpid, spawned, failed>>
    BY <1>4 DEF ProcessInit, Runs, forks, ids
  <2>2. TypeOK'
    BY <1>0, <2>1 DEF TypeOK, Goes, Places
  <2>3. GoodPlaces' /\ GoodIds'
    BY <1>0, <2>1 DEF TypeOK, GoodPlaces, GoodIds, Goes, WorkerPlaces, Processes
  <2>4. ASSUME NEW q \in Processes
        PROVE  GoodProcess(q)'
    <3>1. CASE q = w
      <4>1. mask'[q] = {} /\ pc'[q] = "working" /\ handlers'[q] = <<>> /\ oldMask' = oldMask
        BY <1>0, <2>1, <3>1 DEF TypeOK, Goes
      <4>2. Good("working", <<>>, {}, oldMask)
        BY DEF Good, Gone, Base, MaskedPlaces
      <4>3. QED
        BY <4>1, <4>2 DEF GoodProcess
    <3>2. CASE q # w
      BY <1>0, <1>1, <2>1, <3>2 DEF TypeOK, GoodProcess, Goes
    <3>3. QED
      BY <3>1, <3>2
  <2>5. \A q \in Processes : Ready(q)'
    BY <1>0, <1>1, <2>1 DEF TypeOK, Ready, Alive, Goes, Gone
  <2>6. QED
    BY <2>2, <2>3, <2>4, <2>5 DEF IInv
<1>5. QED
  BY <1>2, <1>3, <1>4

-----------------------------------------------------------------------------
(* ... and for signals and the ends of processes. *)

LEMMA SignalKeeps ==
  ASSUME IInv, NEW p \in Processes, NEW s \in Signals,
         Send(p, s) \/ Enter(p, s) \/ Default(p, s) \/ Return(p) \/ Crash(p)
  PROVE  IInv'
<1> USE NginxAssumption
<1>0. TypeOK /\ GoodPlaces /\ GoodIds
  BY DEF IInv
<1>1. \A q \in Processes : GoodProcess(q) /\ Ready(q)
  BY DEF IInv
<1>2. ASSUME pending' \in [Processes -> SUBSET Signals],
             UNCHANGED <<pc, spawned, failed, installed, mask, oldMask, handlers, ngxPid, ngxPpid>>
      PROVE  IInv'
  <2>1. TypeOK'
    BY <1>0, <1>2 DEF TypeOK
  <2>2. GoodPlaces' /\ GoodIds'
    BY <1>0, <1>2 DEF GoodPlaces, GoodIds
  <2>3. \A q \in Processes : GoodProcess(q)' /\ Ready(q)'
    BY <1>1, <1>2 DEF GoodProcess, Ready, Alive
  <2>4. QED
    BY <2>1, <2>2, <2>3 DEF IInv
<1>3. ASSUME End(p), Alive(p)
      PROVE  IInv'
  <2>1. /\ Goes(p, "dead") /\ handlers' = [handlers EXCEPT ![p] = <<>>]
        /\ UNCHANGED <<spawned, failed, installed, mask, oldMask, ngxPid, ngxPpid>>
    BY <1>3 DEF End, forks, ids
  <2>2. TypeOK'
    <3>1. pending' \in [Processes -> SUBSET Signals]
      BY <1>0, <1>3 DEF TypeOK, End
    <3>2. handlers' \in [Processes -> Seq([signal : Signals, saved : SUBSET Signals])]
      <4>1. <<>> \in Seq([signal : Signals, saved : SUBSET Signals])
        OBVIOUS
      <4>2. QED
        BY <1>0, <2>1, <4>1 DEF TypeOK
    <3>3. pc' \in [Processes -> Places]
      BY <1>0, <2>1 DEF TypeOK, Goes, Places, Gone
    <3>4. QED
      BY <1>0, <2>1, <3>1, <3>2, <3>3 DEF TypeOK
  <2>3. GoodPlaces' /\ GoodIds'
    BY <1>0, <2>1 DEF TypeOK, GoodPlaces, GoodIds, Goes, MasterPlaces, WorkerPlaces, Processes
  <2>4. ASSUME NEW q \in Processes
        PROVE  GoodProcess(q)'
    <3>1. CASE q = p
      <4>1. pc'[q] = "dead" /\ handlers'[q] = <<>> /\ mask'[q] \in SUBSET Signals
        BY <1>0, <2>1, <3>1 DEF TypeOK, Goes
      <4>2. QED
        BY <4>1 DEF GoodProcess, Good, Gone, MaskedPlaces
    <3>2. CASE q # p
      BY <1>0, <1>1, <2>1, <3>2 DEF TypeOK, GoodProcess, Goes
    <3>3. QED
      BY <3>1, <3>2
  <2>5. \A q \in Processes : Ready(q)'
    BY <1>0, <1>1, <2>1 DEF TypeOK, Ready, Alive, Goes, Gone
  <2>6. QED
    BY <2>2, <2>3, <2>4, <2>5 DEF IInv
<1>4. CASE Send(p, s)
  <2>1. pending' \in [Processes -> SUBSET Signals]
    BY <1>0, <1>4 DEF TypeOK, Send
  <2>2. QED
    BY <1>2, <1>4, <2>1 DEF Send, forks, ids
<1>5. CASE Default(p, s)
  <2>1. CASE s \in IgnoredByDefault
    <3>0. pending' = [pending EXCEPT ![p] = @ \ {s}]
      BY <1>5, <2>1 DEF Default
    <3>1. pending' \in [Processes -> SUBSET Signals]
      BY <1>0, <3>0 DEF TypeOK
    <3>2. QED
      BY <1>2, <1>5, <2>1, <3>1 DEF Default, forks, ids
  <2>2. CASE s \notin IgnoredByDefault
    BY <1>3, <1>5, <2>2 DEF Default, Due
  <2>3. QED
    BY <2>1, <2>2
<1>6. CASE Crash(p)
  BY <1>3, <1>6 DEF Crash
<1>7. CASE Enter(p, s)
  <2> DEFINE frame == [signal |-> s, saved |-> Interrupted(p)]
  <2>1. /\ Alive(p) /\ s \in Signals \ mask[p]
        /\ pending' = [pending EXCEPT ![p] = @ \ {s}]
        /\ handlers' = [handlers EXCEPT ![p] = Append(@, frame)]
        /\ mask' = [mask EXCEPT ![p] = @ \cup {s}]
        /\ UNCHANGED <<pc, spawned, failed, installed, oldMask, ngxPid, ngxPpid>>
    BY <1>7 DEF Enter, Due, forks, ids
  <2>2. Interrupted(p) = IF pc[p] = "suspended" /\ handlers[p] = <<>> THEN oldMask ELSE mask[p]
    BY DEF Interrupted
  <2>3. Good(pc[p], Append(handlers[p], frame), mask[p] \cup {s}, oldMask)
    <3>1. Good(pc[p], handlers[p], mask[p], oldMask)
      BY <1>1 DEF GoodProcess
    <3>2. pc[p] \notin Gone /\ oldMask \in SUBSET Signals
      BY <1>0, <2>1 DEF Alive, TypeOK
    <3>3. QED
      BY <2>1, <2>2, <3>1, <3>2, EnterGood
  <2>4. TypeOK'
    <3>1. Append(handlers[p], frame) \in Seq([signal : Signals, saved : SUBSET Signals])
      BY <2>3 DEF Good, Frames
    <3>2. handlers' \in [Processes -> Seq([signal : Signals, saved : SUBSET Signals])]
      BY <1>0, <2>1, <3>1 DEF TypeOK
    <3>3. pending' \in [Processes -> SUBSET Signals] /\ mask' \in [Processes -> SUBSET Signals]
      BY <1>0, <2>1 DEF TypeOK
    <3>4. QED
      BY <1>0, <2>1, <3>2, <3>3 DEF TypeOK
  <2>5. GoodPlaces' /\ GoodIds'
    BY <1>0, <2>1 DEF GoodPlaces, GoodIds
  <2>6. ASSUME NEW q \in Processes
        PROVE  GoodProcess(q)'
    <3>1. CASE q = p
      <4>1. handlers'[q] = Append(handlers[p], frame) /\ mask'[q] = mask[p] \cup {s}
        BY <1>0, <2>1, <3>1 DEF TypeOK
      <4>2. QED
        BY <2>1, <2>3, <3>1, <4>1 DEF GoodProcess
    <3>2. CASE q # p
      BY <1>0, <1>1, <2>1, <3>2 DEF TypeOK, GoodProcess
    <3>3. QED
      BY <3>1, <3>2
  <2>7. \A q \in Processes : Ready(q)'
    BY <1>1, <2>1 DEF Ready, Alive
  <2>8. QED
    BY <2>4, <2>5, <2>6, <2>7 DEF IInv
<1>8. CASE Return(p)
  <2> DEFINE top == Len(handlers[p])
             to == IF top = 1 /\ pc[p] = "suspended" THEN "cycle" ELSE pc[p]
             rest == SubSeq(handlers[p], 1, top - 1)
             back == handlers[p][top].saved
  <2>1. /\ Alive(p) /\ handlers[p] # <<>>
        /\ mask' = [mask EXCEPT ![p] = back]
        /\ handlers' = [handlers EXCEPT ![p] = rest]
        /\ pc' = [pc EXCEPT ![p] = to]
        /\ UNCHANGED <<spawned, failed, installed, pending, oldMask, ngxPid, ngxPpid>>
    <3>1. IF top = 1 /\ pc[p] = "suspended" THEN Goes(p, "cycle") ELSE UNCHANGED pc
      BY <1>8 DEF Return
    <3>2. pc' = [pc EXCEPT ![p] = to]
      BY <1>0, <3>1 DEF TypeOK, Goes
    <3>3. QED
      BY <1>8, <3>2 DEF Return, forks, ids
  <2>2. Good(to, rest, back, oldMask)
    <3>1. Good(pc[p], handlers[p], mask[p], oldMask) /\ pc[p] \notin Gone
      BY <1>1, <2>1 DEF GoodProcess, Alive
    <3>2. QED
      BY <2>1, <3>1, ReturnGood
  <2>3. to \in Places /\ (to = pc[p] \/ (pc[p] = "suspended" /\ to = "cycle"))
    BY <1>0 DEF TypeOK, Places
  <2> HIDE DEF to, rest, back
  <2>4. TypeOK'
    <3>1. rest \in Seq([signal : Signals, saved : SUBSET Signals]) /\ back \in SUBSET Signals
      BY <2>2 DEF Good, Frames
    <3>2. handlers' \in [Processes -> Seq([signal : Signals, saved : SUBSET Signals])]
      BY <1>0, <2>1, <3>1 DEF TypeOK
    <3>3. pc' \in [Processes -> Places] /\ mask' \in [Processes -> SUBSET Signals]
      BY <1>0, <2>1, <2>3, <3>1 DEF TypeOK
    <3>4. QED
      BY <1>0, <2>1, <3>2, <3>3 DEF TypeOK
  <2>5. GoodPlaces' /\ GoodIds'
    BY <1>0, <2>1, <2>3 DEF TypeOK, GoodPlaces, GoodIds, MasterPlaces, WorkerPlaces, Processes
  <2>6. ASSUME NEW q \in Processes
        PROVE  GoodProcess(q)'
    <3>1. CASE q = p
      <4>1. handlers'[q] = rest /\ mask'[q] = back /\ pc'[q] = to
        BY <1>0, <2>1, <3>1 DEF TypeOK
      <4>2. QED
        BY <2>1, <2>2, <4>1 DEF GoodProcess
    <3>2. CASE q # p
      BY <1>0, <1>1, <2>1, <3>2 DEF TypeOK, GoodProcess
    <3>3. QED
      BY <3>1, <3>2
  <2>7. \A q \in Processes : Ready(q)'
    <3>1. \A q \in Processes : (q = p => pc'[q] = to) /\ (q # p => pc'[q] = pc[q])
      BY <1>0, <2>1 DEF TypeOK
    <3>2. QED
      BY <1>1, <2>1, <2>3, <3>1 DEF Ready, Alive, Gone
  <2>8. QED
    BY <2>4, <2>5, <2>6, <2>7 DEF IInv
<1>9. QED
  BY <1>4, <1>5, <1>6, <1>7, <1>8

-----------------------------------------------------------------------------
(* The theorems. *)

LEMMA NextKeeps == IInv /\ [Next]_vars => IInv'
<1> SUFFICES ASSUME IInv, [Next]_vars PROVE IInv'
  OBVIOUS
<1>0. PICK any \in Signals : TRUE
  BY NginxAssumption
<1>1. ASSUME NEW p \in Processes, ProcessStep(p)
      PROVE  IInv'
  <2>1. CASE Load \/ LoadDone \/ (\E s \in Signals : SignalInit(s)) \/ Block \/ ForkFails \/ SpawnDone \/ Suspend
    BY <2>1, MasterKeeps
  <2>2. CASE \E w \in Workers : Fork(w) \/ SetIds(w) \/ ProcessInit(w)
    BY <2>2, WorkerKeeps
  <2>3. CASE Return(p) \/ \E s \in Signals : Enter(p, s) \/ Default(p, s)
    BY <1>0, <2>3, SignalKeeps
  <2>4. QED
    BY <1>1, <2>1, <2>2, <2>3 DEF ProcessStep
<1>2. ASSUME NEW p \in Processes, Crash(p)
      PROVE  IInv'
  BY <1>0, <1>2, SignalKeeps
<1>3. ASSUME NEW p \in Processes, NEW s \in Signals, Send(p, s)
      PROVE  IInv'
  BY <1>3, SignalKeeps
<1>4. CASE UNCHANGED vars
  BY <1>4, QuietKeeps DEF vars, forks, signals, ids
<1>5. QED
  BY <1>1, <1>2, <1>3, <1>4 DEF Next

LEMMA Inductive == Spec => []IInv
  BY InitGood, NextKeeps, PTL DEF Spec

\* Every variable keeps its type, the stacks of handlers included.
THEOREM NginxTypeCorrect == Spec => []TypeOK
<1>1. IInv => TypeOK
  BY DEF IInv
<1>2. QED
  BY <1>1, Inductive, PTL

\* No handler of a signal that the master blocks ever runs in a process that is
\* made, on either side of fork, or between two turns of sigsuspend.
THEOREM MakingUndisturbed == Spec => []SpawnUndisturbed
<1>1. IInv => SpawnUndisturbed
  <2> SUFFICES ASSUME IInv, NEW p \in Processes, pc[p] \in MaskedPlaces, NEW i \in DOMAIN handlers[p]
               PROVE  handlers[p][i].signal \notin Masked
    BY DEF SpawnUndisturbed, MaskedPlaces
  <2>1. Good(pc[p], handlers[p], mask[p], oldMask)
    BY DEF IInv, GoodProcess
  <2>2. i \in 1..Len(handlers[p])
    BY <2>1 DEF Good
  <2>3. QED
    BY <2>1, <2>2 DEF Good
<1>2. QED
  BY <1>1, Inductive, PTL

\* A worker that works has every handler, blocks nothing outside its handlers, and
\* has the right ids, whatever interrupted it on the way.
THEOREM WorkersReady == Spec => []WorkerReady
<1>1. IInv => WorkerReady
  <2> SUFFICES ASSUME IInv, NEW w \in Workers, pc[w] = "working"
               PROVE  /\ installed[w] = Signals
                      /\ handlers[w] = <<>> => mask[w] = {}
                      /\ ngxPid[w] = w /\ ngxPpid[w] = Master
    BY DEF WorkerReady
  <2>1. w \in Processes
    BY DEF Processes
  <2>2. Good(pc[w], handlers[w], mask[w], oldMask) /\ Ready(w) /\ GoodIds
    BY <2>1 DEF IInv, GoodProcess
  <2>3. QED
    BY <2>2 DEF Good, Ready, Alive, Gone, GoodIds, Base, MaskedPlaces
<1>2. QED
  BY <1>1, Inductive, PTL

\* However handlers interrupt each other, the master blocks its signals again
\* whenever it has left sigsuspend, and no signal of the table ends a process.
THEOREM MasksRestored == Spec => []MaskRestored
<1>1. IInv => MaskRestored
  <2> SUFFICES ASSUME IInv PROVE MaskRestored
    OBVIOUS
  <2>1. Master \in Processes /\ \A p \in Processes : GoodProcess(p) /\ Ready(p)
    BY DEF IInv, Processes
  <2>2. pc[Master] = "cycle" /\ handlers[Master] = <<>> => mask[Master] = Masked
    BY <2>1 DEF GoodProcess, Good, Gone, Base, MaskedPlaces
  <2>3. QED
    BY <2>1, <2>2 DEF MaskRestored, Ready
<1>2. QED
  BY <1>1, Inductive, PTL

-----------------------------------------------------------------------------
(* What Load has kept. *)

LEMMA Least ==
  ASSUME NEW S \in SUBSET Nat, S # {}
  PROVE  \E x \in S : \A y \in S : x <= y
<1> DEFINE R == OpToRel(<, Nat)
<1>1. IsWellFoundedOn(R, Nat)
  BY NatLessThanWellFounded, Zenon
<1>2. \A x, y \in Nat : <<x, y>> \in R <=> x < y
  BY DEF OpToRel
<1> HIDE DEF R
<1>3. PICK x \in S : \A y \in S : ~(<<y, x>> \in R)
  BY <1>1, WFMin
<1>4. ASSUME NEW y \in S PROVE x <= y
  <2>1. x \in Nat /\ y \in Nat
    OBVIOUS
  <2>2. <<y, x>> \in R <=> y < x
    BY <1>2, <2>1
  <2>3. QED
    BY <1>3, <2>1, <2>2
<1>5. QED
  BY <1>4

Lines == [kind : STRING, name : STRING, value : Int]

\* list holds the items among the first k lines of f, each once, in their order:
\* at says from which line each comes.
Picks(list, f, k, at) ==
  /\ list \in Seq(Lines) /\ at \in [1..Len(list) -> 1..k]
  /\ \A i, j \in 1..Len(list) : i < j => at[i] < at[j]
  /\ \A i \in 1..Len(list) : list[i] = f[at[i]]
  /\ \A m \in 1..k : IsItem(f[m]) <=> \E i \in 1..Len(list) : at[i] = m

\* One more line of the file.
LEMMA PickNext ==
  ASSUME NEW f \in Seq(Lines), NEW k \in Nat, k < Len(f), NEW list, NEW at, Picks(list, f, k, at)
  PROVE  \E new : Picks(IF IsItem(f[k + 1]) THEN Append(list, f[k + 1]) ELSE list, f, k + 1, new)
<1>1. list \in Seq(Lines) /\ Len(list) \in Nat /\ f[k + 1] \in Lines
  BY DEF Picks
<1>2. PICK n \in Nat : n = Len(list)
  BY <1>1
<1>3. CASE ~IsItem(f[k + 1])
  <2>1. at \in [1..n -> 1..(k + 1)]
    BY <1>2 DEF Picks
  <2>2. ASSUME NEW m \in 1..(k + 1) PROVE IsItem(f[m]) <=> \E i \in 1..n : at[i] = m
    <3>1. CASE m \in 1..k
      BY <1>2, <3>1 DEF Picks
    <3>2. CASE m = k + 1
      <4>1. \A i \in 1..n : at[i] \in 1..k
        BY <1>2 DEF Picks
      <4>2. \A i \in 1..n : at[i] # k + 1
        BY <4>1
      <4>3. QED
        BY <1>3, <3>2, <4>2
    <3>3. QED
      BY <3>1, <3>2
  <2>3. Picks(list, f, k + 1, at)
    BY <1>2, <2>1, <2>2 DEF Picks
  <2>4. QED
    BY <1>3, <2>3
<1>4. CASE IsItem(f[k + 1])
  <2> DEFINE list2 == Append(list, f[k + 1])
             at2 == [i \in 1..(n + 1) |-> IF i = n + 1 THEN k + 1 ELSE at[i]]
  <2>1. list2 \in Seq(Lines) /\ Len(list2) = n + 1 /\ list2[n + 1] = f[k + 1]
        /\ \A i \in 1..n : list2[i] = list[i]
    BY <1>1, <1>2
  <2>2. \A i \in 1..n : at[i] \in 1..k
    BY <1>2 DEF Picks
  <2>3. at2[n + 1] = k + 1 /\ \A i \in 1..n : at2[i] = at[i]
    BY <1>2
  <2>4. at2 \in [1..(n + 1) -> 1..(k + 1)]
    BY <2>2
  <2> HIDE DEF at2
  <2>5. \A i, j \in 1..(n + 1) : i < j => at2[i] < at2[j]
    <3>1. ASSUME NEW i \in 1..(n + 1), NEW j \in 1..(n + 1), i < j PROVE at2[i] < at2[j]
      <4>1. i \in 1..n
        BY <3>1
      <4>2. CASE j = n + 1
        BY <2>2, <2>3, <4>1, <4>2
      <4>3. CASE j # n + 1
        <5>1. j \in 1..n
          BY <4>3
        <5>2. at[i] < at[j]
          BY <1>2, <3>1, <4>1, <5>1 DEF Picks
        <5>3. QED
          BY <2>3, <4>1, <5>1, <5>2
      <4>4. QED
        BY <4>2, <4>3
    <3>2. QED
      BY <3>1
  <2>6. \A i \in 1..(n + 1) : list2[i] = f[at2[i]]
    <3>1. \A i \in 1..n : list[i] = f[at[i]]
      BY <1>2 DEF Picks
    <3>2. \A i \in 1..(n + 1) : i \in 1..n \/ i = n + 1
      BY <1>2
    <3>3. QED
      BY <2>1, <2>3, <3>1, <3>2
  <2>7. ASSUME NEW m \in 1..(k + 1) PROVE IsItem(f[m]) <=> \E i \in 1..(n + 1) : at2[i] = m
    <3>1. CASE m = k + 1
      BY <1>2, <1>4, <2>3, <3>1
    <3>2. CASE m # k + 1
      <4>1. m \in 1..k
        BY <3>2
      <4>2. IsItem(f[m]) <=> \E i \in 1..n : at[i] = m
        BY <1>2, <4>1 DEF Picks
      <4>3. \A i \in 1..(n + 1) : at2[i] = m => i \in 1..n
        BY <2>3, <3>2
      <4>4. \A i \in 1..n : i \in 1..(n + 1)
        BY <1>2
      <4>5. QED
        BY <2>3, <4>2, <4>3, <4>4
    <3>3. QED
      BY <3>1, <3>2
  <2>8. Picks(list2, f, k + 1, at2)
    BY <2>1, <2>4, <2>5, <2>6, <2>7 DEF Picks
  <2>9. QED
    BY <1>4, <2>8
<1>5. QED
  BY <1>3, <1>4

-----------------------------------------------------------------------------
(* The workers that the first item asks for. *)

\* What the file asks for, and how many workers that is.
Asked ==
  LET asked == {i \in DOMAIN file : file[i].kind = "item" /\ file[i].name = "workerprocesses"}
      first == {i \in asked : \A j \in asked : i <= j}
  IN IF asked = {} THEN 1 ELSE file[CHOOSE i \in first : TRUE].value

Quota == IF Asked < 0 THEN 0 ELSE Asked

\* The first of the items kept is the first item of the file.
LEMMA FirstPicked ==
  ASSUME file \in Seq(Lines), NEW at, Picks(confItemList, file, Len(file), at)
  PROVE  ToSpawn = Asked /\ Asked \in Int
<1>1. PICK n \in Nat : n = Len(confItemList)
  BY DEF Picks
<1>2. PICK k \in Nat : k = Len(file)
  OBVIOUS
<1> DEFINE named == {i \in DOMAIN confItemList : confItemList[i].name = "workerprocesses"}
           asked == {i \in DOMAIN file : file[i].kind = "item" /\ file[i].name = "workerprocesses"}
           first == {i \in asked : \A j \in asked : i <= j}
<1>3. DOMAIN confItemList = 1..n /\ DOMAIN file = 1..k
  BY <1>1, <1>2 DEF Picks
<1>4. \A i \in 1..n : at[i] \in 1..k /\ confItemList[i] = file[at[i]]
  BY <1>1, <1>2 DEF Picks
<1>5. \A i, j \in 1..n : i < j => at[i] < at[j]
  BY <1>1 DEF Picks
<1>6. \A m \in 1..k : file[m].kind = "item" <=> \E i \in 1..n : at[i] = m
  BY <1>1, <1>2 DEF Picks, IsItem
<1>7. ToSpawn = IF named = {} THEN 1
                ELSE confItemList[CHOOSE i \in named : \A j \in named : i <= j].value
  BY DEF ToSpawn, GetIntDefault
<1>8. Asked = IF asked = {} THEN 1 ELSE file[CHOOSE i \in first : TRUE].value
  BY DEF Asked
<1>9. \A i \in named : at[i] \in asked
  BY <1>3, <1>4, <1>6
<1>10. ASSUME NEW m \in asked PROVE \E i \in named : at[i] = m
  <2>1. PICK i \in 1..n : at[i] = m
    BY <1>3, <1>6
  <2>2. QED
    BY <1>3, <1>4, <2>1
<1>11. CASE named = {}
  <2>1. asked = {}
    BY <1>10, <1>11
  <2>2. QED
    BY <1>7, <1>8, <1>11, <2>1
<1>12. CASE named # {}
  <2>1. named \in SUBSET Nat
    BY <1>3
  <2> DEFINE a == CHOOSE i \in named : \A j \in named : i <= j
             b == CHOOSE i \in first : TRUE
  <2>2. a \in named /\ \A j \in named : a <= j
    <3> HIDE DEF named
    <3>1. \E i \in named : \A j \in named : i <= j
      BY <1>12, <2>1, Least
    <3>2. QED
      BY <3>1
  <2> HIDE DEF a
  <2>3. at[a] \in asked
    BY <1>9, <2>2
  <2>4. ASSUME NEW m \in asked PROVE at[a] <= m
    <3>1. PICK i \in named : at[i] = m
      BY <1>10
    <3>2. a \in 1..n /\ i \in 1..n /\ a <= i
      BY <1>3, <2>2
    <3>3. a = i \/ at[a] < at[i]
      BY <1>5, <3>2
    <3>4. at[a] \in 1..k /\ at[i] \in 1..k
      BY <1>4, <3>2
    <3>5. QED
      BY <3>1, <3>3, <3>4
  <2>5. at[a] \in first
    BY <2>3, <2>4
  <2>6. b \in first
    BY <2>5
  <2>7. b \in asked /\ b <= at[a] /\ at[a] <= b /\ b \in Nat /\ at[a] \in Nat
    BY <1>3, <2>3, <2>4, <2>6
  <2> HIDE DEF b
  <2>8. b = at[a]
    BY <2>7
  <2>9. ToSpawn = confItemList[a].value
    BY <1>7, <1>12 DEF a
  <2>10. asked # {} /\ Asked = file[b].value
    BY <1>8, <2>3 DEF b
  <2>11. confItemList[a] = file[b] /\ file[b] \in Lines
    <3>1. a \in 1..n
      BY <1>3, <2>2
    <3>2. at[a] \in 1..k
      BY <1>4, <3>1
    <3>3. QED
      BY <1>2, <1>4, <2>8, <3>1, <3>2
  <2>12. file[b].value \in Int
    BY <2>11 DEF Lines
  <2>13. QED
    BY <2>9, <2>10, <2>11, <2>12
<1>13. QED
  BY <1>11, <1>12

Made == {w \in Workers : pc[w] # "unborn"}

Configured == {"signalInit", "spawn", "cycle", "suspended"}

Counted ==
  /\ file \in Files /\ read \in Nat
  /\ file # NoFile => file \in Seq(Lines) /\ read <= Len(file) /\ \E at : Picks(confItemList, file, read, at)
  /\ pc[Master] \in Configured => file # NoFile /\ read = Len(file)
  /\ IsFiniteSet(Made) /\ spawned = Cardinality(Made) + failed
  /\ pc[Master] \in {"load", "signalInit"} => spawned = 0
  /\ pc[Master] = "spawn" => spawned <= Quota
  /\ pc[Master] \in {"cycle", "suspended"} => spawned = Quota

LEMMA InitCounted == Init => Counted
<1> SUFFICES ASSUME Init PROVE Counted
  OBVIOUS
<1>1. pc[Master] = "load" /\ Made = {}
  <2>1. Master \in Processes /\ \A w \in Workers : w \in Processes /\ w # Master
    BY NginxAssumption DEF Processes
  <2>2. QED
    BY <2>1 DEF Init, Made
<1>2. file \in Files /\ (file = NoFile \/ file \in Seq(Lines))
  BY NginxAssumption DEF Init, Lines
<1>3. ASSUME file # NoFile PROVE 0 <= Len(file) /\ Picks(<<>>, file, 0, [i \in {} |-> i])
  <2>1. 1..0 = {} /\ Len(<<>>) = 0 /\ <<>> \in Seq(Lines)
    OBVIOUS
  <2>2. \A m \in {} : IsItem(file[m]) <=> \E i \in {} : [j \in {} |-> j][i] = m
    OBVIOUS
  <2>3. [i \in {} |-> i] \in [1..Len(<<>>) -> 1..0]
    BY <2>1
  <2>4. Len(file) \in Nat
    BY <1>2, <1>3
  <2>5. QED
    BY <2>1, <2>2, <2>3, <2>4 DEF Picks
<1>4. read = 0 /\ confItemList = <<>> /\ spawned = 0 /\ failed = 0
  BY DEF Init
<1>5. file # NoFile => read <= Len(file) /\ \E at : Picks(confItemList, file, read, at)
  BY <1>3, <1>4
<1>6. IsFiniteSet(Made) /\ Cardinality(Made) = 0
  BY <1>1, FS_EmptySet
<1>7. QED
  BY <1>1, <1>2, <1>4, <1>5, <1>6 DEF Counted, Configured

\* A step that moves no worker out of "unborn" and the master only where no count
\* is made.
Passes(from, to) ==
  \/ to = from \/ to \in {"exited", "dead"}
  \/ from = "signalInit" /\ to = "spawn"
  \/ {from, to} \subseteq {"cycle", "suspended"}

LEMMA PassCounted ==
  ASSUME Counted, UNCHANGED <<files, forks>>, Passes(pc[Master], pc'[Master]),
         \A w \in Workers : pc[w] = "unborn" <=> pc'[w] = "unborn"
  PROVE  Counted'
<1>1. UNCHANGED <<file, read, confItemList, spawned, failed>>
  BY DEF files, forks
<1>2. Made' = Made
  BY DEF Made
<1>3. Asked' = Asked /\ Quota' = Quota
  BY <1>1 DEF Asked, Quota
<1>4. (\E at : Picks(confItemList, file, read, at)) => (\E at : Picks(confItemList, file, read, at))'
  BY <1>1
<1>5. pc'[Master] \in Configured => pc[Master] \in Configured
  BY DEF Passes, Configured
<1>6. /\ pc'[Master] \in {"load", "signalInit"} => pc[Master] \in {"load", "signalInit"}
      /\ pc'[Master] = "spawn" => pc[Master] \in {"signalInit", "spawn"}
      /\ pc'[Master] \in {"cycle", "suspended"} => pc[Master] \in {"cycle", "suspended"}
  BY DEF Passes
<1>7. pc[Master] = "signalInit" => spawned <= Quota
  <2>1. ASSUME pc[Master] = "signalInit" PROVE spawned = 0 /\ Quota \in Int /\ 0 <= Quota
    <3>1. file \in Seq(Lines) /\ read = Len(file) /\ spawned = 0
      BY <2>1 DEF Counted, Configured
    <3>2. PICK at : Picks(confItemList, file, read, at)
      BY <2>1 DEF Counted, Configured
    <3>3. Asked \in Int
      BY <3>1, <3>2, FirstPicked
    <3>4. QED
      BY <3>1, <3>3 DEF Quota
  <2>2. QED
    BY <2>1
<1>8. /\ (IsFiniteSet(Made) /\ spawned = Cardinality(Made) + failed)'
      /\ (pc[Master] \in {"load", "signalInit"} => spawned = 0)'
      /\ (pc[Master] = "spawn" => spawned <= Quota)'
      /\ (pc[Master] \in {"cycle", "suspended"} => spawned = Quota)'
  BY <1>1, <1>2, <1>3, <1>6, <1>7 DEF Counted
<1>9. /\ (file \in Files /\ read \in Nat)'
      /\ (pc[Master] \in Configured => file # NoFile /\ read = Len(file))'
  BY <1>1, <1>5 DEF Counted
<1>10. (file # NoFile => file \in Seq(Lines) /\ read <= Len(file) /\ \E at : Picks(confItemList, file, read, at))'
  BY <1>1, <1>4 DEF Counted
<1>11. QED
  BY <1>8, <1>9, <1>10 DEF Counted

LEMMA LoadCounted == ASSUME IInv, Counted, Load \/ LoadDone PROVE Counted'
<1>1. CASE Load
  <2>1. /\ pc[Master] = "load" /\ file # NoFile /\ read < Len(file) /\ read' = read + 1
        /\ confItemList' = IF IsItem(file[read + 1]) THEN Append(confItemList, file[read + 1])
                           ELSE confItemList
        /\ UNCHANGED <<file, pc, spawned, failed>>
    BY <1>1 DEF Load, Runs, forks
  <2>2. file \in Seq(Lines) /\ read \in Nat
    BY <2>1 DEF Counted
  <2>3. PICK at : Picks(confItemList, file, read, at)
    BY <2>1 DEF Counted
  <2>4. \E new : Picks(confItemList', file, read + 1, new)
    BY <2>1, <2>2, <2>3, PickNext
  <2>5. (\E new : Picks(confItemList, file, read, new))'
    BY <2>1, <2>4
  <2>6. Made' = Made
    BY <2>1 DEF Made
  <2>7. (file # NoFile => file \in Seq(Lines) /\ read <= Len(file) /\ \E new : Picks(confItemList, file, read, new))'
    BY <2>1, <2>2, <2>5
  <2>8. /\ (file \in Files /\ read \in Nat)'
        /\ (IsFiniteSet(Made) /\ spawned = Cardinality(Made) + failed)'
        /\ spawned' = 0
    BY <2>1, <2>2, <2>6 DEF Counted
  <2>9. QED
    BY <2>1, <2>7, <2>8 DEF Counted, Configured
<1>2. CASE LoadDone
  <2>1. UNCHANGED <<file, read, confItemList, spawned, failed>> /\ pc[Master] = "load"
    BY <1>2 DEF LoadDone, Runs, files, forks
  <2>2. /\ pc'[Master] = IF file = NoFile THEN "exited" ELSE "signalInit"
        /\ \A w \in Workers : pc'[w] = pc[w]
        /\ file # NoFile => read = Len(file)
    <3>1. Master \in Processes /\ \A w \in Workers : w \in Processes /\ w # Master
      BY NginxAssumption DEF Processes
    <3>2. pc \in [Processes -> Places]
      BY DEF IInv, TypeOK
    <3>3. QED
      BY <1>2, <3>1, <3>2 DEF LoadDone, Goes
  <2>3. Made' = Made
    BY <2>2 DEF Made
  <2>4. (\E new : Picks(confItemList, file, read, new))' <=> (\E new : Picks(confItemList, file, read, new))
    BY <2>1
  <2>5. (file # NoFile => file \in Seq(Lines) /\ read <= Len(file) /\ \E new : Picks(confItemList, file, read, new))'
    BY <2>1, <2>4 DEF Counted
  <2>6. /\ (file \in Files /\ read \in Nat)'
        /\ (IsFiniteSet(Made) /\ spawned = Cardinality(Made) + failed)'
        /\ spawned' = 0
    BY <2>1, <2>3 DEF Counted
  <2>7. pc'[Master] \in Configured => file' # NoFile /\ read' = Len(file')
    BY <2>1, <2>2 DEF Configured
  <2>8. QED
    BY <2>1, <2>2, <2>5, <2>6, <2>7 DEF Counted
<1>3. QED
  BY <1>1, <1>2

\* What the two outcomes of fork count.
LEMMA ForkCounted ==
  ASSUME IInv, Counted, ForkFails \/ \E w \in Workers : Fork(w)
  PROVE  Counted'
<1>1. /\ pc[Master] = "spawn" /\ spawned < ToSpawn /\ spawned' = spawned + 1
      /\ UNCHANGED <<file, read, confItemList>>
  BY DEF ForkFails, Fork, Runs, files
<1>2. Master \in Processes /\ \A w \in Workers : w \in Processes /\ w # Master
  BY NginxAssumption DEF Processes
<1>3. pc \in [Processes -> Places] /\ spawned \in Nat /\ failed \in Nat
  BY DEF IInv, TypeOK
<1>4. file \in Seq(Lines) /\ file # NoFile /\ read = Len(file) /\ spawned = Cardinality(Made) + failed /\ IsFiniteSet(Made)
  BY <1>1 DEF Counted, Configured
<1>5. PICK at : Picks(confItemList, file, read, at)
  BY <1>1, <1>4 DEF Counted
<1>6. ToSpawn = Asked /\ Asked \in Int
  BY <1>4, <1>5, FirstPicked
<1>7. Asked' = Asked /\ Quota' = Quota
  BY <1>1 DEF Asked, Quota
<1>8. spawned' <= Quota'
  BY <1>1, <1>3, <1>6, <1>7 DEF Quota
<1>9. pc'[Master] = "spawn" /\ IsFiniteSet(Made') /\ spawned' = Cardinality(Made') + failed'
  <2>1. CASE ForkFails
    <3>1. pc' = pc /\ failed' = failed + 1
      BY <2>1 DEF ForkFails
    <3>2. Made' = Made
      BY <3>1 DEF Made
    <3>3. Cardinality(Made) \in Nat
      BY <1>4, FS_CardinalityType
    <3>4. \A c, f, t \in Nat : t = c + f => t + 1 = c + (f + 1)
      OBVIOUS
    <3>5. spawned' = Cardinality(Made) + failed'
      <4>1. failed' = failed + 1 /\ spawned' = spawned + 1 /\ spawned = Cardinality(Made) + failed
        BY <1>1, <1>4, <3>1
      <4>2. spawned + 1 = Cardinality(Made) + (failed + 1)
        BY <1>3, <1>4, <3>3, <3>4
      <4>3. QED
        BY <4>1, <4>2
    <3>6. QED
      BY <1>1, <1>4, <3>1, <3>2, <3>5
  <2>2. ASSUME NEW w \in Workers, Fork(w)
        PROVE  pc'[Master] = "spawn" /\ IsFiniteSet(Made') /\ spawned' = Cardinality(Made') + failed'
    <3>1. pc[w] = "unborn" /\ pc' = [pc EXCEPT ![w] = "born"] /\ failed' = failed
      BY <2>2 DEF Fork, Goes
    <3>2. pc'[w] = "born" /\ \A q \in Processes : q # w => pc'[q] = pc[q]
      BY <1>2, <1>3, <3>1
    <3>3. Made' = Made \cup {w} /\ w \notin Made
      BY <1>2, <3>1, <3>2 DEF Made
    <3>4. IsFiniteSet(Made \cup {w}) /\ Cardinality(Made \cup {w}) = Cardinality(Made) + 1
      BY <1>4, <3>3, FS_AddElement
    <3>5. Cardinality(Made) \in Nat
      BY <1>4, FS_CardinalityType
    <3>6. QED
      BY <1>1, <1>2, <1>3, <1>4, <3>1, <3>2, <3>3, <3>4, <3>5
  <2>3. QED
    BY <2>1, <2>2
<1>10. (\E new : Picks(confItemList, file, read, new))'
  BY <1>1, <1>5
<1>11. /\ (file \in Files /\ read \in Nat)'
       /\ (file # NoFile => file \in Seq(Lines) /\ read <= Len(file) /\ \E new : Picks(confItemList, file, read, new))'
       /\ (file # NoFile /\ read = Len(file))'
  BY <1>1, <1>4, <1>10 DEF Counted
<1>12. QED
  BY <1>8, <1>9, <1>11 DEF Counted

LEMMA SpawnDoneCounted == ASSUME IInv, Counted, SpawnDone PROVE Counted'
<1>1. /\ pc[Master] = "spawn" /\ spawned >= ToSpawn
      /\ UNCHANGED <<file, read, confItemList, spawned, failed>>
  BY DEF SpawnDone, Runs, files, forks
<1>2. pc'[Master] = "cycle" /\ \A w \in Workers : pc'[w] = pc[w]
  <2>1. Master \in Processes /\ \A w \in Workers : w \in Processes /\ w # Master
    BY NginxAssumption DEF Processes
  <2>2. pc \in [Processes -> Places]
    BY DEF IInv, TypeOK
  <2>3. QED
    BY <2>1, <2>2 DEF SpawnDone, Goes
<1>3. Made' = Made
  BY <1>2 DEF Made
<1>4. file \in Seq(Lines) /\ file # NoFile /\ read = Len(file) /\ spawned \in Nat /\ spawned <= Quota
  BY <1>1 DEF Counted, Configured, IInv, TypeOK
<1>5. PICK at : Picks(confItemList, file, read, at)
  BY <1>1, <1>4 DEF Counted
<1>6. ToSpawn = Asked /\ Asked \in Int
  BY <1>4, <1>5, FirstPicked
<1>7. Asked' = Asked /\ Quota' = Quota
  BY <1>1 DEF Asked, Quota
<1>8. spawned = Quota
  BY <1>1, <1>4, <1>6 DEF Quota
<1>9. (\E new : Picks(confItemList, file, read, new))'
  BY <1>1, <1>5
<1>10. /\ (file \in Files /\ read \in Nat)'
       /\ (file # NoFile => file \in Seq(Lines) /\ read <= Len(file) /\ \E new : Picks(confItemList, file, read, new))'
       /\ (file # NoFile /\ read = Len(file))'
       /\ (IsFiniteSet(Made) /\ spawned = Cardinality(Made) + failed)'
       /\ spawned' = Quota'
  BY <1>1, <1>3, <1>4, <1>7, <1>8, <1>9 DEF Counted
<1>11. QED
  BY <1>2, <1>10 DEF Counted

\* Every other step of a process.
LEMMA OtherCounted ==
  ASSUME IInv, Counted, NEW p \in Processes,
         \/ Block \/ Suspend \/ (\E s \in Signals : SignalInit(s))
         \/ p \in Workers /\ (SetIds(p) \/ ProcessInit(p))
         \/ Return(p) \/ Crash(p) \/ (\E s \in Signals : Enter(p, s) \/ Default(p, s) \/ Send(p, s))
         \/ UNCHANGED vars
  PROVE  Counted'
<1>0. Master \in Processes /\ \A w \in Workers : w \in Processes /\ w # Master
  BY NginxAssumption DEF Processes
<1>1. pc \in [Processes -> Places]
  BY DEF IInv, TypeOK
<1>2. CASE pc' = pc /\ UNCHANGED <<files, forks>>
  BY <1>2, PassCounted DEF Passes
<1>3. ASSUME UNCHANGED <<files, forks>>, NEW q \in Processes, NEW to, Goes(q, to),
             to # "unborn", pc[q] # "unborn",
             q = Master => Passes(pc[Master], to)
      PROVE  Counted'
  <2>1. pc'[q] = to /\ \A r \in Processes : r # q => pc'[r] = pc[r]
    BY <1>1, <1>3 DEF Goes
  <2>2. Passes(pc[Master], pc'[Master])
    BY <1>0, <1>3, <2>1 DEF Passes
  <2>3. \A w \in Workers : pc[w] = "unborn" <=> pc'[w] = "unborn"
    BY <1>0, <1>3, <2>1
  <2>4. QED
    BY <1>3, <2>2, <2>3, PassCounted
<1>4. ASSUME Alive(p), End(p)
      PROVE  Counted'
  <2>1. Goes(p, "dead") /\ UNCHANGED <<files, forks>> /\ pc[p] # "unborn"
    BY <1>4 DEF End, Alive, Gone
  <2>2. Passes(pc[Master], "dead") /\ "dead" # "unborn"
    BY DEF Passes
  <2>3. QED
    BY <1>3, <2>1, <2>2
<1>5. CASE Block
  <2>1. Goes(Master, "spawn") /\ UNCHANGED <<files, forks>> /\ pc[Master] = "signalInit"
    BY <1>5 DEF Block, Runs
  <2>2. QED
    BY <1>0, <1>3, <2>1 DEF Passes
<1>6. CASE Suspend
  <2>1. Goes(Master, "suspended") /\ UNCHANGED <<files, forks>> /\ pc[Master] = "cycle"
    BY <1>6 DEF Suspend, Runs
  <2>2. QED
    BY <1>0, <1>3, <2>1 DEF Passes
<1>7. CASE \E s \in Signals : SignalInit(s)
  BY <1>2, <1>7 DEF SignalInit
<1>8. CASE p \in Workers /\ (SetIds(p) \/ ProcessInit(p))
  <2>1. PICK to \in {"printing", "working"} : Goes(p, to)
    BY <1>8 DEF SetIds, ProcessInit
  <2>2. UNCHANGED <<files, forks>> /\ pc[p] \in {"born", "printing"}
    BY <1>8 DEF SetIds, ProcessInit, Runs
  <2>3. p # Master
    BY <1>0, <1>8
  <2>4. QED
    BY <1>3, <2>1, <2>2, <2>3
<1>9. CASE Return(p)
  <2>1. UNCHANGED <<files, forks>>
    BY <1>9 DEF Return
  <2>2. pc' = pc \/ (Goes(p, "cycle") /\ pc[p] = "suspended")
    BY <1>9 DEF Return
  <2>3. CASE Goes(p, "cycle") /\ pc[p] = "suspended"
    BY <1>3, <2>1, <2>3 DEF Passes
  <2>4. QED
    BY <1>2, <2>1, <2>2, <2>3
<1>10. CASE Crash(p)
  BY <1>4, <1>10 DEF Crash
<1>11. ASSUME NEW s \in Signals, Enter(p, s) \/ Default(p, s) \/ Send(p, s)
       PROVE  Counted'
  <2>1. CASE Enter(p, s)
    BY <1>2, <2>1 DEF Enter
  <2>2. CASE Default(p, s)
    <3>1. Alive(p)
      BY <2>2 DEF Default, Due
    <3>2. End(p) \/ (pc' = pc /\ UNCHANGED <<files, forks>>)
      BY <2>2 DEF Default
    <3>3. QED
      BY <1>2, <1>4, <3>1, <3>2
  <2>3. CASE Send(p, s)
    BY <1>2, <2>3 DEF Send
  <2>4. QED
    BY <1>11, <2>1, <2>2, <2>3
<1>12. CASE UNCHANGED vars
  BY <1>2, <1>12 DEF vars
<1>13. QED
  BY <1>5, <1>6, <1>7, <1>8, <1>9, <1>10, <1>11, <1>12

LEMMA StepCounted == IInv /\ Counted /\ [Next]_vars => Counted'
<1> SUFFICES ASSUME IInv, Counted, [Next]_vars PROVE Counted'
  OBVIOUS
<1>0. Master \in Processes
  BY DEF Processes
<1>1. ASSUME NEW p \in Processes, ProcessStep(p)
      PROVE  Counted'
  BY <1>1, LoadCounted, ForkCounted, SpawnDoneCounted, OtherCounted DEF ProcessStep
<1>2. ASSUME NEW p \in Processes, Crash(p)
      PROVE  Counted'
  BY <1>2, OtherCounted
<1>3. ASSUME NEW p \in Processes, NEW s \in Signals, Send(p, s)
      PROVE  Counted'
  BY <1>3, OtherCounted
<1>4. CASE UNCHANGED vars
  BY <1>0, <1>4, OtherCounted
<1>5. QED
  BY <1>1, <1>2, <1>3, <1>4 DEF Next

\* Whatever the file holds and whichever forks fail, the workers tried are those
\* that its first item asks for, when the master sleeps for the first time and ever
\* after.
THEOREM WorkersTried == Spec => []WorkersAsConfigured
<1>1. Counted => WorkersAsConfigured
  BY DEF Counted, WorkersAsConfigured, Made, Quota, Asked
<1>2. QED
  BY <1>1, InitCounted, StepCounted, Inductive, PTL DEF Spec

=============================================================================
