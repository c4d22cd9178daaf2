------------------------------- MODULE Nginx --------------------------------
(***************************************************************************)
(* The nginx program: main reads the configuration, installs the signal    *)
(* handlers, blocks the signals, forks the workers and then takes signals  *)
(* in sigsuspend only; a worker unblocks them and works.                   *)
(*                                                                         *)
(* A process runs its program, or the handlers of signals that have        *)
(* interrupted it, one over another, each with the mask it found.  A       *)
(* signal that is pending and not blocked is delivered before the process  *)
(* runs on, as Linux does it; a second one of the same kind is lost while  *)
(* the first is pending.  A handler calls printf and returns.              *)
(*                                                                         *)
(* What the processes log is the subject of NgxLog; process titles are not *)
(* modelled.  A configuration line is at most 500 characters long, as the  *)
(* comment in nginx.conf asks for.                                         *)
(***************************************************************************)
EXTENDS Integers, Sequences, FiniteSets

CONSTANTS
  Master, Workers,       \* process ids, those of the workers to be
  Shell,                 \* the process that started the master
  Signals,               \* of the table signals[]
  Masked,                \* those that the master blocks: all but SIGSYS
  IgnoredByDefault,
  SIGCHLD,
  Files,                 \* what nginx.conf may hold: NoFile or a sequence of lines
  MaxSends               \* bound: signals sent with kill

NoFile == "none"

Processes == {Master} \cup Workers

ASSUME NginxAssumption ==
  /\ Master \notin Workers /\ IsFiniteSet(Workers) /\ IsFiniteSet(Signals)
  /\ Masked \subseteq Signals /\ SIGCHLD \in Signals /\ MaxSends \in Nat
  /\ \A f \in Files : f = NoFile \/ f \in Seq([kind : STRING, name : STRING, value : Int])

VARIABLES
  file,                  \* nginx.conf
  read,                  \* how many of its lines Load has read
  confItemList,
  pc,                    \* where the program of each process is
  spawned,               \* i of ngx_start_worker_process, and the forks
  failed,                \*   that have failed
  installed,             \* signals whose handler each process has installed
  mask, pending,         \* of each process
  oldMask,               \* the mask that sigsuspend will restore
  handlers,              \* of each process: the handlers that run, the last on top
  ngxPid, ngxPpid,
  sent                   \* how many signals have been sent with kill

files   == <<file, read, confItemList>>
forks   == <<spawned, failed>>
signals == <<installed, mask, pending, oldMask, handlers>>
ids     == <<ngxPid, ngxPpid>>
vars    == <<files, pc, forks, signals, ids, sent>>

Init ==
  /\ file \in Files /\ read = 0 /\ confItemList = <<>>
  /\ pc = [p \in Processes |-> IF p = Master THEN "load" ELSE "unborn"]
  /\ spawned = 0 /\ failed = 0 /\ sent = 0
  /\ installed = [p \in Processes |-> {}]
  /\ mask = [p \in Processes |-> {}] /\ pending = [p \in Processes |-> {}]
  /\ oldMask = {}
  /\ handlers = [p \in Processes |-> <<>>]
  /\ ngxPid = [p \in Processes |-> Master] /\ ngxPpid = [p \in Processes |-> Shell]

Gone == {"unborn", "exited", "dead"}

Alive(p) == pc[p] \notin Gone

-----------------------------------------------------------------------------
(* CConfig. *)

\* Comments, groups, blank lines and lines without '=' are passed over.
IsItem(line) == line.kind = "item"

\* Mutant: the last item of a name counts.
GetLast(name, default) ==
  LET named == {i \in DOMAIN confItemList : confItemList[i].name = name}
  IN IF named = {} THEN default
     ELSE confItemList[CHOOSE i \in named : \A j \in named : j <= i].value

\* GetIntDefault: the first item of that name, whatever its case, through atoi.
GetIntDefault(name, default) ==
  LET named == {i \in DOMAIN confItemList : confItemList[i].name = name}
  IN IF named = {} THEN default
     ELSE confItemList[CHOOSE i \in named : \A j \in named : i <= j].value

-----------------------------------------------------------------------------
(* The program of a process runs while no handler does and none is due. *)

Runs(p, at) == pc[p] = at /\ handlers[p] = <<>> /\ pending[p] \subseteq mask[p]

Goes(p, to) == pc' = [pc EXCEPT ![p] = to]

\* Load, a line at a time.
Load ==
  /\ Runs(Master, "load") /\ file # NoFile /\ read < Len(file)
  /\ read' = read + 1
  /\ confItemList' = IF IsItem(file[read + 1]) THEN Append(confItemList, file[read + 1])
                     ELSE confItemList
  /\ UNCHANGED <<file, pc, forks, signals, ids, sent>>

\* Without the file main returns, after freeresource.
LoadDone ==
  /\ Runs(Master, "load")
  /\ IF file = NoFile THEN Goes(Master, "exited")
     ELSE read = Len(file) /\ Goes(Master, "signalInit")
  /\ UNCHANGED <<files, forks, signals, ids, sent>>

\* ngx_signal_init, one sigaction at a time; the order of the table does not matter.
SignalInit(s) ==
  /\ Runs(Master, "signalInit") /\ s \notin installed[Master]
  /\ installed' = [installed EXCEPT ![Master] = @ \cup {s}]
  /\ UNCHANGED <<files, pc, forks, mask, pending, oldMask, handlers, ids, sent>>

\* Mutant: the signals are not blocked while workers are forked.
BlockNothing ==
  /\ Runs(Master, "signalInit") /\ installed[Master] = Signals
  /\ Goes(Master, "spawn")
  /\ UNCHANGED <<files, forks, signals, ids, sent>>

\* ngx_master_process_cycle begins: sigprocmask(SIG_BLOCK).
Block ==
  /\ Runs(Master, "signalInit") /\ installed[Master] = Signals
  /\ mask' = [mask EXCEPT ![Master] = @ \cup Masked]
  /\ Goes(Master, "spawn")
  /\ UNCHANGED <<files, forks, installed, pending, oldMask, handlers, ids, sent>>

ToSpawn == GetIntDefault("workerprocesses", 1)

\* fork: the child has the mask, the handlers and the memory of its parent, and
\* nothing pending.
Fork(w) ==
  /\ Runs(Master, "spawn") /\ spawned < ToSpawn /\ pc[w] = "unborn"
  /\ spawned' = spawned + 1
  /\ Goes(w, "born")
  /\ installed' = [installed EXCEPT ![w] = installed[Master]]
  /\ mask' = [mask EXCEPT ![w] = mask[Master]]
  /\ ngxPid' = [ngxPid EXCEPT ![w] = ngxPid[Master]]
  /\ ngxPpid' = [ngxPpid EXCEPT ![w] = ngxPpid[Master]]
  /\ UNCHANGED <<files, failed, pending, oldMask, handlers, sent>>

\* A fork that fails is logged, and the next is tried.
ForkFails ==
  /\ Runs(Master, "spawn") /\ spawned < ToSpawn
  /\ spawned' = spawned + 1 /\ failed' = failed + 1
  /\ UNCHANGED <<files, pc, signals, ids, sent>>

SpawnDone ==
  /\ Runs(Master, "spawn") /\ spawned >= ToSpawn
  /\ Goes(Master, "cycle")
  /\ UNCHANGED <<files, forks, signals, ids, sent>>

\* Mutant: pause() instead of sigsuspend(): the signals stay blocked.
Pause ==
  /\ Runs(Master, "cycle")
  /\ oldMask' = mask[Master]
  /\ Goes(Master, "suspended")
  /\ UNCHANGED <<files, forks, installed, mask, pending, handlers, ids, sent>>

\* A turn of the cycle of the master: it logs, and sleeps with nothing blocked.
Suspend ==
  /\ Runs(Master, "cycle")
  /\ oldMask' = mask[Master]
  /\ mask' = [mask EXCEPT ![Master] = {}]
  /\ Goes(Master, "suspended")
  /\ UNCHANGED <<files, forks, installed, pending, handlers, ids, sent>>

\* A new worker sets its ids and begins to print a line ...
SetIds(w) ==
  /\ Runs(w, "born")
  /\ ngxPpid' = [ngxPpid EXCEPT ![w] = ngxPid[w]]
  /\ ngxPid' = [ngxPid EXCEPT ![w] = w]
  /\ Goes(w, "printing")
  /\ UNCHANGED <<files, forks, signals, sent>>

\* ... has printed it, and in ngx_process_init unblocks every signal.
ProcessInit(w) ==
  /\ Runs(w, "printing")
  /\ mask' = [mask EXCEPT ![w] = {}]
  /\ Goes(w, "working")
  /\ UNCHANGED <<files, forks, installed, pending, oldMask, handlers, ids, sent>>

-----------------------------------------------------------------------------
(* Signals. *)

\* kill(p, s), by anybody; to one process or, sent again, to several.
Send(p, s) ==
  /\ Alive(p) /\ sent < MaxSends
  /\ sent' = sent + 1
  /\ pending' = [pending EXCEPT ![p] = @ \cup {s}]
  /\ UNCHANGED <<files, pc, forks, installed, mask, oldMask, handlers, ids>>

Due(p, s) == Alive(p) /\ s \in pending[p] \ mask[p]

\* While sigsuspend sleeps, the mask that a handler restores is the old one.
Interrupted(p) == IF pc[p] = "suspended" /\ handlers[p] = <<>> THEN oldMask ELSE mask[p]

Enter(p, s) ==
  /\ Due(p, s) /\ s \in installed[p]
  /\ pending' = [pending EXCEPT ![p] = @ \ {s}]
  /\ handlers' = [handlers EXCEPT ![p] = Append(@, [signal |-> s, saved |-> Interrupted(p)])]
  /\ mask' = [mask EXCEPT ![p] = @ \cup {s}]
  /\ UNCHANGED <<files, pc, forks, installed, oldMask, ids, sent>>

\* The handler has printed and returns; the first ends sigsuspend.
Return(p) ==
  /\ Alive(p) /\ handlers[p] # <<>> /\ pending[p] \subseteq mask[p]
  /\ LET top == Len(handlers[p])
     IN /\ mask' = [mask EXCEPT ![p] = handlers[p][top].saved]
        /\ handlers' = [handlers EXCEPT ![p] = SubSeq(@, 1, top - 1)]
        /\ IF top = 1 /\ pc[p] = "suspended" THEN Goes(p, "cycle") ELSE UNCHANGED pc
  /\ UNCHANGED <<files, forks, installed, pending, oldMask, ids, sent>>

\* The end of a process, of which the master hears if it was a worker.
End(p) ==
  /\ Goes(p, "dead")
  /\ handlers' = [handlers EXCEPT ![p] = <<>>]
  /\ pending' = [q \in Processes |->
       IF q = p THEN {}
       ELSE IF q = Master /\ Alive(Master) THEN pending[q] \cup {SIGCHLD} ELSE pending[q]]
  /\ UNCHANGED <<files, forks, installed, mask, oldMask, ids, sent>>

\* No handler is installed yet: the signal ends the process or does nothing.
Default(p, s) ==
  /\ Due(p, s) /\ s \notin installed[p]
  /\ IF s \in IgnoredByDefault
     THEN /\ pending' = [pending EXCEPT ![p] = @ \ {s}]
          /\ UNCHANGED <<files, pc, forks, installed, mask, oldMask, handlers, ids, sent>>
     ELSE End(p)

\* SIGKILL, or an error of the process.
Crash(p) == Alive(p) /\ End(p)

-----------------------------------------------------------------------------
ProcessStep(p) ==
  \/ p = Master /\ (Load \/ LoadDone \/ Block \/ ForkFails \/ SpawnDone \/ Suspend)
  \/ p = Master /\ \E s \in Signals : SignalInit(s)
  \/ p = Master /\ \E w \in Workers : Fork(w)
  \/ p \in Workers /\ (SetIds(p) \/ ProcessInit(p))
  \/ \E s \in Signals : Enter(p, s) \/ Default(p, s)
  \/ Return(p)

Next ==
  \/ \E p \in Processes : ProcessStep(p) \/ Crash(p)
  \/ \E p \in Processes, s \in Signals : Send(p, s)

Spec == Init /\ [][Next]_vars

\* The kernel runs every process.  Nobody need send a signal or crash.
FairSpec == Spec /\ \A p \in Processes : WF_vars(ProcessStep(p))

-----------------------------------------------------------------------------
Places == Gone \cup {"load", "signalInit", "spawn", "cycle", "suspended", "born", "printing",
                     "working"}

TypeOK ==
  /\ pc \in [Processes -> Places]
  /\ spawned \in Nat /\ failed \in Nat
  /\ installed \in [Processes -> SUBSET Signals]
  /\ mask \in [Processes -> SUBSET Signals] /\ pending \in [Processes -> SUBSET Signals]
  /\ oldMask \in SUBSET Signals
  /\ handlers \in [Processes -> Seq([signal : Signals, saved : SUBSET Signals])]
  /\ ngxPid \in [Processes -> Processes] /\ ngxPpid \in [Processes -> Processes \cup {Shell}]

\* Nothing that the master blocks interrupts the making of a process, on either
\* side of fork (ngx_process_cycle.cxx:19), nor the printf of a new worker, nor
\* the line that the master logs in each turn of its cycle.
SpawnUndisturbed ==
  \A p \in Processes : pc[p] \in {"spawn", "cycle", "born", "printing"} =>
    \A i \in DOMAIN handlers[p] : handlers[p][i].signal \notin Masked

\* A worker that works hears every signal, has a handler for each, and knows who
\* it and its parent are; so does one that is about to.
WorkerReady ==
  \A w \in Workers : pc[w] = "working" =>
    /\ installed[w] = Signals
    /\ handlers[w] = <<>> => mask[w] = {}
    /\ ngxPid[w] = w /\ ngxPpid[w] = Master

\* Once the handlers are installed no signal of the table ends a process, and a
\* handler that is interrupted by others leaves the mask as it found it.
MaskRestored ==
  /\ \A p \in Processes : Alive(p) /\ pc[p] \notin {"load", "signalInit"} =>
       installed[p] = Signals
  /\ pc[Master] = "cycle" /\ handlers[Master] = <<>> => mask[Master] = Masked

\* The workers tried are those that the first item says, and the master sleeps
\* only when it has tried them all.
WorkersAsConfigured ==
  LET made == {w \in Workers : pc[w] # "unborn"}
      asked == {i \in DOMAIN file : file[i].kind = "item" /\ file[i].name = "workerprocesses"}
      first == {i \in asked : \A j \in asked : i <= j}
      n == IF asked = {} THEN 1 ELSE file[CHOOSE i \in first : TRUE].value
  IN /\ spawned = Cardinality(made) + failed
     /\ pc[Master] \in {"cycle", "suspended"} => spawned = IF n < 0 THEN 0 ELSE n

\* A signal that was sent is taken, however the processes interleave.
SignalsTaken ==
  \A p \in Processes, s \in Signals : s \in pending[p] ~> s \notin pending[p]
=============================================================================
