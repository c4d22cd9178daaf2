# Verification of ngx_projects

TLA+ models of `project/MyProjects/Project`: the thread pool of
`ThreadPoolProject`; of `Muduo` the event loop, its thread, the poller, the TCP
server with its connections, and the buffer; of `nginx` its processes and signals,
its configuration and its log. TLC checks them on small instances, TLAPS proves
most of their safety properties for every instance.

Paths below are relative to `project/MyProjects/Project/`.

## 1. The system

The repository holds three programs that share no code.

| Component | State | Operations | Hard behaviour | What makes it correct |
|---|---|---|---|---|
| **ThreadPool** (`ThreadPoolProject/threadpool.cpp`, `.h`) | `tasks_`, `taskSize_`, `threads_`, `curThreadSize_`, `idleThreadSize_`, the limits, `isPoolRunning_`; one mutex, three condition variables | `setMode`, the two limit setters, `start`, `submitTask`, `threadFunc`, the destructor | workers, callers and the owner interleave; timed waits; counters touched outside the lock; workers that leave by two routes; a destructor that waits for them | no lost wake-up, exact counters, size within its bounds, each accepted task run once, the destructor waits for everything and does return |
| **Task, Result, Semaphore** (same files) | `Task::result_`, `Result::any_`, `isValid_`, `rescLimit_` | `exec`, `setResult`, `setVal`, `get`, `post`, `wait` | a worker writes through a plain pointer into an object in the caller's frame, which the caller may drop; the count of the semaphore is not initialised | `get` returns the value of its own task, once; when it may be early, and when the Result may be gone |
| **Any** | a value | construction, `cast_` | none | not modelled |
| **EventLoop** (`Muduo/EventLoop.cc`) | `quit_`, `looping_`, `pendingFunctors_`, `callingPendingFunctors_`, the eventfd | `loop`, `quit`, `runInLoop`, `queueInLoop`, `wakeup`, `handleRead`, `doPendingFunctors` | queueing and waking are two steps; the loop drains, swaps and sleeps between them | no sleep over work or a request to stop; functors once each, in order |
| **EventLoopThread, Thread** (`Muduo/EventLoopThread.cc`, `Thread.cc`) | `loop_`, the thread, a mutex and a condition | `startLoop`, the destructor, `threadFunc`, `start`, `join` | the loop lives in the frame of the thread that runs it | `startLoop` returns a live loop, the destructor stops it and waits |
| **Channel, EpollPoller** | `events_`, `index_`, `channels_`, the epoll set | `enable*`, `disable*`, `remove`, `updateChannel`, `removeChannel`, `poll`, `handleEvent` | `index_`, the map and the kernel's set must agree | they agree, and no poller knows a connection that was destroyed |
| **TcpConnection** | `state_`, output buffer, channel | `send`, `shutdown`, `handleRead/Write/Close`, `connectEstablished/Destroyed` | calls from other threads are functors of the loop | output in order and never stalled, callbacks in order, nothing written after the write side is shut |
| **TcpServer, Acceptor, EventLoopThreadPool** | `connections_`, `next_` | `newConnection`, `removeConnection`, `getNextLoop` | a connection's life crosses two loops | a closed connection is forgotten, and nothing is called on it once destroyed |
| **Buffer** (`Muduo/Buffer.h`, `.cc`) | `buffer_`, `readIndex_`, `writeIndex_` | `append`, `makeSpace`, `retrieves`, `retrieveAsString`, `readFd`, `writeFd` | index arithmetic: data moved to the front, a read split between the vector and `extrabuf` | what is between the indices is the stream, in order; where it is overrun |
| **nginx processes and signals** (`nginx/app/nginx.cxx`, `proc`, `signal`) | masks, dispositions, pending signals, `ngx_pid`, `ngx_ppid` | `main`, `ngx_signal_init`, `ngx_master_process_cycle`, `ngx_spawn_process`, `ngx_worker_process_cycle`, `ngx_signal_handler` | signals that arrive around `fork` and `sigsuspend`; forks that fail; handlers over handlers | making a process is not interrupted, workers are as configured, no signal is missed for good |
| **nginx configuration** (`nginx/app/ngx_c_conf.cxx`) | the items | `Load`, `GetIntDefault`, `GetString` | none | the first item of a name counts |
| **nginx log and printf** (`nginx/app/ngx_log.cxx`, `ngx_printf.cxx`) | `ngx_log.fd`, `log_level`, the line | `ngx_log_init`, `ngx_log_stderr`, `ngx_log_error_core`, `ngx_vslprintf` and its directives, `freeresource` | a line cut anywhere; a file that fails or fills up | the line says what was asked, goes out once, and stays in its buffer: where each of them fails |
| nginx strings and title, Muduo sockets, addresses, time and logger | none | | | not modelled: system calls and formatting |
| `ngx_test`, `../test/nginx`, `test` | | | | not modelled: earlier copies and toys |

How they interact: callers share the pool's queue with its workers under one
mutex and meet again in a `Result`. In Muduo everything between threads is a
functor in the list of an `EventLoop` and a write to its eventfd; an
`EventLoopThread` wraps one loop, a `TcpServer` hands connections to several.
The nginx processes interact by `fork` and signals only; each has its own log.

`PROJECT.json` lists under "hazards" what can go wrong in each, line by line.

## 2. Modules

    WorkQueue            what a queue of work promises (abstract)
      ^ implemented by
    ThreadPool  <-- ThreadPoolIdle (with a history of when tasks were taken)
      |             ThreadPoolProofs (TLAPS)
    TaskResult  <-- MCTaskResult, TaskResultProofs
                                          what happens to the value of a task
    EventLoop   <-- EventLoopProofs       implements WorkQueue too
      ^ extended by
    EventLoopThread  <-- EventLoopThreadProofs
                         the loop composed with the thread that owns it
    Poller               Channel and EpollPoller, as operators
      ^ extended by
    TcpServer   <-- TcpServerProofs
                         server, acceptor, loop pool and connections over several loops
    Buffer      <-- BufferProofs          the queue of bytes of a connection
    Nginx       <-- MCNginx, NginxProofs  configuration, master, workers, signals
    NgxLog      <-- MCNgxLog, NgxLogProofs
                                          the log, with ngx_vslprintf

**WorkQueue** is a FIFO queue of tasks: accept, refuse, begin, finish, close.
`ThreadPool` and `EventLoop` instantiate it with refinement mappings
(`Contract`).

**ThreadPool.** A step is one critical section under `taskQueMtx_`; what the code
does outside the lock (`isPoolRunning_ = false`, running a task,
`idleThreadSize_++`) is a step of its own. Sections of `submitTask`: `Submit`
(room at once), `SubmitWait`, and on waking `SubmitResume`, `SubmitRetry`,
`SubmitReject`. Sections of `threadFunc`: a worker that holds the lock with the
queue empty leaves (`Exit`), sleeps (`Wait`) or, after a timed-out wait, is
reclaimed (`Reclaim`); with a task it does `Take`, then `Exec` and `BackToIdle`.
The owner configures, starts (`StartCreate`, then `StartThread` for each id) and
destroys (`Destroy`, `DestroyNotify`, `DestroyWoken`). Condition variables wake
for no reason (`Spurious...`), timed waits expire (`WorkerTimeout`,
`UserTimeout`), and a deadline may pass for a thread already notified. `pc`
stands for the program counter of each worker, indexed by its thread id;
`executed` and `returned` are history. Default constants are CONSTANTS. The
owner uses the pool as the example does: it starts it once, and nobody is in
`submitTask` when the destructor is called. `setTaskQueMaxThreshHold` may be called
at any moment, also while callers sleep over a full queue; it takes no lock and tells
nobody. `fullAt` (history) is the limit at which each caller found the queue full.
Limits are naturals. A worker's `lastTime`
is the time at which it was started.

**TaskResult.** The pool is a count of how often each task is queued. `Bind` is
the constructor of `Result`, which runs under the pool's lock; `Store` and `Post`
are the two halves of `setVal`. `get` is `GetCall`, `GetAcquire` (`sem_.wait()`), and
the move out of `any_` in its two halves, `GetTake` and `GetClear`, which a worker may
come between. Nothing initialises `rescLimit_`: `SemInit` is the set of integers it may
begin with, and `first` (history) what it was for each `Result`. `Destroy` drops a
`Result` at any time its owner is not inside `get()`, asked for its value or not, as
`main.cpp` does; `dangling` (history) has the dead Results that workers have written
to. `get` is called once per `Result`, and a task is not submitted again while the
pool still has it: the code guards neither, and states no contract.

**EventLoop.** The loop thread's `pc` goes around `test`, `polling`, `dispatch`,
`functors`, `functor`. Another thread's `queueInLoop` and `quit` are two steps, the
change (`Queue`, `Quit`) and the write to the eventfd (`Wakeup`). Of the eventfd
only readability matters. Handlers and functors are user code, which queues
functors and quits. Two constants isolate what the code leaves open: `Wired`
(does `Channel::update` reach the poller? its body is commented out) and
`EarlyQueue` (does the loop's own thread queue before `loop()`?, after which the
first poll sleeps over the functor). The code as committed does not build
(`while(quit==false)` names a method, `newDefaultPoller` returns null); the model
reads the evident intent at these places, and says so here and in the module.

**EventLoopThread** takes every action of `EventLoop` and says when this class lets
it happen: the loop runs after `Publish`, callers hold it between `StartReturn`
and `Destroy`, the owner's `quit()` is `Quit(Owner)` and `Wakeup(Owner)`.

**Poller** keeps, per channel, `events_`, `index_` and the descriptor, and per
loop `channels_` and the table of the kernel. `UpdateChannel` and `RemoveChannel`
are the whole effect of a call; `Ctl` refuses what `epoll_ctl` refuses, and
`refused` remembers it. `Channel::update` and `remove` are read as meant (their
bodies are commented out), and so is `event.data.ptr`, half of which the next line
of the code overwrites.

**TcpServer** composes the poller with the server. Each loop goes around `poll`,
`events`, `functors`; that functors run once and in order is what `EventLoop` shows, so
the eventfd is left out here. A handler or a functor is one step up to the program's
code it calls: `CallbackSend`, `CallbackShutdown` and `HandOut` happen inside the
callback, `CallbackReturn` ends it. `handling` is the connection between the write
callback and the read callback of `handleEvent` (or, on the base loop, between
`newConnection` and `connectEstablished`). Another thread that calls `send()` takes two
steps, the test of `state_` (`UserCall`) and the queueing (`UserQueue`); one that calls
`shutdown()` takes three, with the change of `state_` (`UserSetState`) in between.
`RunDestroyed` has the branch for a connection that is still up, with its callback,
although nothing in the server comes to it. Reference counts are not kept: `Alive` says
whether one of the places that hold a shared pointer still does (`connections_`, queued
functors, the batch being run, a locked `tie_`, a user). A message is `Size` bytes, of
which a write takes any number. `CallersWait` is a precondition the code needs and does
not state: another thread keeps its pointer (and the string) until the loop has done
what was asked, because `sendInLoop` and `shutdownInLoop` are bound to a plain `this`;
with it FALSE, `NoDeadTarget` fails.

**Buffer.** A byte is its number in the stream put into the buffer, so that order
can be stated. The vector is its allocation, as long as the constructor made it,
and `size()`, which `resize` changes. `makeSpace` calls `resize(writeIndex_, len)`,
new size and fill value, which makes no space: `append` then writes past the
vector (`overrun`), where the model stops. A read or a write that fails changes
nothing and is left out.

**Nginx.** A process runs its program or the handlers that have interrupted it, a stack
of them (`handlers`), each with the mask to restore. A signal is delivered when it is
pending and not blocked, before the process runs on; a second one of a kind is lost
while the first is pending. `Fork` copies mask and dispositions to the child and nothing
pending. `Suspend` installs the empty mask; the handler that ends it restores the old
one. `SIGSYS` is in the table and not in the mask, so it may interrupt anything after it
has a handler, and end the process before. Configuration is a sequence of lines. `Load`
reads one at a time and keeps it if it is an item (`LoadDone` ends the loop, or `main`
if there is no file); `GetIntDefault` takes the first of a name. `Send` is `kill` by
anybody, bounded by `MaxSends`; `Crash` is `SIGKILL`.

**NgxLog.** Each directive of `ngx_vslprintf` is an action, so that `CallReturns`
can be asked of its loop; `buf` is `errstr` up to `p`, `fmt` and `args` are what is
left of the format and of the arguments. Numbers keep their width where it matters:
the fraction and the carry are compared with a `uint16_t`. Text is kept character by
character, because where a line is cut is what the properties are about. `WriteStderr`
and `WriteCore` end a call, and the file may be full or broken. `ngx_log.fd` starts at
0, as a global does. A call of `ngx_log_error_core` formats its preamble and its
message as one format.

What a line should be is told apart from how the code makes it: a call is put together
from items, each with its piece of the format, its arguments, the text that is asked for
(`text`, what C's `printf` makes of it, where `ngx_printf.cxx` says nothing else) and
the text that `ngx_vslprintf` prints (`printed`). `Fits` says which items there are:
plain text, a number, a string, a float, `%%`, an unknown directive; `CallAssumption`,
which TLC evaluates on the calls of the run, says that format and arguments of every
call are those of its items. The code sees the format only, and `Expected` is made of
the texts asked for, and of errno where its text fits. Where the two differ is named:
`SignFirst` (the sign of a negative number comes before the padding of its width, and is
not counted), `LosesZeros` (a fraction that begins with 0 is filled with blanks),
`Miscarries` (a carry fills the width with zeros, and is missed past 16 bits),
`LosesErrno` (`ngx_log_error_core` puts errno behind its newline and does not count it).
`LineFaithful` says that nothing else goes wrong. No item is `%.0f`, which C rounds and
the code cuts, `%s` with a width, which is for numbers here, a negative argument of `%u`
or `%P`, which wraps, or a letter of a directive behind a `%%`, which the code takes for
one.

## 3. Runs

| Run | Shows |
|---|---|
| `pool` | the pool with a limit of the queue that changes while callers sleep on it: counters, size, wake-ups on both conditions, the destructor, each task once, `start()` undisturbed; liveness, and `KeepsContract` (it implements `WorkQueue`, fairness included) |
| `pool_reclaim` | *violation*: a worker that ran a task a moment ago is reclaimed as idle (`lastTime`, threadpool.cpp:325, is never refreshed) |
| `result` | whatever `rescLimit_` begins with and whenever Results are dropped: values go where they belong, once; `get()` is early only if the count began above zero, and sleeps for good only if below; a dead Result is written only if it was never asked, or its count began above zero |
| `loopthread` | the loop inside its thread: no sleep over functors, FIFO, queued functors run; `startLoop` and the destructor return, the loop outlives its users, no thread outlives the object, each with what a functor that quits the loop takes from it |
| `server` | poller, channels and kernel agree; no poller knows a destroyed connection; callbacks come in order; a connection whose peer closes is forgotten |
| `connection` | bytes go out once and in order, output never stalls, nothing after the write side is shut, nothing called on a destroyed connection |
| `connection_shutdown` | *violation*: `shutdown()` sets `kDisConnected` where `handleWrite` tests for `kDisConnecting`, so a connection shut down with output left is never half-closed |
| `buffer` | the buffer holds the stream through every move and split, and is not overrun while what is to be held fits the size it was made for |
| `buffer_overrun` | *violation*: `makeSpace` (Buffer.h:99) makes no space, and `append` writes past the vector |
| `nginx` | making processes is not interrupted, as many workers are tried as the first item says, every signal is taken |
| `log` | a line is what was asked for, cut to the buffer, but for the four misprints above, and is written once; only the point of a float at the end of the buffer leaves it; every call returns |
| `log_overrun` | *violation*: a point is put behind the buffer, and `memcpy` is given a length of -1 (ngx_printf.cxx:79) |

**Bounds.** `pool`: two callers, two tasks, four thread ids, a clock of two values, both
modes, initial sizes 1 and 2, thread limit 1, 2 or 3, a queue of one that a setter may
close altogether and open again at any moment. That is enough for a caller to sleep over
a full queue and for both over a closed one, for the pool to grow past its initial size,
for a worker to be reclaimed while tasks arrive, for the destructor to meet workers in
every phase, and for `SubmitReturns` to be about callers that time out. What two tasks
leave out, such as two callers asleep over two queued tasks, the theorems cover: they
hold for any numbers. `result`: two Results over two tasks and two workers, counts that
begin at -1, 0 and 1, so that a task is submitted again after it ran, and dropped
Results are written by one worker while another is asked for. `loopthread`: an owner,
one more caller, three functors, so that one runs while another waits and a third
arrives; the owner and functors quit, other threads do not (`MayQuit`). `server`: two
connections, two descriptors, and a base loop with no, one or two others, so that
connections share a loop, live on different ones, and reuse a descriptor; it sends no
messages and has no threads of the program's own. `connection`: one connection, on the
base loop or on one of its own, three messages of two bytes and a high-water mark of
three, so that one is sent directly while another is buffered and the mark is crossed,
and one more thread that calls `send()` and `shutdown()`. `connection_shutdown` needs a
single message. `buffer`: two bytes kept in front, four behind, an `extrabuf` of three,
nine bytes in all, so that data is moved to the front, a read fills both halves, and
both edges of each comparison occur. `nginx`: two workers, one signal the master blocks,
`SIGCHLD`, and `SIGSYS` which it does not block; five files (none, empty, a comment in
front, two items of one name, no workers); two signals sent by `kill`, enough for a
handler over a handler and for a signal pending across `fork`; the `SIGCHLD` of a dying
worker is not counted. `log`: two calls in a row, lines of 14 characters, every
directive with a text in front that puts its pad, its number, its point or its digits at
the end of the buffer, the items that are misprinted included, but for a carry past 16
bits; `log_overrun` takes the same calls. A file fails only just before a line is
written, since nothing else reads that state.

**Fairness.** Weak fairness of each thread that can go on: the scheduler runs it,
`std::mutex` is eventually handed to a thread that keeps asking, tasks and
functors return. Also of `UserTimeout`, since the deadline of `submitTask` is real
time. No fairness of what the code does not promise: that users submit, that the
owner destroys the pool, that a worker's wait times out, that epoll_wait returns
without an event. In `server` each loop is fair; peers need not connect, and no
socket need take what is written to it. In `nginx` each process runs on, handlers
return, and the kernel delivers what is due; nobody need send a signal. In `log` a
call that has begun goes on.

**Deadlock** is checked in every run except `result`, where the system stops when all
Results are used and every task has run, or where a caller sleeps on a count that began
below zero; `buffer` and `buffer_overrun`, which stop at an overrun or when the bytes are
used up; `nginx`, where every process may have ended; and `log` and `log_overrun`, where
the last call may have been made or have crashed.

## 4. Proofs

**ThreadPoolProofs**, for any number of callers, tasks and threads, any limits and
any clock, provided the pool is never started with zero threads
(`0 \notin InitSizes`): with none, a reclaimed worker may be the last and the
invariant is false. Proved: `TypeOK`, `CountsExact`, `IdleExact`,
`SizeWithinBounds`, the three no-lost-wake-up properties, `DtorNeverStranded`,
`NoUseAfterDestroy`, `DrainedAtDestroy`, `NoEraseDuringStart`.

The argument is one inductive invariant, `IInv`. The properties alone are not
inductive: that the destructor is never stranded needs that the count is exact
(`CountsExact`) and that a worker is left while tasks remain (`WorkersRemain`);
that reclamation takes no last worker needs `SizeWithinBounds` while the pool
runs, and, once it does not, that no worker sleeps (`NoSleepThroughShutdown`);
that new ids are fresh needs `Unborn`; `NothingLost` follows a task from the queue
to its execution. One lemma per action shows what it preserves. The two action
properties follow from `IInv`.

The type invariant and `IInv` are proved and therefore not checked by a run any
more, and neither are `NoUseAfterDestroy` and `DrainedAtDestroy` of the pool, nor
`TypeOK`, `CallingExact` and `NoSleepOverQuit` of `EventLoop`, and `TypeOK` of
`TcpServer`.

In the second half of the module, under the same provision: `EveryTaskOnce`, and that
the pool implements the safety part of `WorkQueue` (`PoolKeepsOrder`). Every step does
one of five things with tasks: it accepts one, refuses one, begins one, finishes
one, or leaves them alone (`StepEffect`). The invariant is `Once`: a queued task is
in one place and has not begun, one that runs does so on one worker and for the
first time, one that ran did so once; and `CallsApart`: callers inside `submitTask`
bring different tasks that have no answer yet, without which a task could be
accepted twice.

**TaskResultProofs**, for any Results, tasks and workers, whatever integers `rescLimit_`
begins with and whichever Results are dropped: the types, `GetReturnsTheValue`,
`DanglingOnlyIfUnasked` and `OneValuePerResult`. The invariant (`ResultOK`) follows the
value of a Result: it is expected (its task is queued or at a worker), or there, or
taken; the count is `first`, one more once the value was posted, one less once `get`
has passed. Everything that is said of who is at `any_` holds where `first` is not above
zero, and no more is claimed where it is.

**EventLoopProofs**, for any number of callers and functors: `LoopTypeCorrect`;
`LoopWakesUp` (`NoSleepOverFunctors`, `NoSleepOverQuit`), given `Wired` and
`~EarlyQueue`; and, with no assumption, `LoopKeepsOrder`: the loop implements
`WorkQueue`. `NoSleepOverFunctors` speaks of the poller only; what is inductive
is `WakeupPending`: at every place but `dispatch`, after which the list is taken
whole, a queued functor comes with a readable eventfd or a caller about to write.
The refinement needs that the batch is empty when the list is taken
(`BatchOnlyInside`).

**EventLoopThreadProofs**, for any number of callers and functors, whoever quits the loop:
`LoopOutlivesItsUsers` and `NoUseAfterDestroy`, because a loop that has left was asked to
and `quit_` stays set (`StopsOnRequest`); and that the loop of an `EventLoopThread` is an
`EventLoop` (`ThreadRunsALoop`), so that the theorems above hold of it as well.

**TcpServerProofs**, for any number of loops, connections and messages, any set of
descriptors and messages of any size: `PollerAgrees`, `NoDanglingChannel`,
`WireInOrder`, `WriteArmed`, `NothingAfterFin`, `CallbacksInOrder` and the types with no
provision, `NoDeadTarget` given `CallersWait`. One fact is proved beside the invariant
(`StateSet`): from the moment `shutdown()` has set `state_` until it has queued, nothing
the loop does to the connection changes it back (`StaysDown`). The invariant (`IInv`)
has two sides. `Stages` says what holds of a connection that is being set up, is open,
or is being taken apart (`told` = 0, 1, 2). `QueueSound` says at which stage each
functor still to run finds its connection, and that a functor that moves a connection to
its next stage (`Moves`) is queued once; without it a second `connectDestroyed` would be
possible, on a channel that is no longer in the poller. `LoopSound` and `HeldSound` say
the same of reported events, of callbacks under way and of other threads.
`DescriptorsApart` is why a descriptor that is used again disturbs nobody: its former
connection is out of every table (`Gone`). Queues change in a few ways only (`Moved`),
so one lemma per way shows `QueueSound` for all functors. With `CallersWait` there is a
second invariant on top (`Kept`): while a `sendInLoop` or `shutdownInLoop` is still to
run, some thread holds its connection.

**BufferProofs**, for buffers, lengths and streams of any size: `IndexesInOrder`,
`HoldsTheStream`, `RoomIsUsed` and `OutInOrder`. Each way in which `append`
can go (in place, moved, past the vector) is shown to keep the invariant from any
memory and write index, so that `readFd` follows with the free end filled first.

**NginxProofs**, for any workers, signals and files: `SpawnUndisturbed`, `WorkerReady`
and `MaskRestored` (which no run lists), and `WorkersAsConfigured`. The invariant
(`Good`) says which mask the program of a process has at each place, that the first of
the handlers over it has saved that mask, and that where the master's signals are to be
blocked no handler on the stack is of one of them and each has saved at least those.
`SpawnUndisturbed` alone says nothing of masks, on which every `Return` depends.
`WorkersAsConfigured` needs two more: that the first item of a name among those `Load`
has kept is the first of that name among the lines it has read, and that, while the
master makes workers, those that were born and the forks that failed are as many as it
has tried.

**NgxLogProofs**, for every size of the buffer and of `uint16_t`, any prefix, any calls
made of items and any number of them in a row: the types, `LineFaithful`,
`OverrunOnlyAtPoint` and `EveryLineOnce`. None of the first two is inductive: in the
middle of a call they say nothing. The invariant (`LogInv`) says where the call is:
`Place` names an item, how much of it has been printed, and that what is left of the
format and of the arguments is the rest of that item and the items behind it, and that
`buf` is what is printed so far, cut to the buffer. One lemma per directive shows that a
turn of the loop goes from place to place (`Turn`), or crashes where `PointBehind` says
so; `Finishes` shows that from the place at the end, or from a full buffer, the line is
what is printed (`LineOf`), and `LineOfFaithful` that this is what is asked for where no
item is misprinted: `NumberRight` and `FloatRight` compare what the code does with sign,
width, carry and fraction with what they should be. The formatter reads digits by
recursion and a line is a recursion over items: no induction theorem of the library can
be used with the provers at hand, so the module first derives what it needs (a function
defined by recursion over an interval satisfies its equation; a property that climbs
from 0 holds of all) from the well-foundedness of the naturals, with the property as a
set. `EveryLineOnce` has an
invariant of its own (`OnceInv`): what is logged does not change once a call of
`ngx_log_error_core` was made, because the level is set once, before any.

Model-checked only: everything temporal under fairness (`AcceptedTaskRuns`,
`DtorReturns`, `SubmitReturns`, the liveness of `KeepsContract`, `GetReturns`,
`QueuedFunctorRuns`, `StartReturns`, `PeerCloseForgets`, `SignalsTaken`,
`CallReturns`), which is beyond the prover. Every invariant that a passing run checks is
also proved, and so is every action property and the safety part of the two refinements.
The properties of the violation runs do not hold; what does hold in the place of two of
them is proved: `RoomIsUsed` and `OverrunOnlyAtPoint`.

## 5. What is left out, and the plan

Left out on purpose: a second `start()` of a pool, negative limits, a second
`get()`, byte copying, output and formatting outside `NgxLog`, and system calls
that fail, except `accept`, `fork`, the reads and writes of a connection and the
writes of the log. Short writes of the log are left out. A `TcpServer` is never
destroyed: its destructor is declared and has no body.

Known from the models and not kept as runs of their own:

- a semaphore count above zero, as nothing initialises `rescLimit_` (threadpool.h:123), lets
  `get()` return before its task has run, whatever threadpool.cpp:599 says; below zero it
  never returns. `result` has both: without its exceptions for `first`, `GetReturnsTheValue`
  and `GetReturns` fail.
- a Result that is dropped unasked, as in main.cpp:49 and the example of threadpool.h:42, is
  written afterwards by `Task::exec` (threadpool.cpp:624). `result` has that too: `dangling`
  is not empty, `DanglingOnlyIfUnasked` says for which Results.
- the text of errno is in no line of `ngx_log_error_core`, whatever ngx_log.cxx:87 says: it is
  put behind the newline and not counted (line 121). `%.2f` of 21.05 is `21. 5`
  (ngx_printf.cxx:80). Without `LosesErrno` and `LosesZeros`, `LineFaithful` fails.
- a `quit()` of the destructor before `loop()` is entered is undone by `quit_=false`
  (EventLoop.cc:58), and the destructor joins forever: `DtorReturns` needs `pc # "outside"`.
- a functor that quits the loop of an `EventLoopThread` lets `threadFunc` return; the
  destructor then does not wait for the thread, and a `startLoop` that has not yet looked
  waits forever: hence the exceptions for `quit` in `NoUseAfterDestroy` and `StartReturns`.
- thread ids are counted over all pools (`generateId_` is static), while
  `start()` looks for ids `0..n-1`: `start()` of a second pool fails. The model has
  it as `FirstId # 0`, after which the owner is `"crashed"`.
- a loop that sees `quit_` between the two halves of `quit()` may be gone when
  `wakeup()` writes to its eventfd.
- the comment at ngx_process_cycle.cxx:61 lets `sigsuspend` restore the mask before
  the handler runs; handlers run under its empty mask, and may interrupt each
  other's `printf`, which is not safe to call from them.
- workers that end are neither reaped nor replaced, and a worker that `fork` failed
  to make is not tried again.
- an unreadable `nginx.conf` that opens, such as a directory, keeps `Load` in its
  loop; when it cannot be opened, `freeresource` closes descriptor 0, which
  `ngx_log.fd` still names.
- a second `'%'` is read again as the start of a directive (`%%d`); the sign of a
  negative number stands before the padding of its width (`SignFirst`); a carry fills
  the width with zeros, and that of a fraction of five digits or more is cut to a
  `uint16_t` (`Miscarries`). No comment of the code speaks of these.
- a caller that sleeps on a full queue is not told when `setTaskQueMaxThreshHold` makes
  room: it goes on at the next task taken, or when its second is over.

Not modelled: `Any` (a cast), sockets, addresses, time and Muduo's logger (system
calls and formatting without state of their own), the strings and the process title
of nginx (byte copying; the second call of `ngx_setproctitle` clears past the area
it was given), and the earlier copies and toy programs of `ngx_test`, `test` and
`../test/nginx`. The double-checked singleton of `CConfig` is only ever used by one
thread.

What would come next: a `Buffer` inside `TcpServer` in the place of its counts of
bytes; and `CConfig`'s lines with their lengths.
