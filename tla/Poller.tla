------------------------------- MODULE Poller -------------------------------
(***************************************************************************)
(* Channel and EpollPoller of the Muduo library: what a channel asks to    *)
(* watch (events_), what the poller believes about it (index_, channels_)  *)
(* and what the kernel watches.  The operators below are the whole effect  *)
(* of a call; TcpServer makes the calls.                                   *)
(*                                                                         *)
(* Channel::update and Channel::remove are read as their comments say      *)
(* (Channel.cc:15, :21): the calls in their bodies are commented out.  The *)
(* data of an epoll entry is read as data.ptr, which fillActiveChannels    *)
(* takes back, although EpollPoller.cc:129 overwrites half of it.          *)
(***************************************************************************)
EXTENDS Integers, FiniteSets

CONSTANTS
  Channels, NoChannel,
  Fds,                   \* file descriptors
  Loops                  \* each loop has a poller

ASSUME PollerAssumption == NoChannel \notin Channels

VARIABLES
  fd,                    \* the descriptor of each channel
  events,                \* events_: of "in" (EPOLLIN|EPOLLPRI) and "out" (EPOLLOUT)
  index,                 \* index_
  channels,              \* channels_ of each poller
  epoll,                 \* the kernel's table of each poller
  refused                \* has epoll_ctl failed? (history; unless it was to delete,
                         \*   the process exits)

pollers == <<events, index, channels, epoll, refused>>

NoEntry == [channel |-> NoChannel, events |-> {}]

PollerInit ==
  /\ fd = [c \in Channels |-> 0]
  /\ events = [c \in Channels |-> {}]
  /\ index = [c \in Channels |-> "kNew"]
  /\ channels = [l \in Loops |-> [f \in Fds |-> NoChannel]]
  /\ epoll = [l \in Loops |-> [f \in Fds |-> NoEntry]]
  /\ refused = FALSE

\* epoll_ctl refuses to add what is there and to change or delete what is not.
Ctl(operation, l, c, watch) ==
  LET absent  == epoll[l][fd[c]] = NoEntry
      accepts == absent <=> operation = "add"
      entry   == IF operation = "del" THEN NoEntry ELSE [channel |-> c, events |-> watch]
  IN /\ epoll' = IF accepts THEN [epoll EXCEPT ![l][fd[c]] = entry] ELSE epoll
     /\ refused' = (refused \/ ~accepts)

\* enableReading ... disableAll: the channel is to be watched for the events in
\* watch.  A channel that is watched for nothing stays in channels_.
UpdateChannel(l, c, watch) ==
  /\ events' = [events EXCEPT ![c] = watch]
  /\ IF index[c] # "kAdded"
     THEN /\ channels' = [channels EXCEPT ![l][fd[c]] = IF index[c] = "kNew" THEN c ELSE @]
          /\ index' = [index EXCEPT ![c] = "kAdded"]
          /\ Ctl("add", l, c, watch)
     ELSE /\ UNCHANGED channels
          /\ index' = [index EXCEPT ![c] = IF watch = {} THEN "kDeleted" ELSE @]
          /\ Ctl(IF watch = {} THEN "del" ELSE "mod", l, c, watch)

\* Mutant: the entry of channels_ is left behind.
RemoveKeeping(l, c) ==
  /\ index' = [index EXCEPT ![c] = "kNew"]
  /\ IF index[c] = "kAdded" THEN Ctl("del", l, c, {}) ELSE UNCHANGED <<epoll, refused>>
  /\ UNCHANGED <<events, channels>>

RemoveChannel(l, c) ==
  /\ channels' = [channels EXCEPT ![l][fd[c]] = NoChannel]
  /\ index' = [index EXCEPT ![c] = "kNew"]
  /\ IF index[c] = "kAdded" THEN Ctl("del", l, c, {}) ELSE UNCHANGED <<epoll, refused>>
  /\ UNCHANGED events

isWriting(c) == "out" \in events[c]

\* What epoll_wait may report: the channels the kernel watches.
Watched(l) == {epoll[l][f].channel : f \in Fds} \ {NoChannel}
=============================================================================
