------------------------------- MODULE Buffer -------------------------------
(***************************************************************************)
(* Buffer of the Muduo library: a queue of bytes in a vector, read at      *)
(* readIndex_ and written at writeIndex_, with kCheapPrepend bytes kept    *)
(* free in front.                                                          *)
(*                                                                         *)
(* A byte is its number in the stream that is put into the buffer, so that *)
(* the order of what comes out can be stated.  The vector is its           *)
(* allocation, whose length is what the constructor asked for, and its     *)
(* size(), which resize changes.  makeSpace calls resize(writeIndex_, len),*)
(* which is (new size, fill value) and makes no space: append then writes  *)
(* past the allocation.  What the program does from there on is undefined; *)
(* overrun says that it has happened, and the model stops.                 *)
(***************************************************************************)
EXTENDS Integers, FiniteSets

CONSTANTS
  kCheapPrepend,
  InitialSize,           \* kInitialSize, or what the constructor is given
  ExtraSize,             \* the length of extrabuf of readFd
  MaxBytes,              \* bound: bytes put into the buffer
  Lens                   \* the lengths that callers append and retrieve

ASSUME BufferAssumption ==
  /\ kCheapPrepend \in Nat /\ InitialSize \in Nat /\ ExtraSize \in Nat /\ MaxBytes \in Nat
  /\ Lens \subseteq Nat

VARIABLES
  buffer,                \* what the allocation of buffer_ holds
  size,                  \* buffer_.size()
  readIndex, writeIndex,
  put, taken,            \* bytes put into the buffer, and taken out of it (history)
  out,                   \* the bytes last read from the buffer (history)
  overrun                \* has append written past the allocation?

vars == <<buffer, size, readIndex, writeIndex, put, taken, out, overrun>>

Capacity == kCheapPrepend + InitialSize

readableBytes == writeIndex - readIndex
writableBytes == size - writeIndex
prependableBytes == readIndex

\* The bytes from the n-th of the stream on, len of them.
Bytes(n, len) == [i \in 0..(len - 1) |-> n + i]

\* The memory m with the bytes s, len of them, copied to index at.
Copied(m, at, s, len) ==
  [i \in DOMAIN m |-> IF at <= i /\ i < at + len THEN s[i - at] ELSE m[i]]

\* peek(): the len bytes that begin at readIndex_.
Peek(len) == [i \in 0..(len - 1) |-> buffer[readIndex + i]]

Init ==
  /\ buffer = [i \in 0..(Capacity - 1) |-> -1]
  /\ size = Capacity
  /\ readIndex = kCheapPrepend /\ writeIndex = kCheapPrepend
  /\ put = 0 /\ taken = 0
  /\ out = Bytes(0, 0)
  /\ overrun = FALSE

-----------------------------------------------------------------------------
(* append, after the bytes of memory m up to index w were written. *)

\* Mutant: the space that reading has freed in front is not counted.
MovableBehind(w, len) == len <= size - w

\* Does makeSpace move the data to the front?
Movable(w, len) == len <= (size - w) + prependableBytes - kCheapPrepend

AppendInPlace(m, w, s, len) ==
  /\ len <= size - w
  /\ buffer' = Copied(m, w, s, len)
  /\ writeIndex' = w + len
  /\ UNCHANGED <<size, readIndex, overrun>>

\* Mutant: writeIndex_ is not moved with the data.
AppendMovedBehind(m, w, s, len) ==
  /\ len > size - w /\ Movable(w, len)
  /\ buffer' = Copied(m, w, s, len)
  /\ readIndex' = kCheapPrepend
  /\ writeIndex' = w + len - (readIndex - kCheapPrepend)
  /\ UNCHANGED <<size, overrun>>

AppendMoved(m, w, s, len) ==
  LET readable == w - readIndex
      data == [i \in 0..(readable - 1) |-> m[readIndex + i]]
      front == kCheapPrepend + readable
  IN /\ len > size - w /\ Movable(w, len)
     /\ buffer' = Copied(Copied(m, kCheapPrepend, data, readable), front, s, len)
     /\ readIndex' = kCheapPrepend
     /\ writeIndex' = front + len
     /\ UNCHANGED <<size, overrun>>

AppendPast(m, w, len) ==
  /\ len > size - w /\ ~Movable(w, len)
  /\ size' = w
  /\ writeIndex' = w + len
  /\ overrun' = TRUE
  /\ buffer' = m
  /\ UNCHANGED readIndex

AppendTo(m, w, s, len) ==
  \/ AppendInPlace(m, w, s, len)
  \/ AppendMoved(m, w, s, len)
  \/ AppendPast(m, w, len)

-----------------------------------------------------------------------------
\* More bytes arrive than the bound allows.
Room(len) == put + len <= MaxBytes

append(len) ==
  /\ ~overrun /\ Room(len)
  /\ AppendTo(buffer, writeIndex, Bytes(put, len), len)
  /\ put' = put + len
  /\ UNCHANGED <<taken, out>>

\* readv fills the free end of the vector first, then extrabuf, which is not
\* offered when the end alone is as long.
ReadAtMost == IF writableBytes < ExtraSize THEN writableBytes + ExtraSize ELSE writableBytes

readFd(n) ==
  /\ ~overrun /\ Room(n) /\ n <= ReadAtMost
  /\ LET direct == IF n <= writableBytes THEN n ELSE writableBytes
         filled == Copied(buffer, writeIndex, Bytes(put, direct), direct)
     IN IF n <= writableBytes
        THEN /\ buffer' = filled
             /\ writeIndex' = writeIndex + n
             /\ UNCHANGED <<size, readIndex, overrun>>
        ELSE AppendTo(filled, size, Bytes(put + direct, n - direct), n - direct)
  /\ put' = put + n
  /\ UNCHANGED <<taken, out>>

\* Mutant: retrieveAll forgets writeIndex_.
RetrieveHalf(len) ==
  /\ readIndex' = IF len < readableBytes THEN readIndex + len ELSE kCheapPrepend
  /\ UNCHANGED writeIndex
  /\ taken' = taken + IF len < readableBytes THEN len ELSE readableBytes

\* retrieves, which takes all there is when asked for more.
Retrieve(len) ==
  /\ IF len < readableBytes
     THEN readIndex' = readIndex + len /\ UNCHANGED writeIndex
     ELSE readIndex' = kCheapPrepend /\ writeIndex' = kCheapPrepend
  /\ taken' = taken + IF len < readableBytes THEN len ELSE readableBytes

retrieves(len) ==
  /\ ~overrun
  /\ Retrieve(len)
  /\ UNCHANGED <<buffer, size, put, out, overrun>>

\* retrieveAllAsString asks for all there is; the code does not test for more.
retrieveAsString(len) ==
  /\ ~overrun /\ len <= readableBytes
  /\ out' = Peek(len)
  /\ Retrieve(len)
  /\ UNCHANGED <<buffer, size, put, overrun>>

\* write takes n of the bytes, or fails (and then out is as it was); what was
\* written is retrieved by the caller, as TcpConnection::handleWrite does.
writeFd(n) ==
  /\ ~overrun /\ n \in 1..readableBytes
  /\ out' = Peek(n)
  /\ Retrieve(n)
  /\ UNCHANGED <<buffer, size, put, overrun>>

Next ==
  \/ \E len \in Lens : append(len) \/ retrieves(len) \/ retrieveAsString(len)
  \/ \E n \in 1..ReadAtMost : readFd(n)
  \/ \E n \in 1..readableBytes : writeFd(n)

Spec == Init /\ [][Next]_vars

-----------------------------------------------------------------------------
TypeOK ==
  /\ buffer \in [0..(Capacity - 1) -> Int]
  /\ size \in Nat /\ readIndex \in Nat /\ writeIndex \in Nat
  /\ put \in Nat /\ taken \in Nat
  /\ overrun \in BOOLEAN

\* The indices are where the comments of Buffer.h put them, and resize has not
\* shrunk the vector, as long as nothing was written past it.
IndexesInOrder ==
  ~overrun => /\ kCheapPrepend <= readIndex /\ readIndex <= writeIndex
              /\ writeIndex <= size /\ size = Capacity

\* The buffer is a queue: between the indices lie the bytes that were put in and
\* not taken out, each in its place, wherever append has moved them and however
\* readFd has split them.
HoldsTheStream ==
  ~overrun => /\ readableBytes = put - taken
              /\ \A i \in 0..(readableBytes - 1) : buffer[readIndex + i] = taken + i

\* While what is to be held fits the size that the buffer was made with, append
\* stays within the vector, wherever the indices are: the space that reading has
\* freed in front is used, to the last byte.
RoomIsUsed == put - taken <= InitialSize => ~overrun

\* What the comments of ensureWritableBytes and makeSpace say: they see to it that
\* len bytes can be written, so append never leaves the vector.
NeverOverrun == ~overrun

\* What is read or written to a socket is the next of the stream.
OutInOrder ==
  [][out' # out => \A i \in DOMAIN out' : out'[i] = taken + i]_vars
=============================================================================
