---------------------------- MODULE BufferProofs ----------------------------
(***************************************************************************)
(* The indices of Buffer stay in order, what lies between them is what was *)
(* put in and not taken out, and nothing is written past the vector while  *)
(* the data fits: for every size of the vector and every sequence of       *)
(* calls.  What is inductive is the four invariants together.              *)
(***************************************************************************)
EXTENDS Buffer, TLAPS

IInv == TypeOK /\ IndexesInOrder /\ HoldsTheStream /\ RoomIsUsed

\* The part of the invariant that the calls preserve while nothing is overrun,
\* in terms of the memory m and the end w of its data, p bytes having been put in.
Holds(m, w, p) ==
  /\ m \in [0..(Capacity - 1) -> Int]
  /\ w \in Nat /\ p \in Nat
  /\ readIndex <= w /\ w <= Capacity
  /\ w - readIndex = p - taken
  /\ \A i \in 0..(w - readIndex - 1) : m[readIndex + i] = taken + i

\* Copying the next bytes of the stream behind those that m holds keeps m what it
\* is to be: the step common to append and to both halves of readFd.
LEMMA CopyExtends ==
  ASSUME NEW m, NEW w, NEW p, NEW n \in Nat,
         readIndex \in Nat, taken \in Nat,
         Holds(m, w, p), w + n <= Capacity
  PROVE  Holds(Copied(m, w, Bytes(p, n), n), w + n, p + n)
<1> DEFINE c == Copied(m, w, Bytes(p, n), n)
<1> USE BufferAssumption
<1>1. Capacity \in Nat /\ m \in [0..(Capacity - 1) -> Int] /\ w \in Nat /\ p \in Nat
  BY DEF Holds, Capacity
<1>2. c = [i \in 0..(Capacity - 1) |-> IF w <= i /\ i < w + n THEN p + (i - w) ELSE m[i]]
  <2>1. DOMAIN m = 0..(Capacity - 1)
    BY <1>1
  <2>2. ASSUME NEW i \in 0..(Capacity - 1), w <= i, i < w + n
        PROVE  Bytes(p, n)[i - w] = p + (i - w)
    BY <1>1, <2>2 DEF Bytes
  <2>3. QED
    BY <1>1, <2>1, <2>2 DEF Copied
<1>3. c \in [0..(Capacity - 1) -> Int]
  BY <1>1, <1>2
<1>4. ASSUME NEW i \in 0..(w + n - readIndex - 1)
      PROVE  c[readIndex + i] = taken + i
  <2>1. readIndex + i \in 0..(Capacity - 1)
    BY <1>1, <1>4 DEF Holds
  <2>2. CASE readIndex + i < w
    <3>1. i \in 0..(w - readIndex - 1)
      BY <1>1, <1>4, <2>2
    <3>2. c[readIndex + i] = m[readIndex + i]
      BY <1>1, <1>2, <2>1, <2>2
    <3>3. QED
      BY <3>1, <3>2 DEF Holds
  <2>3. CASE readIndex + i >= w
    <3>1. c[readIndex + i] = p + (readIndex + i - w)
      BY <1>1, <1>2, <1>4, <2>1, <2>3
    <3>2. QED
      BY <1>1, <1>4, <3>1 DEF Holds
  <2>4. QED
    BY <1>1, <1>4, <2>2, <2>3
<1>5. QED
  BY <1>1, <1>3, <1>4 DEF Holds

\* What AppendTo does to a memory that holds the stream.
LEMMA AppendKeeps ==
  ASSUME NEW m, NEW w, NEW p, NEW n \in Nat,
         TypeOK, kCheapPrepend <= readIndex, size = Capacity,
         ~overrun, Holds(m, w, p),
         AppendTo(m, w, Bytes(p, n), n), put' = p + n, taken' = taken
  PROVE  IInv'
<1> USE BufferAssumption
<1>1. /\ Capacity \in Nat /\ w \in Nat /\ p \in Nat /\ Capacity = kCheapPrepend + InitialSize
      /\ size \in Nat /\ readIndex \in Nat /\ taken \in Nat
  BY DEF Holds, Capacity, TypeOK
<1>2. ASSUME NEW m2 \in [0..(Capacity - 1) -> Int], NEW r2 \in Nat, NEW w2 \in Nat,
             kCheapPrepend <= r2, r2 <= w2, w2 <= Capacity, w2 - r2 = p + n - taken,
             \A i \in 0..(w2 - r2 - 1) : m2[r2 + i] = taken + i,
             buffer' = m2, readIndex' = r2, writeIndex' = w2, size' = size, overrun' = overrun
      PROVE  IInv'
  <2>1. TypeOK'
    BY <1>1, <1>2 DEF TypeOK, Capacity
  <2>2. IndexesInOrder'
    BY <1>1, <1>2 DEF IndexesInOrder, Capacity
  <2>3. /\ ~overrun' /\ put' - taken' = p + n - taken
        /\ p + n - taken <= InitialSize
    <3>1. put' - taken' = p + n - taken
      BY <1>1
    <3>2. p + n - taken <= Capacity - kCheapPrepend
      BY <1>1, <1>2
    <3>3. QED
      BY <1>1, <1>2, <3>1, <3>2
  <2>4. HoldsTheStream'
    BY <1>1, <1>2, <2>3 DEF HoldsTheStream, readableBytes
  <2>5. RoomIsUsed'
    BY <1>1, <1>2, <2>3 DEF RoomIsUsed
  <2>6. QED
    BY <2>1, <2>2, <2>4, <2>5 DEF IInv
<1>3. CASE AppendInPlace(m, w, Bytes(p, n), n)
  <2>1. Holds(Copied(m, w, Bytes(p, n), n), w + n, p + n)
    <3>1. n <= size - w /\ w + n <= Capacity
      BY <1>1, <1>3 DEF AppendInPlace
    <3>2. QED
      BY <1>1, <3>1, CopyExtends
  <2> DEFINE copied == Copied(m, w, Bytes(p, n), n)
  <2>2. /\ copied \in [0..(Capacity - 1) -> Int] /\ w + n \in Nat
        /\ readIndex <= w + n /\ w + n <= Capacity /\ (w + n) - readIndex = p + n - taken
        /\ \A i \in 0..((w + n) - readIndex - 1) : copied[readIndex + i] = taken + i
    BY <1>1, <2>1 DEF Holds
  <2>3. /\ buffer' = copied /\ readIndex' = readIndex /\ writeIndex' = w + n
        /\ size' = size /\ overrun' = overrun
    BY <1>3 DEF AppendInPlace
  <2> HIDE DEF copied
  <2>4. QED
    BY <1>1, <1>2, <2>2, <2>3
<1>4. CASE AppendMoved(m, w, Bytes(p, n), n)
  <2> DEFINE readable == w - readIndex
             data == [i \in 0..(readable - 1) |-> m[readIndex + i]]
             front == kCheapPrepend + readable
             moved == Copied(m, kCheapPrepend, data, readable)
             copied == Copied(moved, front, Bytes(p, n), n)
  <2>1. /\ buffer' = copied /\ readIndex' = kCheapPrepend /\ writeIndex' = front + n
        /\ size' = size /\ overrun' = overrun
        /\ n <= (size - w) + readIndex - kCheapPrepend
    BY <1>4 DEF AppendMoved, Movable, prependableBytes
  <2>2. /\ readable \in Nat /\ front \in Nat /\ front + n <= Capacity
        /\ m \in [0..(Capacity - 1) -> Int] /\ readable = p - taken
    BY <1>1, <2>1 DEF Holds
  <2> HIDE DEF readable, front
  <2>3. moved = [i \in 0..(Capacity - 1) |->
                   IF kCheapPrepend <= i /\ i < front THEN m[readIndex + (i - kCheapPrepend)]
                                                      ELSE m[i]]
    <3>1. DOMAIN m = 0..(Capacity - 1) /\ front = kCheapPrepend + readable
      BY <2>2 DEF front
    <3>2. ASSUME NEW i \in 0..(Capacity - 1), kCheapPrepend <= i, i < front
          PROVE  data[i - kCheapPrepend] = m[readIndex + (i - kCheapPrepend)]
      BY <1>1, <2>2, <3>1, <3>2
    <3>3. QED
      BY <1>1, <2>2, <3>1, <3>2 DEF Copied
  <2> HIDE DEF moved
  <2>4. ASSUME NEW i \in 0..(Capacity - 1), kCheapPrepend <= i, i < front
        PROVE  /\ i - kCheapPrepend \in 0..(w - readIndex - 1)
               /\ readIndex + (i - kCheapPrepend) \in 0..(Capacity - 1)
    BY <1>1, <2>2, <2>4 DEF Holds, front, readable
  <2>5. moved \in [0..(Capacity - 1) -> Int]
    BY <1>1, <2>2, <2>3, <2>4
  <2>6. copied = [i \in 0..(Capacity - 1) |->
                    IF front <= i /\ i < front + n THEN p + (i - front) ELSE moved[i]]
    <3>1. ASSUME NEW i \in 0..(Capacity - 1), front <= i, i < front + n
          PROVE  Bytes(p, n)[i - front] = p + (i - front)
      BY <1>1, <2>2, <3>1 DEF Bytes
    <3>2. DOMAIN moved = 0..(Capacity - 1)
      BY <2>5
    <3>3. QED
      BY <1>1, <2>2, <3>1, <3>2 DEF Copied
  <2> HIDE DEF copied
  <2>7. copied \in [0..(Capacity - 1) -> Int]
    BY <1>1, <2>2, <2>5, <2>6
  <2> DEFINE end == front + n
  <2>8. /\ end \in Nat /\ kCheapPrepend <= end /\ end <= Capacity
        /\ end - kCheapPrepend = p + n - taken
        /\ writeIndex' = end
    BY <1>1, <2>1, <2>2 DEF front
  <2>9. \A i \in 0..(end - kCheapPrepend - 1) : copied[kCheapPrepend + i] = taken + i
    <3> SUFFICES ASSUME NEW i \in 0..(end - kCheapPrepend - 1)
                 PROVE  copied[kCheapPrepend + i] = taken + i
      OBVIOUS
    <3>1. kCheapPrepend + i \in 0..(Capacity - 1) /\ i \in Nat
      BY <1>1, <2>2, <2>8
    <3>2. CASE kCheapPrepend + i < front
      <4>1. /\ copied[kCheapPrepend + i] = moved[kCheapPrepend + i]
            /\ moved[kCheapPrepend + i] = m[readIndex + (kCheapPrepend + i - kCheapPrepend)]
        BY <1>1, <2>2, <2>3, <2>6, <3>1, <3>2
      <4>2. kCheapPrepend + i - kCheapPrepend = i
        BY <3>1
      <4>3. i \in 0..(w - readIndex - 1)
        BY <2>4, <3>1, <3>2, <4>2
      <4>4. QED
        BY <4>1, <4>2, <4>3 DEF Holds
    <3>3. CASE kCheapPrepend + i >= front
      <4>1. kCheapPrepend + i < front + n
        BY <1>1, <2>2, <3>1
      <4>2. copied[kCheapPrepend + i] = p + (kCheapPrepend + i - front)
        BY <2>2, <2>6, <3>1, <3>3, <4>1
      <4>3. QED
        BY <1>1, <2>2, <2>8, <3>1, <4>2
    <3>4. QED
      BY <1>1, <2>2, <3>1, <3>2, <3>3
  <2> HIDE DEF end
  <2> DEFINE start == kCheapPrepend
  <2>10. /\ start \in Nat /\ kCheapPrepend <= start /\ start <= end
         /\ end - start = p + n - taken
         /\ \A i \in 0..(end - start - 1) : copied[start + i] = taken + i
         /\ readIndex' = start
    BY <2>1, <2>8, <2>9
  <2> HIDE DEF start
  <2>11. buffer' = copied /\ size' = size /\ overrun' = overrun
    BY <2>1
  <2>12. QED
    BY <1>2, <2>7, <2>8, <2>10, <2>11
<1>5. CASE AppendPast(m, w, n)
  <2>1. p + n - taken > InitialSize
    BY <1>1, <1>5 DEF AppendPast, Movable, prependableBytes, Holds, Capacity
  <2>2. QED
    BY <1>1, <1>5, <2>1 DEF AppendPast, Holds, IInv, TypeOK, IndexesInOrder, HoldsTheStream,
                            RoomIsUsed
<1>6. QED
  BY <1>3, <1>4, <1>5 DEF AppendTo

-----------------------------------------------------------------------------
LEMMA InitKeeps == Init => IInv
<1> SUFFICES ASSUME Init PROVE IInv
  OBVIOUS
<1> USE BufferAssumption DEF Init, Capacity
<1>1. TypeOK
  <2>1. buffer \in [0..(Capacity - 1) -> Int]
    OBVIOUS
  <2>2. size \in Nat /\ readIndex \in Nat /\ writeIndex \in Nat
    OBVIOUS
  <2>3. put \in Nat /\ taken \in Nat /\ overrun \in BOOLEAN
    OBVIOUS
  <2>4. QED
    BY <2>1, <2>2, <2>3 DEF TypeOK
<1>2. IndexesInOrder /\ HoldsTheStream /\ RoomIsUsed
  BY DEF IndexesInOrder, HoldsTheStream, RoomIsUsed, readableBytes
<1>3. QED
  BY <1>1, <1>2 DEF IInv

\* While nothing is overrun, the buffer holds the stream in the terms of Holds.
LEMMA IInvHolds ==
  ASSUME IInv, ~overrun
  PROVE  /\ Holds(buffer, writeIndex, put)
         /\ size = Capacity /\ kCheapPrepend <= readIndex
         /\ put - taken <= InitialSize
  BY BufferAssumption
     DEF IInv, Holds, TypeOK, IndexesInOrder, HoldsTheStream, RoomIsUsed,
         readableBytes, Capacity

LEMMA AppendCallKeeps ==
  ASSUME IInv, NEW len \in Nat, append(len)
  PROVE  IInv'
<1>1. Holds(buffer, writeIndex, put) /\ size = Capacity /\ kCheapPrepend <= readIndex /\ TypeOK
  BY IInvHolds DEF append, IInv
<1>2. QED
  BY <1>1, AppendKeeps DEF append

\* Both halves of readFd: what fits the end of the vector, and the rest.
LEMMA ReadFdKeeps ==
  ASSUME IInv, NEW n \in Nat, readFd(n)
  PROVE  IInv'
<1> USE BufferAssumption
<1> DEFINE direct == IF n <= writableBytes THEN n ELSE writableBytes
           filled == Copied(buffer, writeIndex, Bytes(put, direct), direct)
<1>1. /\ Holds(buffer, writeIndex, put) /\ size = Capacity /\ kCheapPrepend <= readIndex
      /\ TypeOK /\ ~overrun
  BY IInvHolds DEF readFd, IInv
<1>2. /\ writableBytes \in Nat /\ direct \in Nat /\ direct <= n
      /\ writeIndex + direct <= Capacity /\ readIndex \in Nat /\ taken \in Nat
      /\ Capacity \in Nat /\ put \in Nat /\ writeIndex \in Nat
  BY <1>1 DEF Holds, TypeOK, writableBytes, Capacity
<1> HIDE DEF direct
<1>3. Holds(filled, writeIndex + direct, put + direct)
  BY <1>1, <1>2, CopyExtends
<1> HIDE DEF filled
<1>4. CASE n <= writableBytes
  <2>1. /\ buffer' = filled /\ writeIndex' = writeIndex + n /\ direct = n
        /\ UNCHANGED <<size, readIndex, overrun, taken>> /\ put' = put + n
    BY <1>4 DEF readFd, filled, direct
  <2>2. TypeOK'
    BY <1>1, <1>2, <1>3, <2>1 DEF TypeOK, Holds, Capacity
  <2>3. IndexesInOrder'
    BY <1>1, <1>2, <1>3, <2>1 DEF IndexesInOrder, Holds, Capacity
  <2>4. HoldsTheStream'
    BY <1>1, <1>2, <1>3, <2>1 DEF HoldsTheStream, Holds, readableBytes
  <2>5. RoomIsUsed'
    BY <1>1, <1>2, <1>3, <2>1 DEF RoomIsUsed, Holds, Capacity
  <2>6. QED
    BY <2>2, <2>3, <2>4, <2>5 DEF IInv
<1>5. CASE n > writableBytes
  <2>1. /\ AppendTo(filled, size, Bytes(put + direct, n - direct), n - direct)
        /\ taken' = taken /\ put' = put + n /\ direct = writableBytes
    BY <1>2, <1>5 DEF readFd, filled, direct
  <2>2. size = writeIndex + direct /\ put + direct + (n - direct) = put + n
        /\ n - direct \in Nat
    BY <1>1, <1>2, <2>1 DEF writableBytes, TypeOK
  <2>3. QED
    BY <1>1, <1>3, <2>1, <2>2, AppendKeeps
<1>6. QED
  BY <1>2, <1>4, <1>5

\* What retrieve leaves is the stream from a later byte on.
LEMMA RetrieveKeeps ==
  ASSUME IInv, ~overrun, NEW len \in Nat, Retrieve(len),
         UNCHANGED <<buffer, size, put, overrun>>
  PROVE  IInv'
<1> USE BufferAssumption
<1>1. /\ Holds(buffer, writeIndex, put) /\ size = Capacity /\ kCheapPrepend <= readIndex
      /\ TypeOK /\ Capacity \in Nat /\ kCheapPrepend <= Capacity
      /\ put - taken <= InitialSize
  BY IInvHolds DEF IInv, Capacity
<1>2. TypeOK'
  BY <1>1 DEF TypeOK, Retrieve, readableBytes, Holds
<1>3. IndexesInOrder'
  BY <1>1 DEF TypeOK, Retrieve, readableBytes, Holds, IndexesInOrder, Capacity
<1>4. RoomIsUsed'
  BY <1>1 DEF TypeOK, Retrieve, readableBytes, Holds, RoomIsUsed
<1>5. HoldsTheStream'
  <2>1. CASE len < readableBytes
    <3>1. readIndex' = readIndex + len /\ writeIndex' = writeIndex /\ taken' = taken + len
      BY <2>1 DEF Retrieve
    <3>2. ASSUME NEW i \in 0..(writeIndex' - readIndex' - 1)
          PROVE  buffer'[readIndex' + i] = taken' + i
      <4>1. len + i \in 0..(writeIndex - readIndex - 1)
        BY <1>1, <2>1, <3>1, <3>2 DEF TypeOK
      <4>2. buffer[readIndex + (len + i)] = taken + (len + i)
        BY <1>1, <4>1 DEF Holds
      <4>3. QED
        BY <1>1, <3>1, <3>2, <4>2 DEF TypeOK
    <3>3. QED
      BY <1>1, <3>1, <3>2 DEF HoldsTheStream, readableBytes, Holds, TypeOK
  <2>2. CASE len >= readableBytes
    <3>1. /\ readIndex' = kCheapPrepend /\ writeIndex' = kCheapPrepend
          /\ taken' = taken + readableBytes
      BY <1>1, <2>2 DEF Retrieve, readableBytes, TypeOK
    <3>2. put' = put /\ put \in Nat /\ taken \in Nat /\ writeIndex - readIndex = put - taken
      BY <1>1 DEF Holds, TypeOK
    <3>3. writeIndex' - readIndex' = 0 /\ put' - taken' = 0
      BY <3>1, <3>2 DEF readableBytes
    <3>4. QED
      BY <3>3 DEF HoldsTheStream, readableBytes
  <2>3. QED
    BY <1>1, <2>1, <2>2 DEF readableBytes, TypeOK
<1>6. QED
  BY <1>2, <1>3, <1>4, <1>5 DEF IInv

LEMMA NextKeeps == IInv /\ [Next]_vars => IInv'
<1> SUFFICES ASSUME IInv, [Next]_vars PROVE IInv'
  OBVIOUS
<1> USE BufferAssumption
<1>1. TypeOK
  BY DEF IInv
<1>2. ASSUME NEW len \in Lens, append(len) PROVE IInv'
  BY <1>2, AppendCallKeeps
<1>3. ASSUME NEW len \in Lens, retrieves(len) PROVE IInv'
  BY <1>3, RetrieveKeeps DEF retrieves
<1>4. ASSUME NEW len \in Lens, retrieveAsString(len) PROVE IInv'
  BY <1>4, RetrieveKeeps DEF retrieveAsString
<1>5. ASSUME NEW n \in 1..ReadAtMost, readFd(n) PROVE IInv'
  <2>1. n \in Nat
    BY <1>1, <1>5 DEF ReadAtMost, writableBytes, TypeOK
  <2>2. QED
    BY <1>5, <2>1, ReadFdKeeps
<1>6. ASSUME NEW n \in 1..readableBytes, writeFd(n) PROVE IInv'
  <2>1. n \in Nat
    BY <1>1, <1>6 DEF readableBytes, TypeOK
  <2>2. QED
    BY <1>6, <2>1, RetrieveKeeps DEF writeFd
<1>7. CASE UNCHANGED vars
  BY <1>7 DEF vars, IInv, TypeOK, IndexesInOrder, HoldsTheStream, RoomIsUsed,
              readableBytes
<1>8. QED
  BY <1>2, <1>3, <1>4, <1>5, <1>6, <1>7 DEF Next

LEMMA Inductive == Spec => []IInv
<1>1. QED
  BY InitKeeps, NextKeeps, PTL DEF Spec

\* The indices stay where the code expects them (makeSpace, Buffer.h:96).
THEOREM BufferIndexes == Spec => [](TypeOK /\ IndexesInOrder)
<1>1. IInv => TypeOK /\ IndexesInOrder
  BY DEF IInv
<1>2. QED
  BY <1>1, Inductive, PTL

\* The buffer is a queue (append, retrieves, readFd).
THEOREM BufferHoldsTheStream == Spec => []HoldsTheStream
<1>1. IInv => HoldsTheStream
  BY DEF IInv
<1>2. QED
  BY <1>1, Inductive, PTL

\* append (Buffer.h:69) writes nothing past the vector while the data fits the size it was made for.
THEOREM RoomAlwaysUsed == Spec => []RoomIsUsed
<1>1. IInv => RoomIsUsed
  BY DEF IInv
<1>2. QED
  BY <1>1, Inductive, PTL

\* What is read from the buffer is the next of the stream (retrieveAsString, writeFd).
THEOREM BufferOutInOrder == Spec => OutInOrder
<1>1. IInv /\ [Next]_vars =>
        [out' # out => \A i \in DOMAIN out' : out'[i] = taken + i]_vars
  <2> SUFFICES ASSUME IInv, Next, out' # out, NEW i \in DOMAIN out'
               PROVE  out'[i] = taken + i
    OBVIOUS
  <2> USE BufferAssumption
  <2>1. ASSUME NEW len \in Int, len <= readableBytes, ~overrun, out' = Peek(len)
        PROVE  out'[i] = taken + i
    <3>1. out' = [j \in 0..(len - 1) |-> buffer[readIndex + j]]
      BY <2>1 DEF Peek
    <3>2. i \in 0..(len - 1) /\ out'[i] = buffer[readIndex + i]
      BY <3>1
    <3>3. i \in 0..(readableBytes - 1)
      BY <2>1, <3>2 DEF IInv, TypeOK, readableBytes
    <3>4. QED
      BY <2>1, <3>2, <3>3 DEF IInv, HoldsTheStream
  <2>2. ASSUME NEW len \in Lens, retrieveAsString(len) PROVE out'[i] = taken + i
    BY <2>1, <2>2 DEF retrieveAsString
  <2>3. ASSUME NEW n \in 1..readableBytes, writeFd(n) PROVE out'[i] = taken + i
    <3>1. n \in Int /\ n <= readableBytes
      BY <2>3 DEF IInv, TypeOK, readableBytes
    <3>2. QED
      BY <2>1, <2>3, <3>1 DEF writeFd
  <2>4. QED
    BY <2>2, <2>3 DEF Next, append, retrieves, readFd
<1>2. QED
  BY <1>1, Inductive, PTL DEF Spec, OutInOrder
=============================================================================
