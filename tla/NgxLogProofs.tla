---------------------------- MODULE NgxLogProofs ---------------------------
(***************************************************************************)
(* Proofs about NgxLog, for any sizes, texts and numbers and for all calls  *)
(* whose items fit (CallAssumption).  The prover knows no induction that    *)
(* takes a predicate, so the first part derives what is needed, with sets   *)
(* for predicates, from the well-foundedness of < on the natural numbers.   *)
(***************************************************************************)
EXTENDS NgxLog, SequenceTheorems, WellFoundedInduction, TLAPS

-----------------------------------------------------------------------------
(* Induction and recursion. *)

\* A set of natural numbers has a least element.
LEMMA Least ==
  ASSUME NEW S \in SUBSET Nat, S # {}
  PROVE  \E x \in S : \A y \in S : x <= y
<1> DEFINE R == OpToRel(<, Nat)
<1>1. IsWellFoundedOn(R, Nat)
  BY NatLessThanWellFounded, Zenon
<1>2. \A x, y \in Nat : <<x, y>> \in R <=> x < y
  BY DEF OpToRel
<1> HIDE DEF R
<1>3. PICK x \in S : \A y \in S : ~(<<y, x>> \in R)
  BY <1>1, WFMin
<1>4. ASSUME NEW y \in S PROVE x <= y
  <2>1. x \in Nat /\ y \in Nat
    OBVIOUS
  <2>2. <<y, x>> \in R <=> y < x
    BY <1>2, <2>1
  <2>3. QED
    BY <1>3, <2>1, <2>2
<1>5. QED
  BY <1>4

\* Induction on the natural numbers, for membership in a set.
LEMMA Induct ==
  ASSUME NEW S, 0 \in S, \A n \in Nat : n \in S => n + 1 \in S
  PROVE  \A n \in Nat : n \in S
<1> SUFFICES ASSUME NEW n \in Nat, n \notin S PROVE FALSE
  OBVIOUS
<1> DEFINE T == {m \in Nat : m \notin S}
<1>1. PICK x \in T : \A y \in T : x <= y
  <2>1. T \in SUBSET Nat /\ n \in T
    OBVIOUS
  <2> HIDE DEF T
  <2>2. QED
    BY <2>1, Least
<1>2. x \in Nat /\ x # 0 /\ x \notin S
  OBVIOUS
<1>3. x - 1 \in Nat /\ x - 1 < x /\ (x - 1) + 1 = x
  BY <1>2
<1>4. x - 1 \notin T
  BY <1>1, <1>2, <1>3
<1>5. x - 1 \in S
  BY <1>3, <1>4
<1>6. QED
  BY <1>2, <1>3, <1>5

\* A property of all that is ranked lower holds of all.
Climbs(D, G, rank) ==
  /\ rank \in [D -> Nat]
  /\ \A x \in D : (\A y \in D : rank[y] < rank[x] => y \in G) => x \in G

\* Induction on a rank.
LEMMA RankInduct ==
  ASSUME NEW D, NEW G, NEW rank, Climbs(D, G, rank)
  PROVE  \A x \in D : x \in G
<1>0. /\ rank \in [D -> Nat]
      /\ \A x \in D : (\A y \in D : rank[y] < rank[x] => y \in G) => x \in G
  BY DEF Climbs
<1> DEFINE S == {n \in Nat : \A x \in D : rank[x] < n => x \in G}
<1>1. 0 \in S
  BY <1>0
<1>2. ASSUME NEW n \in Nat, n \in S PROVE n + 1 \in S
  <2>1. ASSUME NEW x \in D, rank[x] < n + 1 PROVE x \in G
    <3>1. \A y \in D : rank[y] < rank[x] => rank[y] < n
      BY <1>0, <2>1
    <3>2. QED
      BY <1>0, <1>2, <3>1
  <2>2. QED
    BY <2>1
<1>3. \A n \in Nat : n \in S
  <2> HIDE DEF S
  <2>1. QED
    BY <1>1, <1>2, Induct
<1>4. ASSUME NEW x \in D PROVE x \in G
  <2>1. rank[x] + 1 \in Nat /\ rank[x] < rank[x] + 1
    BY <1>0
  <2>2. QED
    BY <1>3, <2>1
<1>5. QED
  BY <1>4

\* The data of a recursion: the inputs in P are computed from the input prev.
IsRecursion(D, V, P, rank, prev, base, step) ==
  /\ P \in SUBSET D /\ rank \in [D -> Nat] /\ prev \in [P -> D]
  /\ \A x \in P : rank[prev[x]] < rank[x]
  /\ base \in [D -> V] /\ step \in [D \X V -> V]

\* There is a function defined by recursion on what is ranked lower.
LEMMA Recursion ==
  ASSUME NEW D, NEW V, NEW P, NEW rank, NEW prev, NEW base, NEW step,
         IsRecursion(D, V, P, rank, prev, base, step)
  PROVE  \E f \in [D -> V] : \A x \in D : f[x] = IF x \in P THEN step[<<x, f[prev[x]]>>] ELSE base[x]
<1>0. /\ P \in SUBSET D /\ rank \in [D -> Nat] /\ prev \in [P -> D]
      /\ \A x \in P : rank[prev[x]] < rank[x]
      /\ base \in [D -> V] /\ step \in [D \X V -> V]
  BY DEF IsRecursion
<1> USE <1>0
<1> DEFINE Dom(n) == {x \in D : rank[x] < n}
           Eq(g, x) == g[x] = IF x \in P THEN step[<<x, g[prev[x]]>>] ELSE base[x]
           Part(n) == {g \in [Dom(n) -> V] : \A x \in Dom(n) : Eq(g, x)}
           S == {n \in Nat : \E g : g \in Part(n)}
<1>1. 0 \in S
  <2>1. Dom(0) = {}
    OBVIOUS
  <2>2. [x \in {} |-> x] \in [{} -> V]
    OBVIOUS
  <2>3. [x \in {} |-> x] \in Part(0)
    BY <2>1, <2>2
  <2>4. QED
    BY <2>3
<1>2. ASSUME NEW n \in Nat, n \in S PROVE n + 1 \in S
  <2>1. PICK g : g \in Part(n)
    BY <1>2
  <2> DEFINE h == [x \in Dom(n + 1) |-> IF x \in Dom(n) THEN g[x]
                    ELSE IF x \in P THEN step[<<x, g[prev[x]]>>] ELSE base[x]]
  <2>2. \A x \in Dom(n) : x \in Dom(n + 1) /\ g[x] \in V /\ h[x] = g[x] /\ Eq(g, x)
    BY <2>1
  <2>3. \A x \in Dom(n + 1) : x \in P => prev[x] \in Dom(n)
    OBVIOUS
  <2>4. \A x \in Dom(n + 1) : h[x] \in V
    BY <2>2, <2>3
  <2>5. \A x \in Dom(n + 1) : Eq(h, x)
    <3> SUFFICES ASSUME NEW x \in Dom(n + 1) PROVE Eq(h, x)
      OBVIOUS
    <3>1. h[x] = IF x \in P THEN step[<<x, g[prev[x]]>>] ELSE base[x]
      BY <2>2
    <3>2. x \in P => h[prev[x]] = g[prev[x]]
      BY <2>2, <2>3
    <3>3. QED
      BY <3>1, <3>2
  <2>6. h \in [Dom(n + 1) -> V]
    BY <2>4
  <2>7. h \in Part(n + 1)
    BY <2>5, <2>6
  <2> HIDE DEF h, Part
  <2>8. QED
    BY <2>7
<1>3. \A n \in Nat : \E g : g \in Part(n)
  <2>1. \A n \in Nat : n \in S
    <3> HIDE DEF S
    <3>1. QED
      BY <1>1, <1>2, Induct
  <2>2. QED
    BY <2>1
<1> DEFINE Agree == {x \in D : \A m, n \in Nat : \A g, h :
                         g \in Part(m) /\ h \in Part(n) /\ rank[x] < m /\ rank[x] < n => g[x] = h[x]}
<1>4. \A x \in D : x \in Agree
  <2>1. ASSUME NEW x \in D, \A y \in D : rank[y] < rank[x] => y \in Agree PROVE x \in Agree
    <3> SUFFICES \A m, n \in Nat : \A g, h :
                   g \in Part(m) /\ h \in Part(n) /\ rank[x] < m /\ rank[x] < n => g[x] = h[x]
      <4> HIDE DEF Part
      <4>1. QED
        OBVIOUS
    <3> TAKE m \in Nat, n \in Nat
    <3> TAKE g, h
    <3> HAVE g \in Part(m) /\ h \in Part(n) /\ rank[x] < m /\ rank[x] < n
    <3>1. Eq(g, x) /\ Eq(h, x)
      OBVIOUS
    <3> HIDE DEF Part
    <3>2. CASE x \in P
      <4>1. prev[x] \in D /\ rank[prev[x]] < rank[x] /\ rank[prev[x]] \in Nat
        BY <3>2
      <4>2. prev[x] \in Agree
        BY <2>1, <4>1
      <4>3. rank[prev[x]] < m /\ rank[prev[x]] < n
        <5>1. rank[x] \in Nat
          OBVIOUS
        <5>2. QED
          BY <4>1, <5>1
      <4>4. g[prev[x]] = h[prev[x]]
        BY <4>2, <4>3
      <4>5. QED
        BY <3>1, <3>2, <4>4
    <3>3. QED
      BY <3>1, <3>2
  <2>2. QED
    <3> HIDE DEF Agree
    <3>1. Climbs(D, Agree, rank)
      BY <2>1 DEF Climbs
    <3>2. QED
      BY <3>1, RankInduct
<1> DEFINE G(n) == CHOOSE g : g \in Part(n)
           f == [x \in D |-> G(rank[x] + 1)[x]]
<1>5. \A n \in Nat : G(n) \in Part(n)
  <2> HIDE DEF Part
  <2>1. QED
    BY <1>3
<1>6. ASSUME NEW x \in D PROVE f[x] \in V /\ Eq(f, x)
  <2> DEFINE r == rank[x]
             g == G(r + 1)
  <2>1. r \in Nat /\ r + 1 \in Nat /\ x \in Dom(r + 1)
    OBVIOUS
  <2>2. g \in Part(r + 1)
    <3> HIDE DEF Part, G, r
    <3>1. QED
      BY <1>5, <2>1
  <2>3. f[x] = g[x] /\ g[x] \in V /\ Eq(g, x)
    BY <2>1, <2>2
  <2>4. ASSUME x \in P PROVE f[prev[x]] = g[prev[x]]
    <3> DEFINE y == prev[x]
               q == rank[y]
    <3>1. y \in D /\ q \in Nat /\ q < r /\ q + 1 \in Nat /\ q < q + 1 /\ q < r + 1
      BY <2>4
    <3>2. G(q + 1) \in Part(q + 1)
      <4> HIDE DEF Part, G, q
      <4>1. QED
        BY <1>5, <3>1
    <3>3. f[y] = G(q + 1)[y]
      BY <3>1
    <3>4. y \in Agree
      BY <1>4, <3>1
    <3> HIDE DEF y, q, r, f, G, Part
    <3>5. G(q + 1)[y] = g[y]
      BY <2>1, <2>2, <3>1, <3>2, <3>4 DEF q
    <3>6. QED
      BY <3>3, <3>5 DEF y
  <2> HIDE DEF f, g
  <2>5. QED
    BY <2>3, <2>4
<1> HIDE DEF G
<1>7. f \in [D -> V]
  BY <1>6
<1> HIDE DEF f
<1>8. QED
  BY <1>6, <1>7

-----------------------------------------------------------------------------
(* The operators of the model. *)

\* Scale is what its recursive definition says, on all natural numbers.
LEMMA ScaleType == Scale \in [Nat -> Nat] /\ \A n \in Nat : Scale[n] = IF n = 0 THEN 1 ELSE 10 * Scale[n - 1]
<1> DEFINE rank == [n \in Nat |-> n]
           P == Nat \ {0}
           prev == [n \in P |-> n - 1]
           base == [n \in Nat |-> 1]
           step == [x \in Nat \X Nat |-> 10 * x[2]]
<1>1. IsRecursion(Nat, Nat, P, rank, prev, base, step)
  BY DEF IsRecursion
<1>2. PICK f \in [Nat -> Nat] : \A x \in Nat : f[x] = IF x \in P THEN step[<<x, f[prev[x]]>>] ELSE base[x]
  <2> HIDE DEF rank, P, prev, base, step
  <2>1. QED
    BY <1>1, Recursion
<1>3. ASSUME NEW n \in Nat PROVE f[n] = IF n = 0 THEN 1 ELSE 10 * f[n - 1]
  <2>1. n # 0 => n \in P /\ n - 1 \in Nat /\ prev[n] = n - 1 /\ f[n - 1] \in Nat
    OBVIOUS
  <2>2. QED
    BY <1>2, <2>1
<1>4. f = [n \in Nat |-> IF n = 0 THEN 1 ELSE 10 * f[n - 1]]
  BY <1>3
<1>5. Scale = [n \in Nat |-> IF n = 0 THEN 1 ELSE 10 * Scale[n - 1]]
  BY <1>4 DEF Scale
<1>6. \A n \in Nat : Scale[n] \in Nat
  <2> DEFINE S == {n \in Nat : Scale[n] \in Nat}
  <2>1. 0 \in S
    BY <1>5
  <2>2. ASSUME NEW n \in Nat, n \in S PROVE n + 1 \in S
    BY <1>5, <2>2
  <2> HIDE DEF S
  <2>3. \A n \in Nat : n \in S
    BY <2>1, <2>2, Induct
  <2>4. QED
    BY <2>3 DEF S
<1>7. QED
  BY <1>5, <1>6

-----------------------------------------------------------------------------
(* Sequences. *)

\* Sequences over a set are sequences over a larger one.
LEMMA SeqOfLarger ==
  ASSUME NEW S, NEW T, S \subseteq T
  PROVE  Seq(S) \subseteq Seq(T)
OBVIOUS

\* The head and the tail of a concatenation are those of its first part.
LEMMA HeadTail ==
  ASSUME NEW S, NEW s \in Seq(S), NEW t \in Seq(S), s # <<>>
  PROVE  /\ s \o t \in Seq(S) /\ (s \o t)[1] = s[1] /\ s[1] \in S
         /\ Tail(s) \in Seq(S) /\ Tail(s \o t) = Tail(s) \o t /\ s \o t # <<>>
         /\ Len(s \o t) = Len(s) + Len(t) /\ Len(Tail(s)) = Len(s) - 1
<1>1. Len(s) \in Nat /\ Len(s) > 0 /\ Len(t) \in Nat
  OBVIOUS
<1>2. s \o t \in Seq(S) /\ Len(s \o t) = Len(s) + Len(t) /\ (s \o t)[1] = s[1] /\ s[1] \in S /\ s \o t # <<>>
  BY <1>1
<1>3. Tail(s) \in Seq(S) /\ Len(Tail(s)) = Len(s) - 1 /\ \A i \in 1 .. Len(s) - 1 : Tail(s)[i] = s[i + 1]
  BY <1>1
<1>4. Tail(s \o t) = Tail(s) \o t
  <2> DEFINE u == Tail(s \o t)
             v == Tail(s) \o t
  <2>1. u \in Seq(S) /\ v \in Seq(S) /\ Len(u) = Len(v)
    BY <1>1, <1>2, <1>3
  <2>2. \A i \in 1 .. Len(u) : u[i] = v[i]
    BY <1>1, <1>2, <1>3
  <2> HIDE DEF u, v
  <2>3. u = v
    BY <2>1, <2>2, SeqEqual
  <2>4. QED
    BY <2>3 DEF u, v
<1>5. QED
  BY <1>2, <1>3, <1>4

\* Concatenation is associative and has an identity.
LEMMA Assoc ==
  ASSUME NEW S, NEW s \in Seq(S), NEW t \in Seq(S), NEW u \in Seq(S)
  PROVE  (s \o t) \o u = s \o (t \o u) /\ s \o <<>> = s /\ <<>> \o s = s
BY ConcatAssociative, ConcatEmptySeq

IsAssociative(T) == \A s, t, u \in T : (s \o t) \o u = s \o (t \o u)

LEMMA AssocAll ==
  ASSUME NEW S
  PROVE  IsAssociative(Seq(S))
<1>1. \A s, t, u \in Seq(S) : (s \o t) \o u = s \o (t \o u)
  BY ConcatAssociative
<1>2. QED
  BY <1>1, Zenon DEF IsAssociative

\* What stands after the first n.
LEMMA AfterType ==
  ASSUME NEW S, NEW s \in Seq(S), NEW n \in 0 .. Len(s)
  PROVE  /\ After(s, n) \in Seq(S) /\ Len(After(s, n)) = Len(s) - n
         /\ \A i \in 1 .. Len(s) - n : After(s, n)[i] = s[n + i]
BY DEF After

\* To drop from a concatenation what its first part holds is to drop it from that part.
LEMMA AfterConcat ==
  ASSUME NEW S, NEW s \in Seq(S), NEW t \in Seq(S), NEW n \in 0 .. Len(s)
  PROVE  After(s \o t, n) = After(s, n) \o t
<1> DEFINE w == s \o t
           h == After(s, n)
           u == After(w, n)
           v == h \o t
<1>1. Len(s) \in Nat /\ Len(t) \in Nat /\ n \in Nat /\ n <= Len(s)
  OBVIOUS
<1>2. /\ w \in Seq(S) /\ Len(w) = Len(s) + Len(t)
      /\ \A i \in 1 .. Len(w) : w[i] = IF i <= Len(s) THEN s[i] ELSE t[i - Len(s)]
  BY <1>1
<1>3. /\ h \in Seq(S) /\ Len(h) = Len(s) - n
      /\ \A i \in 1 .. Len(h) : h[i] = s[n + i]
  BY <1>1, AfterType
<1> HIDE DEF w, h
<1>4. n \in 0 .. Len(w)
  BY <1>1, <1>2
<1>5. u \in Seq(S) /\ Len(u) = Len(w) - n /\ \A i \in 1 .. Len(w) - n : u[i] = w[n + i]
  BY <1>2, <1>4, AfterType, Zenon
<1>6. /\ v \in Seq(S) /\ Len(v) = Len(h) + Len(t)
      /\ \A i \in 1 .. Len(v) : v[i] = IF i <= Len(h) THEN h[i] ELSE t[i - Len(h)]
  <2>1. h \in Seq(S) /\ Len(h) \in Nat /\ Len(t) \in Nat
    BY <1>1, <1>3
  <2>2. QED
    BY <2>1
<1> HIDE DEF u, v
<1>7. Len(u) = Len(v)
  BY <1>1, <1>2, <1>3, <1>5, <1>6
<1>8. ASSUME NEW i \in 1 .. Len(u) PROVE u[i] = v[i]
  <2>1. i \in 1 .. Len(w) - n /\ i \in 1 .. Len(v) /\ n + i \in 1 .. Len(w)
    BY <1>1, <1>2, <1>5, <1>7
  <2>2. u[i] = (IF n + i <= Len(s) THEN s[n + i] ELSE t[(n + i) - Len(s)])
    BY <1>2, <1>5, <2>1
  <2>3. v[i] = IF i <= Len(h) THEN h[i] ELSE t[i - Len(h)]
    BY <1>6, <2>1
  <2>4. CASE n + i <= Len(s)
    <3>1. i <= Len(h) /\ i \in 1 .. Len(h)
      BY <1>1, <1>3, <2>4
    <3>2. QED
      BY <1>3, <2>2, <2>3, <2>4, <3>1
  <2>5. CASE n + i > Len(s)
    <3>1. ~(i <= Len(h)) /\ ~(n + i <= Len(s)) /\ (n + i) - Len(s) = i - Len(h)
      BY <1>1, <1>3, <2>1, <2>5
    <3>2. QED
      BY <2>2, <2>3, <3>1
  <2>6. QED
    BY <1>1, <2>4, <2>5
<1>9. u = v
  BY <1>5, <1>6, <1>7, <1>8, SeqEqual
<1>10. QED
  BY <1>9 DEF u, v, w, h

\* A cut sequence is its beginning, and itself when it is short enough.
LEMMA UptoFacts ==
  ASSUME NEW S, NEW s \in Seq(S), NEW n \in Nat
  PROVE  /\ Upto(s, n) \in Seq(S) /\ Len(Upto(s, n)) = (IF Len(s) > n THEN n ELSE Len(s))
         /\ \A i \in 1 .. Len(Upto(s, n)) : Upto(s, n)[i] = s[i]
         /\ Len(s) <= n => Upto(s, n) = s
BY DEF Upto

\* What is appended to a full buffer is cut away.
LEMMA UptoConcat ==
  ASSUME NEW S, NEW s \in Seq(S), NEW t \in Seq(S), NEW n \in Nat, Len(s) >= n
  PROVE  Upto(s \o t, n) = Upto(s, n)
<1> DEFINE w == s \o t
           u == Upto(w, n)
           v == Upto(s, n)
<1>1. w \in Seq(S) /\ Len(w) = Len(s) + Len(t) /\ Len(s) \in Nat /\ Len(t) \in Nat
      /\ \A i \in 1 .. Len(s) : w[i] = s[i]
  OBVIOUS
<1> HIDE DEF w
<1>2. u \in Seq(S) /\ Len(u) = n /\ \A i \in 1 .. n : u[i] = w[i]
  <2>1. Len(w) >= n
    BY <1>1
  <2>2. Len(u) = (IF Len(w) > n THEN n ELSE Len(w)) /\ u \in Seq(S) /\ \A i \in 1 .. Len(u) : u[i] = w[i]
    BY <1>1, UptoFacts
  <2> HIDE DEF u
  <2>3. QED
    BY <1>1, <2>1, <2>2
<1>3. v \in Seq(S) /\ Len(v) = n /\ \A i \in 1 .. n : v[i] = s[i]
  <2>1. Len(v) = (IF Len(s) > n THEN n ELSE Len(s)) /\ v \in Seq(S) /\ \A i \in 1 .. Len(v) : v[i] = s[i]
    BY UptoFacts
  <2> HIDE DEF v
  <2>2. QED
    BY <1>1, <2>1
<1> HIDE DEF u, v
<1>4. \A i \in 1 .. n : u[i] = v[i]
  BY <1>1, <1>2, <1>3
<1>5. u = v
  BY <1>2, <1>3, <1>4, SeqEqual
<1>6. QED
  BY <1>5 DEF u, v, w

\* A cut sequence may be cut again.
LEMMA UptoTwice ==
  ASSUME NEW S, NEW s \in Seq(S), NEW m \in Nat, NEW n \in Nat, n <= m
  PROVE  Upto(Upto(s, m), n) = Upto(s, n)
<1> DEFINE w == Upto(s, m)
           u == Upto(w, n)
           v == Upto(s, n)
<1>1. w \in Seq(S) /\ Len(w) = (IF Len(s) > m THEN m ELSE Len(s)) /\ (\A i \in 1 .. Len(w) : w[i] = s[i]) /\ Len(s) \in Nat
  BY UptoFacts
<1>2. v \in Seq(S) /\ Len(v) = (IF Len(s) > n THEN n ELSE Len(s)) /\ \A i \in 1 .. Len(v) : v[i] = s[i]
  BY UptoFacts
<1> HIDE DEF w
<1>3. u \in Seq(S) /\ Len(u) = (IF Len(w) > n THEN n ELSE Len(w)) /\ \A i \in 1 .. Len(u) : u[i] = w[i]
  BY <1>1, UptoFacts
<1> HIDE DEF u, v
<1>4. Len(u) = Len(v)
  BY <1>1, <1>2, <1>3
<1>5. \A i \in 1 .. Len(u) : i \in 1 .. Len(w) /\ i \in 1 .. Len(v)
  BY <1>1, <1>3, <1>4
<1>6. \A i \in 1 .. Len(u) : u[i] = v[i]
  BY <1>1, <1>2, <1>3, <1>5
<1>7. u = v
  BY <1>2, <1>3, <1>4, <1>6, SeqEqual
<1>8. QED
  BY <1>7 DEF u, v, w

-----------------------------------------------------------------------------
(* Numbers and directives. *)

\* The characters.  The prover does not know that a literal is in STRING.
Char ==
  STRING \cup Digit
    \cup {"a", "b", "c", "d", "e", "f"} \cup {"A", "B", "C", "D", "E", "F"}
    \cup {"n", "g", "i", "x", ":", " ", "[", "]", "%", "s", "P", "-", ".", "\n"}

\* The digits are characters, and no sign of a directive is one.
LEMMA DigitFacts ==
  /\ Decimals \in Seq(Char) /\ Decimals \in Seq(Digit) /\ Len(Decimals) = 10
  /\ Digit \subseteq Char /\ (\A i \in 1 .. 10 : Decimals[i] \in Digit)
  /\ "." \notin Digit /\ "%" \notin Digit /\ "-" \notin Digit
  /\ \A l \in Letters : l \notin Digit
<1>1. Decimals \in Seq(Char) /\ Decimals \in Seq(Digit) /\ Len(Decimals) = 10
  <2>1. Digit \subseteq Char
    BY Zenon DEF Char
  <2>2. Decimals \in Seq(Digit) /\ Len(Decimals) = 10
    BY DEF Decimals, Digit
  <2>3. QED
    BY <2>1, <2>2
<1>2. \A i \in 1 .. 10 : Decimals[i] \in {"0", "1", "2", "3", "4", "5", "6", "7", "8", "9"}
  <2> SUFFICES ASSUME NEW i \in 1 .. 10
               PROVE  Decimals[i] \in {"0", "1", "2", "3", "4", "5", "6", "7", "8", "9"}
    OBVIOUS
  <2>1. i \in {1, 2, 3, 4, 5, 6, 7, 8, 9, 10}
    OBVIOUS
  <2>2. QED
    BY <2>1 DEF Decimals
<1>3. Digit \subseteq {"0", "1", "2", "3", "4", "5", "6", "7", "8", "9"}
  BY <1>2 DEF Digit
<1>4. Digit \subseteq Char
  BY Zenon DEF Char
<1>5. \A i \in 1 .. 10 : Decimals[i] \in Digit
  BY DEF Digit
<1>6. "." \notin Digit /\ "%" \notin Digit /\ "-" \notin Digit
  BY <1>3
<1>7. "d" \notin Digit /\ "x" \notin Digit /\ "X" \notin Digit /\ "u" \notin Digit
  BY <1>3
<1>8. "P" \notin Digit /\ "s" \notin Digit /\ "f" \notin Digit
  BY <1>3
<1>9. \A l \in Letters : l \notin Digit
  BY <1>6, <1>7, <1>8 DEF Letters
<1>10. QED
  BY <1>1, <1>4, <1>5, <1>6, <1>9

\* The leading digits of a text are digits, and the longest such beginning.
LEMMA LeadingFacts ==
  ASSUME NEW s \in Seq(Char)
  PROVE  LET w == LeadingDigits(s)
         IN /\ w \in Seq(Digit) /\ Len(w) \in Nat /\ Len(w) <= Len(s)
            /\ \A i \in 1 .. Len(w) : w[i] = s[i] /\ s[i] \in Digit
            /\ Len(w) < Len(s) => s[Len(w) + 1] \notin Digit
<1> DEFINE first == {i \in DOMAIN s : s[i] \notin Digit}
           w == LeadingDigits(s)
<1>1. Len(s) \in Nat /\ DOMAIN s = 1 .. Len(s) /\ s \in [1 .. Len(s) -> Char]
  OBVIOUS
<1>2. CASE first = {}
  <2>1. w = s /\ \A i \in 1 .. Len(s) : s[i] \in Digit
    BY <1>1, <1>2 DEF LeadingDigits
  <2>2. s \in Seq(Digit)
    BY <1>1, <2>1
  <2> HIDE DEF w
  <2>3. QED
    BY <1>1, <2>1, <2>2 DEF w
<1>3. CASE first # {}
  <2> DEFINE m == CHOOSE i \in first : \A j \in first : i <= j
  <2>1. w = SubSeq(s, 1, m - 1)
    BY <1>3 DEF LeadingDigits
  <2>2. m \in first /\ \A j \in first : m <= j
    <3>1. first \in SUBSET Nat
      BY <1>1
    <3> HIDE DEF first
    <3>2. \E i \in first : \A j \in first : i <= j
      BY <1>3, <3>1, Least
    <3>3. QED
      BY <3>2
  <2> HIDE DEF m
  <2>3. m \in 1 .. Len(s) /\ s[m] \notin Digit
    BY <1>1, <2>2
  <2>4. \A i \in 1 .. m - 1 : s[i] \in Digit
    BY <1>1, <2>2, <2>3
  <2>5. w \in Seq(Char) /\ Len(w) = m - 1 /\ \A i \in 1 .. m - 1 : w[i] = s[i]
    BY <1>1, <2>1, <2>3
  <2> HIDE DEF w
  <2>6. w \in Seq(Digit)
    BY <2>3, <2>4, <2>5
  <2>7. QED
    BY <1>1, <2>3, <2>4, <2>5, <2>6 DEF w
<1>4. QED
  BY <1>2, <1>3

\* More text behind what is no digit changes nothing.
LEMMA LeadingConcat ==
  ASSUME NEW s \in Seq(Char), NEW t \in Seq(Char), Len(LeadingDigits(s)) < Len(s)
  PROVE  LeadingDigits(s \o t) = LeadingDigits(s)
<1> DEFINE u == s \o t
           v == LeadingDigits(s)
           w == LeadingDigits(u)
<1>1. u \in Seq(Char) /\ Len(u) = Len(s) + Len(t) /\ Len(s) \in Nat /\ Len(t) \in Nat
      /\ \A i \in 1 .. Len(s) : u[i] = s[i]
  OBVIOUS
<1>2. /\ v \in Seq(Digit) /\ Len(v) \in Nat /\ Len(v) < Len(s)
      /\ \A i \in 1 .. Len(v) : v[i] = s[i] /\ s[i] \in Digit
      /\ s[Len(v) + 1] \notin Digit
  BY LeadingFacts
<1> HIDE DEF u
<1>3. /\ w \in Seq(Digit) /\ Len(w) \in Nat /\ Len(w) <= Len(u)
      /\ \A i \in 1 .. Len(w) : w[i] = u[i] /\ u[i] \in Digit
      /\ Len(w) < Len(u) => u[Len(w) + 1] \notin Digit
  BY <1>1, LeadingFacts
<1> HIDE DEF v, w
<1>4. ~(Len(v) < Len(w))
  <2> SUFFICES ASSUME Len(v) < Len(w) PROVE FALSE
    OBVIOUS
  <2>1. Len(v) + 1 \in 1 .. Len(w) /\ Len(v) + 1 \in 1 .. Len(s)
    BY <1>1, <1>2, <1>3
  <2>2. u[Len(v) + 1] \in Digit /\ u[Len(v) + 1] = s[Len(v) + 1]
    BY <1>1, <1>3, <2>1
  <2>3. QED
    BY <1>2, <2>2
<1>5. ~(Len(w) < Len(v))
  <2> SUFFICES ASSUME Len(w) < Len(v) PROVE FALSE
    OBVIOUS
  <2>1. Len(w) + 1 \in 1 .. Len(v) /\ Len(w) + 1 \in 1 .. Len(s) /\ Len(w) < Len(u)
    BY <1>1, <1>2, <1>3
  <2>2. s[Len(w) + 1] \in Digit /\ u[Len(w) + 1] = s[Len(w) + 1]
    BY <1>1, <1>2, <2>1
  <2>3. QED
    BY <1>3, <2>1, <2>2
<1>6. Len(w) = Len(v)
  BY <1>2, <1>3, <1>4, <1>5
<1>7. \A i \in 1 .. Len(w) : w[i] = v[i]
  BY <1>1, <1>2, <1>3, <1>6
<1>8. w = v
  BY <1>2, <1>3, <1>6, <1>7, SeqEqual
<1>9. QED
  BY <1>8 DEF u, v, w

\* Digits are read as a natural number, none as 0.
LEMMA NumberType ==
  ASSUME NEW s \in Seq(Digit)
  PROVE  Number(s) \in Nat /\ (s = <<>> => Number(s) = 0)
<1> DEFINE n == Len(s)
           V(c) == (CHOOSE d \in 1 .. 10 : Decimals[d] = c) - 1
<1>1. n \in Nat /\ s \in [1 .. n -> Digit]
  OBVIOUS
<1>2. \A i \in 1 .. n : V(s[i]) \in Nat
  <2> SUFFICES ASSUME NEW i \in 1 .. n PROVE V(s[i]) \in Nat
    OBVIOUS
  <2>1. \E d \in 1 .. 10 : Decimals[d] = s[i]
    BY <1>1 DEF Digit
  <2> DEFINE c == CHOOSE d \in 1 .. 10 : Decimals[d] = s[i]
  <2>2. c \in 1 .. 10
    BY <2>1
  <2> HIDE DEF c
  <2>3. c - 1 \in Nat
    BY <2>2
  <2>4. QED
    BY <2>3 DEF c
<1> DEFINE D == 0 .. n
           P == 1 .. n
           rank == [i \in D |-> i]
           prev == [i \in P |-> i - 1]
           base == [i \in D |-> 0]
           step == [x \in D \X Nat |-> IF x[1] \in P THEN 10 * x[2] + V(s[x[1]]) ELSE 0]
<1> HIDE DEF V, n
<1>3. IsRecursion(D, Nat, P, rank, prev, base, step)
  BY <1>1, <1>2 DEF IsRecursion
<1>4. PICK f \in [D -> Nat] : \A i \in D : f[i] = IF i \in P THEN step[<<i, f[prev[i]]>>] ELSE base[i]
  <2> HIDE DEF D, P, rank, prev, base, step
  <2>1. QED
    BY <1>3, Recursion
<1>5. ASSUME NEW i \in D PROVE f[i] = IF i = 0 THEN 0 ELSE 10 * f[i - 1] + V(s[i])
  <2>1. i # 0 => i \in P /\ i - 1 \in D /\ prev[i] = i - 1 /\ f[i - 1] \in Nat
    BY <1>1
  <2>2. i = 0 => i \notin P
    OBVIOUS
  <2>3. QED
    BY <1>4, <2>1, <2>2
<1>6. f = [i \in D |-> IF i = 0 THEN 0 ELSE 10 * f[i - 1] + V(s[i])]
  BY <1>4, <1>5
<1> DEFINE N == CHOOSE g : g = [i \in D |-> IF i = 0 THEN 0 ELSE 10 * g[i - 1] + V(s[i])]
<1>7. N = [i \in D |-> IF i = 0 THEN 0 ELSE 10 * N[i - 1] + V(s[i])]
  BY <1>6
<1>8. Number(s) = N[n]
  BY DEF Number, n, V
<1> HIDE DEF N
<1>9. \A i \in D : N[i] = IF i = 0 THEN 0 ELSE 10 * N[i - 1] + V(s[i])
  BY <1>7
<1>10. \A i \in Nat : i \in {j \in Nat : j \in D => N[j] \in Nat}
  <2> DEFINE S == {j \in Nat : j \in D => N[j] \in Nat}
  <2>1. 0 \in S
    BY <1>1, <1>9
  <2>2. ASSUME NEW i \in Nat, i \in S PROVE i + 1 \in S
    <3> SUFFICES ASSUME i + 1 \in D PROVE N[i + 1] \in Nat
      OBVIOUS
    <3>1. i \in D /\ i + 1 # 0 /\ (i + 1) - 1 = i /\ i + 1 \in 1 .. n
      BY <1>1
    <3>2. N[i] \in Nat
      BY <2>2, <3>1
    <3>3. N[i + 1] = 10 * N[i] + V(s[i + 1])
      BY <1>9, <3>1
    <3>4. QED
      BY <1>2, <3>1, <3>2, <3>3
  <2> HIDE DEF S
  <2>3. \A i \in Nat : i \in S
    BY <2>1, <2>2, Induct
  <2>4. QED
    BY <2>3 DEF S
<1>11. n \in D
  BY <1>1
<1>12. N[n] \in Nat
  BY <1>1, <1>10, <1>11
<1>13. s = <<>> => n = 0 /\ N[n] = 0
  BY <1>9, <1>11 DEF n
<1>14. QED
  BY <1>8, <1>12, <1>13

\* Both alphabets have sixteen digits.
LEMMA HexFacts == hex \in Seq(Char) /\ Len(hex) = 16 /\ HEX \in Seq(Char) /\ Len(HEX) = 16
<1>1. \A s, t \in Seq(Char) : s \o t \in Seq(Char) /\ Len(s \o t) = Len(s) + Len(t)
  OBVIOUS
<1>2. Decimals \in Seq(Char) /\ Len(Decimals) = 10
  BY DigitFacts
<1>3. <<"a", "b", "c", "d", "e", "f">> \in Seq(Char) /\ Len(<<"a", "b", "c", "d", "e", "f">>) = 6
  BY DEF Char
<1>4. <<"A", "B", "C", "D", "E", "F">> \in Seq(Char) /\ Len(<<"A", "B", "C", "D", "E", "F">>) = 6
  BY DEF Char
<1>5. hex \in Seq(Char) /\ Len(hex) = 10 + 6
  BY <1>1, <1>2, <1>3, Zenon DEF hex
<1>6. HEX \in Seq(Char) /\ Len(HEX) = 10 + 6
  BY <1>1, <1>2, <1>4, Zenon DEF HEX
<1>7. QED
  BY <1>5, <1>6

\* A number is written in digits of its alphabet.
LEMMA DigitsType ==
  ASSUME NEW C, NEW b \in Nat, b > 1, NEW digit \in Seq(C), Len(digit) = b, NEW n \in Nat
  PROVE  Digits(n, b, digit) \in Seq(C)
<1>1. \A m \in Nat : m \div b \in Nat /\ m % b \in 0 .. b - 1
  OBVIOUS
<1>2. \A m \in Nat : ~(m < b) => m \div b < m
  <2> SUFFICES ASSUME NEW m \in Nat, ~(m < b) PROVE m \div b < m
    OBVIOUS
  <2> DEFINE q == m \div b
  <2>1. q \in Nat /\ m = b * q + (m % b) /\ m % b \in Nat /\ m > 0
    OBVIOUS
  <2> HIDE DEF q
  <2>2. q <= m /\ (q = m => FALSE)
    <3>1. b * q >= 2 * q
      BY <2>1
    <3>2. QED
      BY <2>1, <3>1
  <2>3. QED
    BY <2>1, <2>2 DEF q
<1>3. \A k \in 0 .. b - 1 : digit[k + 1] \in C
  OBVIOUS
<1> DEFINE D == Nat
           V == Seq(C)
           P == {m \in Nat : ~(m < b)}
           rank == [m \in Nat |-> m]
           prev == [m \in P |-> m \div b]
           base == [m \in Nat |-> IF m < b THEN <<digit[m + 1]>> ELSE <<>>]
           step == [x \in Nat \X V |-> Append(x[2], digit[(x[1] % b) + 1])]
<1>4. IsRecursion(D, V, P, rank, prev, base, step)
  <2>1. base \in [D -> V]
    <3>1. \A m \in Nat : m < b => <<digit[m + 1]>> \in V
      BY <1>3
    <3>2. <<>> \in V
      OBVIOUS
    <3> HIDE DEF V
    <3>3. QED
      BY <3>1, <3>2
  <2>2. step \in [D \X V -> V]
    <3>1. ASSUME NEW m \in Nat, NEW v \in V PROVE Append(v, digit[(m % b) + 1]) \in V
      <4>1. digit[(m % b) + 1] \in C
        BY <1>1, <1>3
      <4>2. QED
        BY <4>1
    <3> HIDE DEF V
    <3>2. QED
      BY <3>1
  <2>3. P \in SUBSET D /\ rank \in [D -> Nat] /\ prev \in [P -> D] /\ \A x \in P : rank[prev[x]] < rank[x]
    BY <1>1, <1>2
  <2> HIDE DEF D, P, V, rank, prev, base, step
  <2>4. QED
    BY <2>1, <2>2, <2>3 DEF IsRecursion
<1>5. PICK f \in [D -> V] : \A i \in D : f[i] = IF i \in P THEN step[<<i, f[prev[i]]>>] ELSE base[i]
  <2> HIDE DEF D, V, P, rank, prev, base, step
  <2>1. QED
    BY <1>4, Recursion
<1> DEFINE R(g, m) == IF m < b THEN <<digit[m + 1]>> ELSE Append(g[m \div b], digit[(m % b) + 1])
<1>6. ASSUME NEW m \in Nat PROVE f[m] = R(f, m)
  <2>1. CASE m < b
    <3>1. m \notin P
      BY <2>1
    <3>2. base[m] = <<digit[m + 1]>>
      BY <2>1
    <3>3. QED
      BY <1>5, <2>1, <3>1, <3>2
  <2>2. CASE ~(m < b)
    <3>1. m \in P /\ prev[m] = m \div b /\ m \div b \in Nat
      BY <1>1, <2>2
    <3>2. f[m \div b] \in V
      BY <3>1
    <3> HIDE DEF V
    <3>3. step[<<m, f[m \div b]>>] = Append(f[m \div b], digit[(m % b) + 1])
      BY <3>2
    <3>4. f[m] = step[<<m, f[prev[m]]>>]
      BY <1>5, <3>1
    <3>5. QED
      BY <2>2, <3>1, <3>3, <3>4, Zenon
  <2>3. QED
    BY <2>1, <2>2
<1> DEFINE G == CHOOSE g : g = [m \in Nat |-> R(g, m)]
<1>7. Digits(n, b, digit) = G[n]
  BY DEF Digits
<1>8. \A m \in Nat : G[m] = R(G, m)
  <2> HIDE DEF R, V, P, prev, base, step
  <2>1. f = [m \in Nat |-> R(f, m)]
    BY <1>6
  <2>2. G = [m \in Nat |-> R(G, m)]
    BY <2>1
  <2> HIDE DEF G
  <2>3. QED
    BY <2>2
<1> HIDE DEF G
<1> HIDE DEF G
<1>9. \A m \in Nat : m \in {k \in Nat : G[k] \in Seq(C)}
  <2> DEFINE S == {k \in Nat : G[k] \in Seq(C)}
             r == [m \in Nat |-> m]
  <2>1. ASSUME NEW m \in Nat, \A k \in Nat : r[k] < r[m] => k \in S PROVE m \in S
    <3>1. CASE m < b
      <4>1. G[m] = <<digit[m + 1]>> /\ digit[m + 1] \in C
        <5>1. m \in 0 .. b - 1
          BY <3>1
        <5>2. QED
          BY <1>3, <1>8, <3>1, <5>1
      <4>2. \A c \in C : <<c>> \in Seq(C)
        OBVIOUS
      <4>3. G[m] \in Seq(C)
        BY <4>1, <4>2
      <4>4. QED
        BY <4>3
    <3>2. CASE ~(m < b)
      <4>1. m \div b \in Nat /\ r[m \div b] < r[m]
        BY <1>1, <1>2, <3>2
      <4>2. G[m \div b] \in Seq(C)
        BY <2>1, <4>1
      <4>3. digit[(m % b) + 1] \in C
        BY <1>1, <1>3
      <4>4. G[m] = Append(G[m \div b], digit[(m % b) + 1])
        BY <1>8, <3>2
      <4>5. Append(G[m \div b], digit[(m % b) + 1]) \in Seq(C)
        BY <4>2, <4>3
      <4>6. QED
        BY <4>4, <4>5
    <3>3. QED
      BY <3>1, <3>2
  <2>2. r \in [Nat -> Nat]
    OBVIOUS
  <2> HIDE DEF S, r
  <2>3. Climbs(Nat, S, r)
    BY <2>1, <2>2 DEF Climbs
  <2>4. \A m \in Nat : m \in S
    BY <2>3, RankInduct
  <2>5. QED
    BY <2>4 DEF S
<1>10. QED
  BY <1>7, <1>9

-----------------------------------------------------------------------------
(* The tables of a call. *)

AreParts(S, n, p) == n \in Nat /\ p \in [1 .. n -> Seq(S)]

\* What is left from each part on.
LEMMA BackExists ==
  ASSUME NEW S, NEW n, NEW p, AreParts(S, n, p)
  PROVE  \E f \in [1 .. n + 1 -> Seq(S)] :
           \A i \in 1 .. n + 1 : f[i] = IF i = n + 1 THEN <<>> ELSE p[i] \o f[i + 1]
<1> DEFINE D == 1 .. n + 1
           V == Seq(S)
           P == 1 .. n
           rank == [i \in D |-> n + 1 - i]
           prev == [i \in P |-> i + 1]
           base == [i \in D |-> <<>>]
           step == [x \in D \X V |-> IF x[1] \in P THEN p[x[1]] \o x[2] ELSE <<>>]
<1>0. n \in Nat /\ p \in [1 .. n -> Seq(S)]
  BY DEF AreParts
<1>1. \A u, v \in V : u \o v \in V
  OBVIOUS
<1>2. <<>> \in V
  OBVIOUS
<1> HIDE DEF V
<1>3. step \in [D \X V -> V]
  <2>1. \A i \in D, v \in V : (IF i \in P THEN p[i] \o v ELSE <<>>) \in V
    BY <1>0, <1>1, <1>2 DEF V
  <2>2. QED
    BY <2>1
<1>4. P \in SUBSET D /\ rank \in [D -> Nat] /\ prev \in [P -> D] /\ base \in [D -> V]
      /\ \A x \in P : rank[prev[x]] < rank[x]
  BY <1>0, <1>2
<1> HIDE DEF D, P, rank, prev, base, step
<1>5. IsRecursion(D, V, P, rank, prev, base, step)
  BY <1>3, <1>4 DEF IsRecursion
<1>6. PICK f \in [D -> V] : \A i \in D : f[i] = IF i \in P THEN step[<<i, f[prev[i]]>>] ELSE base[i]
  BY <1>5, Recursion
<1>7. ASSUME NEW i \in D PROVE f[i] = IF i = n + 1 THEN <<>> ELSE p[i] \o f[i + 1]
  <2>1. CASE i = n + 1
    <3>1. i \notin P /\ base[i] = <<>>
      BY <1>0, <2>1 DEF P, base
    <3>2. QED
      BY <1>6, <2>1, <3>1
  <2>2. CASE i # n + 1
    <3>1. i \in P /\ prev[i] = i + 1 /\ i + 1 \in D
      BY <1>0, <2>2 DEF P, prev, D
    <3>2. f[i + 1] \in V
      BY <3>1
    <3>3. step[<<i, f[i + 1]>>] = p[i] \o f[i + 1]
      BY <3>1, <3>2 DEF step
    <3>4. QED
      BY <1>6, <2>2, <3>1, <3>3
  <2>3. QED
    BY <2>1, <2>2
<1>8. QED
  BY <1>7 DEF D, V

\* A table filled from its end holds sequences.
LEMMA BackValues ==
  ASSUME NEW S, NEW n, NEW p, AreParts(S, n, p), NEW f,
         DOMAIN f = 1 .. n + 1, f = [i \in 1 .. n + 1 |-> f[i]],
         \A i \in 1 .. n + 1 : f[i] = IF i = n + 1 THEN <<>> ELSE p[i] \o f[i + 1]
  PROVE  f \in [1 .. n + 1 -> Seq(S)]
<1> DEFINE D == 1 .. n + 1
           G == {i \in D : f[i] \in Seq(S)}
           rank == [i \in D |-> n + 1 - i]
<1>0. n \in Nat /\ p \in [1 .. n -> Seq(S)]
  BY DEF AreParts
<1>1. rank \in [D -> Nat]
  BY <1>0
<1>2. ASSUME NEW i \in D, \A j \in D : rank[j] < rank[i] => j \in G PROVE i \in G
  <2>1. CASE i = n + 1
    <3>1. f[i] = <<>>
      BY <2>1
    <3>2. <<>> \in Seq(S)
      OBVIOUS
    <3>3. QED
      BY <3>1, <3>2
  <2>2. CASE i # n + 1
    <3>1. i \in 1 .. n /\ i + 1 \in D /\ rank[i + 1] < rank[i]
      BY <1>0, <2>2
    <3>2. f[i + 1] \in Seq(S) /\ p[i] \in Seq(S)
      BY <1>0, <1>2, <3>1
    <3>3. p[i] \o f[i + 1] \in Seq(S)
      BY <3>2
    <3>4. QED
      BY <2>2, <3>3
  <2>3. QED
    BY <2>1, <2>2
<1> HIDE DEF G, rank
<1>3. Climbs(D, G, rank)
  BY <1>1, <1>2 DEF Climbs
<1>4. \A i \in D : i \in G
  BY <1>3, RankInduct
<1>5. QED
  BY <1>4 DEF G

AllCalls == Calls \cup {OpenFailed}

ArgsOf(its) == {its[i].args[1] : i \in DOMAIN its}

\* The parts of a call that fit, as sequences.
IsTable(its) ==
  /\ Len(its) \in Nat /\ DOMAIN its = 1 .. Len(its)
  /\ \A i \in 1 .. Len(its) :
       /\ its[i].fmt \in Seq(Char) /\ its[i].printed \in Seq(Char)
       /\ its[i].args = <<>> \/ its[i].args = <<its[i].args[1]>>

\* FormatFrom satisfies its recursive equation.
LEMMA FormatTable ==
  ASSUME NEW its, IsTable(its)
  PROVE  LET F == FormatFrom(its)
         IN /\ F \in [1 .. Len(its) + 1 -> Seq(Char)] /\ F[Len(its) + 1] = <<>>
            /\ \A i \in 1 .. Len(its) : F[i] = its[i].fmt \o F[i + 1]
<1> DEFINE n == Len(its)
           p == [i \in 1 .. n |-> its[i].fmt]
           R(g, i) == IF i = n + 1 THEN <<>> ELSE its[i].fmt \o g[i + 1]
           F == FormatFrom(its)
<1>1. n \in Nat /\ p \in [1 .. n -> Seq(Char)] /\ \A i \in 1 .. n : p[i] = its[i].fmt
  BY DEF IsTable
<1>2. F = CHOOSE g : g = [i \in 1 .. n + 1 |-> R(g, i)]
  BY DEF FormatFrom
<1>3. \A g : \A i \in 1 .. n + 1 : R(g, i) = IF i = n + 1 THEN <<>> ELSE p[i] \o g[i + 1]
  BY <1>1
<1> HIDE DEF F, n, p, R
<1>4. PICK f \in [1 .. n + 1 -> Seq(Char)] :
        \A i \in 1 .. n + 1 : f[i] = IF i = n + 1 THEN <<>> ELSE p[i] \o f[i + 1]
  <2>1. AreParts(Char, n, p)
    BY <1>1 DEF AreParts
  <2>2. QED
    BY <2>1, BackExists
<1>5. f = [i \in 1 .. n + 1 |-> R(f, i)]
  BY <1>3, <1>4
<1>6. F = [i \in 1 .. n + 1 |-> R(F, i)]
  BY <1>2, <1>5
<1>7. DOMAIN F = 1 .. n + 1 /\ F = [i \in 1 .. n + 1 |-> F[i]]
      /\ \A i \in 1 .. n + 1 : F[i] = IF i = n + 1 THEN <<>> ELSE p[i] \o F[i + 1]
  BY <1>3, <1>6
<1>8. F \in [1 .. n + 1 -> Seq(Char)]
  <2>1. AreParts(Char, n, p)
    BY <1>1 DEF AreParts
  <2>2. QED
    BY <1>7, <2>1, BackValues
<1>9. F[n + 1] = <<>> /\ \A i \in 1 .. n : F[i] = its[i].fmt \o F[i + 1]
  <2>1. n + 1 \in 1 .. n + 1
    BY <1>1
  <2>2. ASSUME NEW i \in 1 .. n PROVE F[i] = its[i].fmt \o F[i + 1]
    <3>1. i \in 1 .. n + 1 /\ i # n + 1 /\ p[i] = its[i].fmt
      BY <1>1
    <3>2. F[i] = p[i] \o F[i + 1]
      BY <1>7, <3>1
    <3>3. QED
      BY <3>1, <3>2
  <2>3. QED
    BY <1>7, <2>1, <2>2
<1>10. QED
  BY <1>8, <1>9 DEF F, n

\* ArgumentsFrom satisfies its recursive equation.
LEMMA ArgumentsTable ==
  ASSUME NEW its, IsTable(its)
  PROVE  LET A == ArgumentsFrom(its)
         IN /\ A \in [1 .. Len(its) + 1 -> Seq(ArgsOf(its))] /\ A[Len(its) + 1] = <<>>
            /\ \A i \in 1 .. Len(its) : A[i] = its[i].args \o A[i + 1] /\ its[i].args \in Seq(ArgsOf(its))
<1> DEFINE n == Len(its)
           S == ArgsOf(its)
           p == [i \in 1 .. n |-> its[i].args]
           R(g, i) == IF i = n + 1 THEN <<>> ELSE its[i].args \o g[i + 1]
           A == ArgumentsFrom(its)
<1>1. n \in Nat /\ p \in [1 .. n -> Seq(S)] /\ \A i \in 1 .. n : p[i] = its[i].args
  <2>1. ASSUME NEW i \in 1 .. n PROVE its[i].args \in Seq(S)
    <3>1. its[i].args[1] \in S /\ (its[i].args = <<>> \/ its[i].args = <<its[i].args[1]>>)
      BY DEF IsTable, ArgsOf
    <3> HIDE DEF S
    <3>2. \A x \in S : <<x>> \in Seq(S)
      OBVIOUS
    <3>3. <<>> \in Seq(S)
      OBVIOUS
    <3>4. QED
      BY <3>1, <3>2, <3>3
  <2>2. QED
    BY <2>1 DEF IsTable
<1>2. A = CHOOSE g : g = [i \in 1 .. n + 1 |-> R(g, i)]
  BY DEF ArgumentsFrom
<1>3. \A g : \A i \in 1 .. n + 1 : R(g, i) = IF i = n + 1 THEN <<>> ELSE p[i] \o g[i + 1]
  BY <1>1
<1>0. \A i \in 1 .. n : its[i].args \in Seq(S)
  BY <1>1
<1> HIDE DEF A, n, p, R, S
<1>4. PICK f \in [1 .. n + 1 -> Seq(S)] :
        \A i \in 1 .. n + 1 : f[i] = IF i = n + 1 THEN <<>> ELSE p[i] \o f[i + 1]
  <2>1. AreParts(S, n, p)
    BY <1>1 DEF AreParts
  <2>2. QED
    BY <2>1, BackExists
<1>5. f = [i \in 1 .. n + 1 |-> R(f, i)]
  BY <1>3, <1>4
<1>6. A = [i \in 1 .. n + 1 |-> R(A, i)]
  BY <1>2, <1>5
<1>7. DOMAIN A = 1 .. n + 1 /\ A = [i \in 1 .. n + 1 |-> A[i]]
      /\ \A i \in 1 .. n + 1 : A[i] = IF i = n + 1 THEN <<>> ELSE p[i] \o A[i + 1]
  BY <1>3, <1>6
<1>8. A \in [1 .. n + 1 -> Seq(S)]
  <2>1. AreParts(S, n, p)
    BY <1>1 DEF AreParts
  <2>2. QED
    BY <1>7, <2>1, BackValues
<1>9. A[n + 1] = <<>> /\ \A i \in 1 .. n : A[i] = its[i].args \o A[i + 1]
  <2>1. n + 1 \in 1 .. n + 1
    BY <1>1
  <2>2. ASSUME NEW i \in 1 .. n PROVE A[i] = its[i].args \o A[i + 1]
    <3>1. i \in 1 .. n + 1 /\ i # n + 1 /\ p[i] = its[i].args
      BY <1>1
    <3>2. A[i] = p[i] \o A[i + 1]
      BY <1>7, <3>1
    <3>3. QED
      BY <3>1, <3>2
  <2>3. QED
    BY <1>7, <2>1, <2>2
<1>10. QED
  BY <1>0, <1>8, <1>9 DEF A, n, S

\* Before satisfies its recursive equation.
LEMMA BeforeTable ==
  ASSUME NEW start \in Seq(Char), NEW q \in Seq(Seq(Char))
  PROVE  LET T == Before(start, q)
         IN /\ T \in [1 .. Len(q) + 1 -> Seq(Char)] /\ T[1] = start
            /\ \A i \in 1 .. Len(q) : T[i + 1] = T[i] \o q[i]
<1> DEFINE n == Len(q)
           R(g, i) == IF i = 1 THEN start ELSE g[i - 1] \o q[i - 1]
           T == Before(start, q)
           D == 1 .. n + 1
           V == Seq(Char)
           P == 2 .. n + 1
           rank == [i \in D |-> i]
           prev == [i \in P |-> i - 1]
           base == [i \in D |-> start]
           step == [x \in D \X V |-> IF x[1] \in P THEN x[2] \o q[x[1] - 1] ELSE start]
<1>1. n \in Nat /\ (\A i \in 1 .. n : q[i] \in V) /\ start \in V
  OBVIOUS
<1>2. T = CHOOSE g : g = [i \in D |-> R(g, i)]
  BY DEF Before
<1>4. \A u, v \in V : u \o v \in V
  OBVIOUS
<1>3. \A g : \A i \in D : R(g, i) = IF i = 1 THEN start ELSE g[i - 1] \o q[i - 1]
  OBVIOUS
<1> HIDE DEF T, R, V, n
<1>5. step \in [D \X V -> V]
  <2>1. \A i \in D, v \in V : (IF i \in P THEN v \o q[i - 1] ELSE start) \in V
    <3> SUFFICES ASSUME NEW i \in D, NEW v \in V, i \in P PROVE v \o q[i - 1] \in V
      BY <1>1
    <3>1. i - 1 \in 1 .. n
      BY <1>1
    <3>2. QED
      BY <1>1, <1>4, <3>1
  <2>2. QED
    BY <2>1
<1>6. P \in SUBSET D /\ rank \in [D -> Nat] /\ prev \in [P -> D] /\ base \in [D -> V]
      /\ \A x \in P : rank[prev[x]] < rank[x]
  BY <1>1
<1> HIDE DEF D, P, rank, prev, base, step
<1>7. IsRecursion(D, V, P, rank, prev, base, step)
  BY <1>5, <1>6 DEF IsRecursion
<1>8. PICK f \in [D -> V] : \A i \in D : f[i] = IF i \in P THEN step[<<i, f[prev[i]]>>] ELSE base[i]
  BY <1>7, Recursion
<1>9. ASSUME NEW i \in D PROVE f[i] = IF i = 1 THEN start ELSE f[i - 1] \o q[i - 1]
  <2>1. CASE i = 1
    <3>1. i \notin P /\ base[i] = start
      BY <1>1, <2>1 DEF P, base
    <3>2. QED
      BY <1>8, <2>1, <3>1
  <2>2. CASE i # 1
    <3>1. i \in P /\ prev[i] = i - 1 /\ i - 1 \in D
      BY <1>1, <2>2 DEF P, prev, D
    <3>2. f[i - 1] \in V
      BY <3>1
    <3>3. step[<<i, f[i - 1]>>] = f[i - 1] \o q[i - 1]
      BY <3>1, <3>2 DEF step
    <3>4. QED
      BY <1>8, <2>2, <3>1, <3>3
  <2>3. QED
    BY <2>1, <2>2
<1>10. f = [i \in D |-> R(f, i)]
  <2>1. \A i \in D : f[i] = R(f, i)
    BY <1>3, <1>9
  <2>2. QED
    BY <2>1
<1>11. T = [i \in D |-> R(T, i)]
  BY <1>2, <1>10
<1>12. DOMAIN T = D /\ T = [i \in D |-> T[i]]
       /\ \A i \in D : T[i] = IF i = 1 THEN start ELSE T[i - 1] \o q[i - 1]
  BY <1>3, <1>11
<1>13. \A i \in D : T[i] \in V
  <2> DEFINE G == {i \in D : T[i] \in V}
  <2>1. ASSUME NEW i \in D, \A j \in D : rank[j] < rank[i] => j \in G PROVE i \in G
    <3>1. CASE i = 1
      <4>1. T[i] = start
        BY <1>12, <3>1
      <4>2. QED
        BY <1>1, <4>1
    <3>2. CASE i # 1
      <4>1. i - 1 \in D /\ rank[i - 1] < rank[i] /\ i - 1 \in 1 .. n
        BY <1>1, <3>2 DEF D, rank
      <4>2. T[i - 1] \in V /\ q[i - 1] \in V
        BY <1>1, <2>1, <4>1
      <4>3. T[i] = T[i - 1] \o q[i - 1]
        BY <1>12, <3>2
      <4>4. QED
        BY <1>4, <4>2, <4>3
    <3>3. QED
      BY <3>1, <3>2
  <2> HIDE DEF G
  <2>2. Climbs(D, G, rank)
    BY <1>6, <2>1 DEF Climbs
  <2>3. \A i \in D : i \in G
    BY <2>2, RankInduct
  <2>4. QED
    BY <2>3 DEF G
<1>14. T \in [D -> V]
  BY <1>12, <1>13
<1>15. T[1] = start
  <2>1. 1 \in D
    BY <1>1 DEF D
  <2>2. QED
    BY <1>12, <2>1
<1>16. ASSUME NEW i \in 1 .. n PROVE T[i + 1] = T[i] \o q[i]
  <2>1. i + 1 \in D /\ i + 1 # 1 /\ (i + 1) - 1 = i
    BY <1>1 DEF D
  <2>2. T[i + 1] = T[i] \o q[i]
    BY <1>12, <2>1
  <2>3. QED
    BY <1>1, <2>2
<1>17. QED
  BY <1>14, <1>15, <1>16 DEF T, D, n, V

\* No item takes more than one argument.
LEMMA FitsArgs ==
  ASSUME NEW it, NEW last, Fits(it, last)
  PROVE  it.args = <<>> \/ it.args = <<it.args[1]>>
<1>1. CASE PlainFits(it)
  BY <1>1 DEF PlainFits
<1>2. CASE UnknownFits(it, last)
  BY <1>2 DEF UnknownFits
<1>3. CASE PercentFits(it, last)
  BY <1>3 DEF PercentFits
<1>4. CASE NumberFits(it)
  BY <1>4, Zenon DEF NumberFits, IsOne
<1>5. CASE TextFits(it)
  BY <1>5, Zenon DEF TextFits, IsOne
<1>6. CASE FloatFits(it)
  BY <1>6, Zenon DEF FloatFits, IsOne
<1>7. QED
  BY <1>1, <1>2, <1>3, <1>4, <1>5, <1>6 DEF Fits

\* What a call is known by: its items, and the three tables over them.
LEMMA CallFacts ==
  ASSUME NEW c \in AllCalls
  PROVE  LET its == Items(c)
             n == Len(Items(c))
             F == FormatFrom(its)
             A == ArgumentsFrom(its)
             T == PrintedBefore(c)
         IN /\ n \in Nat /\ DOMAIN its = 1 .. n
            /\ \A i \in 1 .. n : its[i].fmt \in Seq(Char) /\ its[i].printed \in Seq(Char)
                                 /\ its[i].args \in Seq(ArgsOf(its)) /\ Fits(its[i], i = n)
            /\ F \in [1 .. n + 1 -> Seq(Char)] /\ F[n + 1] = <<>> /\ F[1] = Format(c)
            /\ \A i \in 1 .. n : F[i] = its[i].fmt \o F[i + 1]
            /\ A \in [1 .. n + 1 -> Seq(ArgsOf(its))] /\ A[n + 1] = <<>> /\ A[1] = Arguments(c)
            /\ \A i \in 1 .. n : A[i] = its[i].args \o A[i + 1]
            /\ T \in [1 .. n + 1 -> Seq(Char)] /\ T[1] = Start(c) /\ Len(Start(c)) <= MaxLogStr
            /\ \A i \in 1 .. n : T[i + 1] = T[i] \o its[i].printed
<1> DEFINE its == Items(c)
           n == Len(its)
<1>1. /\ its \in Seq({its[i] : i \in DOMAIN its})
      /\ \A i \in DOMAIN its : /\ its[i].fmt \in Seq(STRING) /\ its[i].text \in Seq(STRING)
                               /\ its[i].printed \in Seq(STRING) /\ Fits(its[i], i = n)
      /\ FormatFrom(its)[1] = Format(c) /\ ArgumentsFrom(its)[1] = Arguments(c)
  BY CallAssumption DEF AllCalls
<1>2. Seq(STRING) \subseteq Seq(Char)
  <2>1. STRING \subseteq Char
    BY Zenon DEF Char
  <2>2. QED
    BY <2>1, SeqOfLarger
<1>3. Greeting \in Seq(Char) /\ Len(Greeting) = 7
  BY DEF Greeting, Char
<1>4. Start(c) \in Seq(Char) /\ Len(Start(c)) <= MaxLogStr
  BY <1>2, <1>3, LogAssumption DEF Start
<1>5. n \in Nat /\ DOMAIN its = 1 .. n
  <2> HIDE DEF its
  <2>1. QED
    BY <1>1
<1>6. \A i \in DOMAIN its : its[i].args = <<>> \/ its[i].args = <<its[i].args[1]>>
  <2> SUFFICES ASSUME NEW i \in DOMAIN its PROVE its[i].args = <<>> \/ its[i].args = <<its[i].args[1]>>
    OBVIOUS
  <2>1. Fits(its[i], i = n)
    BY <1>1
  <2>2. QED
    BY <2>1, FitsArgs
<1>7. IsTable(its)
  BY <1>1, <1>2, <1>5, <1>6 DEF IsTable
<1> DEFINE F == FormatFrom(its)
           A == ArgumentsFrom(its)
           T == PrintedBefore(c)
           S == ArgsOf(its)
<1>8. F \in [1 .. n + 1 -> Seq(Char)] /\ F[n + 1] = <<>> /\ \A i \in 1 .. n : F[i] = its[i].fmt \o F[i + 1]
  BY <1>7, FormatTable
<1>9. /\ A \in [1 .. n + 1 -> Seq(S)] /\ A[n + 1] = <<>>
      /\ \A i \in 1 .. n : A[i] = its[i].args \o A[i + 1] /\ its[i].args \in Seq(S)
  BY <1>7, ArgumentsTable
<1>10. T \in [1 .. n + 1 -> Seq(Char)] /\ T[1] = Start(c) /\ \A i \in 1 .. n : T[i + 1] = T[i] \o its[i].printed
  <2> DEFINE q == [i \in 1 .. n |-> its[i].printed]
             start == Start(c)
  <2>1. T = Before(start, q)
    BY DEF PrintedBefore
  <2>2. n \in Nat /\ \A i \in 1 .. n : its[i].printed \in Seq(Char)
    BY <1>7 DEF IsTable
  <2>3. q \in Seq(Seq(Char)) /\ Len(q) = n /\ \A i \in 1 .. n : q[i] = its[i].printed
    <3> HIDE DEF n, its
    <3> DEFINE V == Seq(Char)
    <3>1. n \in Nat /\ q \in [1 .. n -> V] /\ \A i \in 1 .. n : q[i] = its[i].printed
      BY <2>2
    <3> HIDE DEF V, q
    <3>2. q \in Seq(V) /\ Len(q) = n
      BY <3>1
    <3>3. QED
      BY <3>1, <3>2 DEF V
  <2>4. start \in Seq(Char)
    BY <1>4
  <2> HIDE DEF q, start, T, n, its
  <2>5. Before(start, q) \in [1 .. n + 1 -> Seq(Char)] /\ Before(start, q)[1] = start
        /\ \A i \in 1 .. n : Before(start, q)[i + 1] = Before(start, q)[i] \o q[i]
    BY <2>3, <2>4, BeforeTable
  <2>6. QED
    BY <2>1, <2>3, <2>5 DEF start
<1> HIDE DEF F, A, T, S, its
<1>11. \A i \in 1 .. n : its[i].fmt \in Seq(Char) /\ its[i].printed \in Seq(Char)
                         /\ its[i].args \in Seq(S) /\ Fits(its[i], i = n)
  <2>1. \A i \in 1 .. n : i \in DOMAIN its
    BY <1>5
  <2>2. QED
    BY <1>1, <1>2, <1>9, <2>1
<1>12. F[1] = Format(c) /\ A[1] = Arguments(c)
  BY <1>1 DEF F, A
<1>13. QED
  BY <1>4, <1>5, <1>8, <1>9, <1>10, <1>11, <1>12, Zenon DEF F, A, T, S, its

Count(c)     == Len(Items(c))
FmtAt(c, i)  == FormatFrom(Items(c))[i]
ArgsAt(c, i) == ArgumentsFrom(Items(c))[i]
PrintedAt(c, i) == PrintedBefore(c)[i]
Args(c)      == ArgsOf(Items(c))

\* The tables of a call, at any item and at both ends.
LEMMA Tables ==
  ASSUME NEW c \in AllCalls
  PROVE  /\ Count(c) \in Nat /\ DOMAIN Items(c) = 1 .. Count(c)
         /\ \A i \in 1 .. Count(c) + 1 :
              FmtAt(c, i) \in Seq(Char) /\ ArgsAt(c, i) \in Seq(Args(c)) /\ PrintedAt(c, i) \in Seq(Char)
         /\ FmtAt(c, Count(c) + 1) = <<>> /\ ArgsAt(c, Count(c) + 1) = <<>>
         /\ FmtAt(c, 1) = Format(c) /\ ArgsAt(c, 1) = Arguments(c) /\ PrintedAt(c, 1) = Start(c)
         /\ Len(Start(c)) <= MaxLogStr
<1>1. 1 \in 1 .. Count(c) + 1 /\ Count(c) + 1 \in 1 .. Count(c) + 1
  BY CallFacts DEF Count
<1>2. QED
  BY <1>1, CallFacts DEF Count, FmtAt, ArgsAt, PrintedAt, Args

\* What an item is, and its row of the tables.
LEMMA ItemFacts ==
  ASSUME NEW c \in AllCalls, NEW i \in 1 .. Count(c)
  PROVE  LET it == Items(c)[i]
         IN /\ it.fmt \in Seq(Char) /\ it.printed \in Seq(Char) /\ it.args \in Seq(Args(c))
            /\ Fits(it, i = Count(c))
            /\ FmtAt(c, i) = it.fmt \o FmtAt(c, i + 1)
            /\ ArgsAt(c, i) = it.args \o ArgsAt(c, i + 1)
            /\ PrintedAt(c, i + 1) = PrintedAt(c, i) \o it.printed
BY CallFacts DEF Count, FmtAt, ArgsAt, PrintedAt, Args

\* The text only grows.
LEMMA PrintedGrows ==
  ASSUME NEW c \in AllCalls, NEW i \in 1 .. Count(c) + 1, NEW j \in i .. Count(c) + 1
  PROVE  \E r \in Seq(Char) : PrintedAt(c, j) = PrintedAt(c, i) \o r
<1>1. Count(c) \in Nat /\ \A m \in 1 .. Count(c) + 1 : PrintedAt(c, m) \in Seq(Char)
  BY Tables
<1> DEFINE S == {d \in Nat : i + d <= Count(c) + 1 => \E r \in Seq(Char) : PrintedAt(c, i + d) = PrintedAt(c, i) \o r}
<1>2. 0 \in S
  <2>1. <<>> \in Seq(Char) /\ PrintedAt(c, i) \o <<>> = PrintedAt(c, i) /\ i + 0 = i
    BY <1>1
  <2>2. QED
    BY <2>1
<1>3. ASSUME NEW d \in Nat, d \in S PROVE d + 1 \in S
  <2> SUFFICES ASSUME i + (d + 1) <= Count(c) + 1
               PROVE  \E r \in Seq(Char) : PrintedAt(c, i + (d + 1)) = PrintedAt(c, i) \o r
    <3>1. d + 1 \in Nat
      OBVIOUS
    <3>2. QED
      BY <3>1, Zenon
  <2>1. i + d \in 1 .. Count(c) /\ i + d <= Count(c) + 1 /\ i + (d + 1) = (i + d) + 1
    BY <1>1
  <2>2. PICK r \in Seq(Char) : PrintedAt(c, i + d) = PrintedAt(c, i) \o r
    BY <1>3, <2>1
  <2> DEFINE t == Items(c)[i + d].printed
  <2>3. t \in Seq(Char) /\ PrintedAt(c, i + (d + 1)) = PrintedAt(c, i + d) \o t
    BY <2>1, ItemFacts
  <2> HIDE DEF t
  <2>4. PrintedAt(c, i) \in Seq(Char)
    BY <1>1
  <2>5. (PrintedAt(c, i) \o r) \o t = PrintedAt(c, i) \o (r \o t) /\ r \o t \in Seq(Char)
    <3>1. IsAssociative(Seq(Char))
      BY AssocAll
    <3>2. r \o t \in Seq(Char)
      BY <2>2, <2>3
    <3>3. QED
      BY <2>2, <2>3, <2>4, <3>1, <3>2, Zenon DEF IsAssociative
  <2>6. QED
    BY <2>2, <2>3, <2>5
<1>4. \A d \in Nat : d \in S
  <2> HIDE DEF S
  <2>1. QED
    BY <1>2, <1>3, Induct
<1>5. j - i \in Nat /\ i + (j - i) = j /\ j <= Count(c) + 1
  BY <1>1
<1>6. QED
  BY <1>4, <1>5

-----------------------------------------------------------------------------
(* What ngx_vslprintf sees of an item. *)

\* Behind a % no width is read.
LEMMA ConvOfPercent ==
  ASSUME NEW f \in Seq(Char), Len(f) > 1, f[2] = "%"
  PROVE  ConvOf(f) = Tail(f)
<1> DEFINE t == Tail(f)
           w == LeadingDigits(t)
<1>1. t \in Seq(Char) /\ Len(t) = Len(f) - 1 /\ Len(f) \in Nat /\ t[1] = "%"
  OBVIOUS
<1> HIDE DEF t
<1>2. w \in Seq(Digit) /\ Len(w) \in Nat /\ \A i \in 1 .. Len(w) : t[i] \in Digit
  BY <1>1, LeadingFacts
<1> HIDE DEF w
<1>3. Len(w) = 0
  <2> SUFFICES ASSUME Len(w) # 0 PROVE FALSE
    OBVIOUS
  <2>1. 1 \in 1 .. Len(w)
    BY <1>2
  <2>2. QED
    BY <1>1, <1>2, <2>1, DigitFacts
<1>4. After(t, 0) = t
  <2> DEFINE u == After(t, 0)
  <2>1. u \in Seq(Char) /\ Len(u) = Len(t) - 0 /\ (\A i \in 1 .. Len(t) - 0 : u[i] = t[0 + i]) /\ Len(t) \in Nat
    BY <1>1, AfterType
  <2> HIDE DEF u
  <2>2. Len(u) = Len(t) /\ \A i \in 1 .. Len(u) : u[i] = t[i]
    BY <2>1
  <2>3. u = t
    BY <1>1, <2>1, <2>2, SeqEqual
  <2>4. QED
    BY <2>3 DEF u
<1>5. QED
  BY <1>3, <1>4 DEF ConvOf, WidthOf, w, t

\* What stands behind the width of a directive does not begin with a digit.
LEMMA ConvFacts ==
  ASSUME NEW f \in Seq(Char), f # <<>>, ConvOf(f) # <<>>
  PROVE  /\ ConvOf(f) \in Seq(Char) /\ WidthOf(f) \in Seq(Digit) /\ Len(f) > 1
         /\ Len(WidthOf(f)) < Len(Tail(f)) /\ Len(ConvOf(f)) = Len(Tail(f)) - Len(WidthOf(f))
         /\ ConvOf(f)[1] \notin Digit
         /\ ConvOf(f)[1] # "%" => f[2] # "%"
<1> DEFINE t == Tail(f)
           w == LeadingDigits(t)
           v == After(t, Len(w))
<1>1. t \in Seq(Char) /\ Len(t) = Len(f) - 1 /\ Len(f) \in Nat /\ Len(t) \in Nat
  OBVIOUS
<1> HIDE DEF t
<1>2. /\ w \in Seq(Digit) /\ Len(w) \in Nat /\ Len(w) <= Len(t)
      /\ Len(w) < Len(t) => t[Len(w) + 1] \notin Digit
  BY <1>1, LeadingFacts
<1> HIDE DEF w
<1>3. v \in Seq(Char) /\ Len(v) = Len(t) - Len(w) /\ \A i \in 1 .. Len(t) - Len(w) : v[i] = t[Len(w) + i]
  <2> DEFINE m == Len(w)
  <2>1. m \in 0 .. Len(t)
    BY <1>1, <1>2
  <2> HIDE DEF m
  <2>2. After(t, m) \in Seq(Char) /\ Len(After(t, m)) = Len(t) - m /\ \A i \in 1 .. Len(t) - m : After(t, m)[i] = t[m + i]
    BY <1>1, <2>1, AfterType
  <2>3. QED
    BY <2>2 DEF m
<1> HIDE DEF v
<1>4. WidthOf(f) = w /\ ConvOf(f) = v
  BY DEF ConvOf, WidthOf, v, w, t
<1>5. Len(w) < Len(t)
  <2>1. Len(v) # 0
    BY <1>3, <1>4, EmptySeq
  <2> DEFINE a == Len(t)
             b == Len(w)
  <2>2. a \in Nat /\ b \in Nat /\ b <= a /\ a - b # 0
    BY <1>1, <1>2, <1>3, <2>1
  <2> HIDE DEF a, b
  <2>3. b < a
    BY <2>2
  <2>4. QED
    BY <2>3 DEF a, b
<1>6. v[1] = t[Len(w) + 1]
  BY <1>1, <1>2, <1>3, <1>5
<1>7. Len(f) > 1
  BY <1>1, <1>2, <1>5
<1>8. f[2] = "%" => v[1] = "%"
  <2> SUFFICES ASSUME f[2] = "%" PROVE v[1] = "%"
    OBVIOUS
  <2>1. v = Tail(f)
    BY <1>4, <1>7, ConvOfPercent
  <2>2. Tail(f)[1] = f[2]
    BY <1>1, <1>7
  <2>3. QED
    BY <2>1, <2>2
<1>9. QED
  BY <1>2, <1>3, <1>4, <1>5, <1>6, <1>7, <1>8 DEF t

\* A directive is read as it stands in its item.
LEMMA ParseBehind ==
  ASSUME NEW f \in Seq(Char), NEW t \in Seq(Char), f # <<>>, ConvOf(f) # <<>>
  PROVE  /\ WidthOf(f \o t) = WidthOf(f) /\ ConvOf(f \o t) = ConvOf(f) \o t /\ ZeroOf(f \o t) = ZeroOf(f)
         /\ Len(f \o t) > 1 /\ (f \o t)[1] = f[1] /\ (f \o t)[2] = f[2]
         /\ ConvOf(f \o t)[1] = ConvOf(f)[1] /\ ConvOf(f \o t) # <<>>
         /\ Tail(ConvOf(f \o t)) = Tail(ConvOf(f)) \o t
<1>1. /\ ConvOf(f) \in Seq(Char) /\ WidthOf(f) \in Seq(Digit) /\ Len(f) > 1
      /\ Len(WidthOf(f)) < Len(Tail(f))
  BY ConvFacts
<1>2. Tail(f) \in Seq(Char) /\ Tail(f \o t) = Tail(f) \o t /\ f \o t # <<>> /\ (f \o t)[1] = f[1]
      /\ Len(f \o t) = Len(f) + Len(t)
  BY HeadTail
<1> DEFINE g == Tail(f)
<1>3. g \in Seq(Char) /\ Len(LeadingDigits(g)) < Len(g) /\ Len(LeadingDigits(g)) \in 0 .. Len(g)
  <2>1. Len(WidthOf(f)) \in Nat /\ Len(g) \in Nat
    BY <1>1, <1>2
  <2>2. QED
    BY <1>1, <1>2, <2>1 DEF WidthOf
<1>4. LeadingDigits(g \o t) = LeadingDigits(g)
  <2> HIDE DEF g
  <2>1. QED
    BY <1>3, LeadingConcat
<1>5. WidthOf(f \o t) = WidthOf(f)
  BY <1>2, <1>4 DEF WidthOf
<1>6. ConvOf(f \o t) = ConvOf(f) \o t
  <2> DEFINE m == Len(LeadingDigits(g))
  <2>1. m \in 0 .. Len(g)
    BY <1>3
  <2>2. After(g \o t, m) = After(g, m) \o t
    <3> HIDE DEF m, g
    <3>1. QED
      BY <1>3, <2>1, AfterConcat
  <2>3. QED
    BY <1>2, <1>4, <2>2 DEF ConvOf, WidthOf
<1>7. Len(f \o t) > 1 /\ (f \o t)[2] = f[2]
  <2>1. Len(f) \in Nat /\ Len(t) \in Nat
    OBVIOUS
  <2>2. QED
    BY <1>1, <2>1
<1>8. ZeroOf(f \o t) = ZeroOf(f)
  BY <1>1, <1>7 DEF ZeroOf
<1>9. (ConvOf(f) \o t)[1] = ConvOf(f)[1] /\ ConvOf(f) \o t # <<>> /\ Tail(ConvOf(f) \o t) = Tail(ConvOf(f)) \o t
  BY <1>1, HeadTail
<1>10. QED
  BY <1>2, <1>5, <1>6, <1>7, <1>8, <1>9

-----------------------------------------------------------------------------
(* Where ngx_vslprintf is in a call. *)

\* Behind items that come out whole: the point is due at the end of the buffer.
PointDue(c, i) ==
  LET it == Items(c)[i]
      before == Len(PrintedAt(c, i))
  IN /\ FloatFits(it) /\ before < MaxLogStr
     /\ \E m \in DOMAIN it.printed : it.printed[m] = "." /\ before + m > MaxLogStr

\* Of item k, cur is what is left, and done the text that went before, in the
\* buffer or behind it.  The argument of an item is taken with all of its text.
PlaceOf(c, b, f, a, k, cur, done) ==
  /\ k \in 0 .. Count(c)
  /\ done \in Seq(Char) /\ cur.fmt \in Seq(Char) /\ cur.printed \in Seq(Char)
  /\ f = cur.fmt \o FmtAt(c, k + 1) /\ a = cur.args \o ArgsAt(c, k + 1)
  /\ b = Upto(done, MaxLogStr)
  /\ Len(done) + Len(cur.printed) = Len(PrintedAt(c, k + 1))
  /\ done \o cur.printed = PrintedAt(c, k + 1)
  /\ \/ cur.fmt = <<>> /\ cur.args = <<>> /\ cur.printed = <<>>
     \/ k > 0 /\ Fits(cur, k = Count(c))
  /\ cur.args = <<>> \/ (k > 0 /\ cur = Items(c)[k] /\ Len(done) = Len(PrintedAt(c, k)))

Place(c, b, f, a) == \E k, cur, done : PlaceOf(c, b, f, a, k, cur, done)

\* At a turn of the loop an item, or what is left of it, is at the head.
At(c, b, f, a, k, cur, done) ==
  /\ PlaceOf(c, b, f, a, k, cur, done)
  /\ k > 0 /\ Fits(cur, k = Count(c)) /\ b = done /\ Len(b) < MaxLogStr

\* No item is without a format.
LEMMA FitsFormat ==
  ASSUME NEW it, NEW last, Fits(it, last)
  PROVE  it.fmt # <<>>
<1>1. CASE PlainFits(it)
  BY <1>1 DEF PlainFits
<1>2. CASE UnknownFits(it, last)
  BY <1>2 DEF UnknownFits
<1>3. CASE PercentFits(it, last)
  BY <1>3 DEF PercentFits
<1>4. CASE NumberFits(it)
  BY <1>4, Zenon DEF NumberFits, IsOne
<1>5. CASE TextFits(it)
  BY <1>5, Zenon DEF TextFits, IsOne
<1>6. CASE FloatFits(it)
  BY <1>6, Zenon DEF FloatFits, IsOne
<1>7. QED
  BY <1>1, <1>2, <1>3, <1>4, <1>5, <1>6 DEF Fits

\* Before the first item.
LEMMA Starts ==
  ASSUME NEW c \in AllCalls
  PROVE  Place(c, Start(c), Format(c), Arguments(c))
<1> DEFINE it == Item(<<>>, <<>>, <<>>)
<1>1. /\ Count(c) \in Nat /\ FmtAt(c, 1) = Format(c) /\ ArgsAt(c, 1) = Arguments(c)
      /\ PrintedAt(c, 1) = Start(c) /\ Len(Start(c)) <= MaxLogStr
  BY Tables
<1>2. 1 \in 1 .. Count(c) + 1 /\ MaxLogStr \in Nat
  BY <1>1, LogAssumption
<1>3. FmtAt(c, 1) \in Seq(Char) /\ ArgsAt(c, 1) \in Seq(Args(c)) /\ PrintedAt(c, 1) \in Seq(Char)
  BY <1>2, Tables
<1>4. it.fmt = <<>> /\ it.args = <<>> /\ it.printed = <<>> /\ <<>> \in Seq(Char)
  BY DEF Item
<1> HIDE DEF it
<1>5. <<>> \o FmtAt(c, 1) = FmtAt(c, 1) /\ <<>> \o ArgsAt(c, 1) = ArgsAt(c, 1) /\ Start(c) \o <<>> = Start(c)
      /\ Len(<<>>) = 0 /\ Len(Start(c)) \in Nat
  BY <1>1, <1>3
<1>6. Upto(Start(c), MaxLogStr) = Start(c)
  BY <1>1, <1>2, <1>3, UptoFacts
<1>7. 0 \in 0 .. Count(c) /\ 0 + 1 = 1 /\ 1 .. 0 = {}
  BY <1>1
<1>8. Len(Start(c)) + Len(<<>>) = Len(PrintedAt(c, 1))
  BY <1>1, <1>5
<1>9. PlaceOf(c, Start(c), Format(c), Arguments(c), 0, it, Start(c))
  BY <1>1, <1>3, <1>4, <1>5, <1>6, <1>7, <1>8 DEF PlaceOf
<1>10. QED
  BY <1>9 DEF Place

\* Between two items the next is at the head.
LEMMA NextItem ==
  ASSUME NEW c \in AllCalls, NEW b, NEW f, NEW a, NEW k, NEW cur, NEW done,
         PlaceOf(c, b, f, a, k, cur, done), cur.fmt = <<>>, k < Count(c)
  PROVE  PlaceOf(c, b, f, a, k + 1, Items(c)[k + 1], done)
<1> DEFINE it == Items(c)[k + 1]
<1>1. k \in 0 .. Count(c) /\ Count(c) \in Nat /\ k + 1 \in 1 .. Count(c) /\ k \in Nat
      /\ k + 1 \in 1 .. Count(c) + 1 /\ (k + 1) + 1 \in 1 .. Count(c) + 1
  <2>1. k \in 0 .. Count(c) /\ Count(c) \in Nat /\ k < Count(c)
    BY Tables DEF PlaceOf
  <2>2. QED
    BY <2>1
<1>2. /\ it.fmt \in Seq(Char) /\ it.printed \in Seq(Char) /\ it.args \in Seq(Args(c))
      /\ Fits(it, k + 1 = Count(c))
      /\ FmtAt(c, k + 1) = it.fmt \o FmtAt(c, (k + 1) + 1)
      /\ ArgsAt(c, k + 1) = it.args \o ArgsAt(c, (k + 1) + 1)
      /\ PrintedAt(c, (k + 1) + 1) = PrintedAt(c, k + 1) \o it.printed
  BY <1>1, ItemFacts
<1> HIDE DEF it
<1>3. cur.args = <<>> /\ cur.printed = <<>>
  BY FitsFormat DEF PlaceOf
<1>4. FmtAt(c, k + 1) \in Seq(Char) /\ ArgsAt(c, k + 1) \in Seq(Args(c)) /\ PrintedAt(c, k + 1) \in Seq(Char)
  BY <1>1, Tables
<1>5. f = FmtAt(c, k + 1) /\ a = ArgsAt(c, k + 1)
  BY <1>3, <1>4 DEF PlaceOf
<1>6. done \in Seq(Char) /\ b = Upto(done, MaxLogStr) /\ Len(done) = Len(PrintedAt(c, k + 1))
      /\ (done = PrintedAt(c, k + 1))
  <2>1. done \in Seq(Char) /\ Len(done) + Len(<<>>) = Len(PrintedAt(c, k + 1))
        /\ (done \o <<>> = PrintedAt(c, k + 1)) /\ b = Upto(done, MaxLogStr)
    BY <1>3 DEF PlaceOf
  <2>2. done \o <<>> = done /\ Len(done) + Len(<<>>) = Len(done)
    BY <2>1
  <2>3. QED
    BY <2>1, <2>2
<1>7. Len(done) + Len(it.printed) = Len(PrintedAt(c, (k + 1) + 1))
  <2>1. \A s, t \in Seq(Char) : Len(s \o t) = Len(s) + Len(t)
    OBVIOUS
  <2>2. Len(PrintedAt(c, k + 1) \o it.printed) = Len(PrintedAt(c, k + 1)) + Len(it.printed)
    BY <1>2, <1>4, <2>1
  <2>3. QED
    BY <1>2, <1>6, <2>2
<1>8. done \o it.printed = PrintedAt(c, (k + 1) + 1)
  BY <1>2, <1>6
<1>10. k + 1 \in 0 .. Count(c) /\ k + 1 > 0
  BY <1>1
<1>11. QED
  BY <1>2, <1>5, <1>6, <1>7, <1>8, <1>10 DEF PlaceOf, it

\* In its loop ngx_vslprintf is inside an item that is not yet used up.
LEMMA AtLoop ==
  ASSUME NEW c \in AllCalls, NEW b, NEW f, NEW a, Place(c, b, f, a),
         f # <<>>, Len(b) < MaxLogStr
  PROVE  \E k, cur, done : At(c, b, f, a, k, cur, done)
<1>1. PICK k, cur, done : PlaceOf(c, b, f, a, k, cur, done)
  BY DEF Place
<1>2. ASSUME NEW m, NEW it, PlaceOf(c, b, f, a, m, it, done), it.fmt # <<>>
      PROVE  At(c, b, f, a, m, it, done)
  <2>1. m > 0 /\ Fits(it, m = Count(c)) /\ done \in Seq(Char) /\ b = Upto(done, MaxLogStr)
    BY <1>2 DEF PlaceOf
  <2>2. b = done
    <3>1. MaxLogStr \in Nat /\ Len(done) \in Nat
      BY <2>1, LogAssumption
    <3>2. Len(b) = (IF Len(done) > MaxLogStr THEN MaxLogStr ELSE Len(done))
          /\ (Len(done) <= MaxLogStr => b = done)
      BY <2>1, <3>1, UptoFacts
    <3>3. QED
      BY <3>1, <3>2
  <2>3. QED
    BY <1>2, <2>1, <2>2 DEF At
<1>3. CASE cur.fmt # <<>>
  BY <1>1, <1>2, <1>3
<1>4. CASE cur.fmt = <<>>
  <2>1. k \in 0 .. Count(c) /\ Count(c) \in Nat /\ f = <<>> \o FmtAt(c, k + 1)
    BY <1>1, <1>4, Tables DEF PlaceOf
  <2>2. k # Count(c)
    <3>1. FmtAt(c, Count(c) + 1) = <<>>
      BY Tables
    <3>2. <<>> \o <<>> = <<>>
      OBVIOUS
    <3>3. QED
      BY <2>1, <3>1, <3>2
  <2>3. k < Count(c) /\ k + 1 \in 1 .. Count(c)
    BY <2>1, <2>2
  <2>4. PlaceOf(c, b, f, a, k + 1, Items(c)[k + 1], done)
    BY <1>1, <1>4, <2>3, NextItem
  <2>5. Items(c)[k + 1].fmt # <<>>
    BY <2>3, ItemFacts, FitsFormat
  <2>6. QED
    BY <1>2, <2>4, <2>5
<1>5. QED
  BY <1>3, <1>4

\* At the head of the loop: what is known of the item that is under way.
UnderWay(c, b, f, a, k, cur, done) ==
  /\ PlaceOf(c, b, f, a, k, cur, done)
  /\ k \in 1 .. Count(c) /\ k \in Nat /\ Count(c) \in Nat
  /\ cur.fmt \in Seq(Char) /\ cur.printed \in Seq(Char) /\ done \in Seq(Char) /\ b = done
  /\ cur.fmt # <<>> /\ Fits(cur, k = Count(c)) /\ Len(done) < MaxLogStr /\ MaxLogStr \in Nat
  /\ FmtAt(c, k + 1) \in Seq(Char) /\ ArgsAt(c, k + 1) \in Seq(Args(c))
  /\ f = cur.fmt \o FmtAt(c, k + 1) /\ a = cur.args \o ArgsAt(c, k + 1)
  /\ f \in Seq(Char) /\ f # <<>> /\ f[1] = cur.fmt[1]
  /\ Tail(f) = Tail(cur.fmt) \o FmtAt(c, k + 1)
  /\ k = Count(c) => FmtAt(c, k + 1) = <<>>

\* What is known there of buffer, format and arguments.
LEMMA AtFacts ==
  ASSUME NEW c \in AllCalls, NEW b, NEW f, NEW a, NEW k, NEW cur, NEW done,
         At(c, b, f, a, k, cur, done)
  PROVE  UnderWay(c, b, f, a, k, cur, done)
<1>1. k \in 1 .. Count(c) /\ k \in Nat /\ Count(c) \in Nat /\ k + 1 \in 1 .. Count(c) + 1
  <2>1. k \in 0 .. Count(c) /\ k > 0 /\ Count(c) \in Nat
    BY Tables DEF At, PlaceOf
  <2>2. QED
    BY <2>1
<1>2. /\ cur.fmt \in Seq(Char) /\ cur.printed \in Seq(Char) /\ done \in Seq(Char) /\ b = done
      /\ f = cur.fmt \o FmtAt(c, k + 1) /\ a = cur.args \o ArgsAt(c, k + 1)
      /\ Fits(cur, k = Count(c)) /\ Len(done) < MaxLogStr
  BY DEF At, PlaceOf
<1>3. cur.fmt # <<>>
  BY <1>2, FitsFormat
<1>4. FmtAt(c, k + 1) \in Seq(Char) /\ ArgsAt(c, k + 1) \in Seq(Args(c))
  BY <1>1, Tables
<1>5. f \in Seq(Char) /\ f # <<>> /\ f[1] = cur.fmt[1] /\ Tail(f) = Tail(cur.fmt) \o FmtAt(c, k + 1)
  <2> DEFINE u == FmtAt(c, k + 1)
             h == cur.fmt
  <2>1. u \in Seq(Char) /\ h \in Seq(Char) /\ h # <<>> /\ f = h \o u
    BY <1>2, <1>3, <1>4
  <2> HIDE DEF u, h
  <2>2. f \in Seq(Char) /\ f # <<>> /\ f[1] = h[1] /\ Tail(f) = Tail(h) \o u
    BY <2>1, HeadTail
  <2>3. QED
    BY <2>2 DEF u, h
<1>6. k = Count(c) => FmtAt(c, k + 1) = <<>>
  BY Tables
<1>7. QED
  BY <1>1, <1>2, <1>3, <1>4, <1>5, <1>6, LogAssumption DEF UnderWay, At

\* Both together: at the head of the loop an item is under way.
LEMMA HeadOfLoop ==
  ASSUME NEW c \in AllCalls, NEW b, NEW f, NEW a, Place(c, b, f, a),
         f # <<>>, Len(b) < MaxLogStr
  PROVE  \E k, cur, done : UnderWay(c, b, f, a, k, cur, done)
<1>1. PICK k, cur, done : At(c, b, f, a, k, cur, done)
  BY AtLoop
<1>2. QED
  BY <1>1, AtFacts

\* A turn that takes no argument, and shortens the item.
LEMMA Shortens ==
  ASSUME NEW c \in AllCalls, NEW b, NEW f, NEW a, NEW k, NEW cur, NEW done,
         UnderWay(c, b, f, a, k, cur, done), cur.args = <<>>,
         NEW g \in Seq(Char), NEW t \in Seq(Char), NEW more \in Seq(Char),
         more \o t = done \o cur.printed, Len(more) <= MaxLogStr,
         (g = <<>> /\ t = <<>>) \/ Fits(Item(g, <<>>, t), k = Count(c))
  PROVE  Place(c, more, g \o FmtAt(c, k + 1), a)
<1> DEFINE it == Item(g, <<>>, t)
<1>1. it.fmt = g /\ it.args = <<>> /\ it.printed = t
  BY DEF Item
<1>2. (g = <<>> /\ t = <<>>) \/ Fits(it, k = Count(c))
  OBVIOUS
<1> HIDE DEF it
<1>3. /\ k \in 1 .. Count(c) /\ done \in Seq(Char) /\ cur.printed \in Seq(Char) /\ MaxLogStr \in Nat
      /\ a = cur.args \o ArgsAt(c, k + 1) /\ Count(c) \in Nat
  BY DEF UnderWay
<1>4. Upto(more, MaxLogStr) = more
  BY <1>3, UptoFacts
<1>5. Len(more) + Len(t) = Len(PrintedAt(c, k + 1)) /\ (more \o t = PrintedAt(c, k + 1))
  <2>1. Len(done) + Len(cur.printed) = Len(PrintedAt(c, k + 1)) /\ (done \o cur.printed = PrintedAt(c, k + 1))
    BY DEF UnderWay, PlaceOf
  <2>2. \A u, v \in Seq(Char) : Len(u \o v) = Len(u) + Len(v)
    OBVIOUS
  <2>3. Len(more \o t) = Len(more) + Len(t) /\ Len(done \o cur.printed) = Len(done) + Len(cur.printed)
    BY <1>3, <2>2
  <2>4. QED
    BY <2>1, <2>3
<1>7. k \in 0 .. Count(c) /\ k > 0
  <2>1. k \in 1 .. Count(c) /\ Count(c) \in Nat
    BY <1>3
  <2>2. QED
    BY <2>1
<1>8. PlaceOf(c, more, g \o FmtAt(c, k + 1), a, k, it, more)
  BY <1>1, <1>2, <1>3, <1>4, <1>5, <1>7 DEF PlaceOf
<1>9. QED
  BY <1>8 DEF Place

\* What an item that begins otherwise than with '%' can be, and the other way.
LEMMA FitsLiteral ==
  ASSUME NEW it, NEW last, Fits(it, last), it.fmt \in Seq(Char)
  PROVE  it.fmt[1] # "%" <=> PlainFits(it)
<1>1. CASE PlainFits(it)
  <2>1. 1 \in DOMAIN it.fmt
    BY <1>1 DEF PlainFits
  <2>2. QED
    BY <1>1, <2>1 DEF PlainFits, IsPlain
<1>2. CASE UnknownFits(it, last)
  BY <1>1, <1>2 DEF UnknownFits
<1>3. CASE PercentFits(it, last)
  BY <1>1, <1>3 DEF PercentFits
<1>4. CASE NumberFits(it) \/ TextFits(it) \/ FloatFits(it)
  <2>1. it.fmt[1] = "%"
    BY <1>4, Zenon DEF NumberFits, TextFits, FloatFits, IsOne
  <2>2. QED
    BY <1>1, <2>1
<1>5. QED
  BY <1>1, <1>2, <1>3, <1>4 DEF Fits

\* A character may go from the front of one text to the end of another.
LEMMA HeadMoves ==
  ASSUME NEW S, NEW s \in Seq(S), NEW t \in Seq(S), t # <<>>
  PROVE  /\ Append(s, t[1]) \in Seq(S) /\ Append(s, t[1]) \o Tail(t) = s \o t
         /\ Len(Append(s, t[1])) = Len(s) + 1
<1>1. t[1] \in S /\ Tail(t) \in Seq(S) /\ Len(t) > 0 /\ Len(Tail(t)) = Len(t) - 1
  OBVIOUS
<1> DEFINE u == Append(s, t[1]) \o Tail(t)
           v == s \o t
<1>2. Append(s, t[1]) \in Seq(S) /\ Len(Append(s, t[1])) = Len(s) + 1 /\ Len(s) \in Nat /\ Len(t) \in Nat
  BY <1>1
<1>3. u \in Seq(S) /\ v \in Seq(S)
  BY <1>1, <1>2
<1>4. Len(u) = Len(s) + Len(t) /\ Len(v) = Len(s) + Len(t)
  BY <1>1, <1>2
<1>5. ASSUME NEW i \in 1 .. Len(u) PROVE u[i] = v[i]
  <2>1. i \in 1 .. Len(s) + Len(t)
    BY <1>4
  <2>2. CASE i <= Len(s)
    BY <1>1, <1>2, <2>1, <2>2
  <2>3. CASE i = Len(s) + 1
    BY <1>1, <1>2, <2>1, <2>3
  <2>4. CASE i > Len(s) + 1
    <3>1. u[i] = Tail(t)[i - (Len(s) + 1)]
      <4>1. i \in 1 .. Len(u) /\ i > Len(Append(s, t[1]))
        BY <1>2, <2>4
      <4> DEFINE h == Append(s, t[1])
                 w == Tail(t)
      <4>2. h \in Seq(S) /\ w \in Seq(S) /\ u = h \o w
        BY <1>1, <1>2
      <4>3. i \in 1 .. Len(h) + Len(w) /\ i > Len(h)
        BY <1>1, <1>2, <2>1, <2>4
      <4> HIDE DEF h, w
      <4>4. (h \o w)[i] = w[i - Len(h)]
        BY <4>2, <4>3
      <4>5. QED
        BY <1>2, <4>2, <4>4 DEF h, w
    <3>4. v[i] = t[i - Len(s)]
      BY <1>2, <2>1, <2>4
    <3>2. i - (Len(s) + 1) \in 1 .. Len(t) - 1
      BY <1>2, <2>1, <2>4
    <3>3. QED
      BY <1>1, <1>2, <3>1, <3>2, <3>4
  <2>5. QED
    BY <1>2, <2>1, <2>2, <2>3, <2>4
<1> HIDE DEF u, v
<1>6. u = v
  BY <1>3, <1>4, <1>5, SeqEqual
<1>7. QED
  BY <1>2, <1>6 DEF u, v

\* A character of plain text is printed: the place moves on by one.
LEMMA LiteralKeeps ==
  ASSUME NEW c \in AllCalls, NEW b, NEW f, NEW a, NEW k, NEW cur, NEW done,
         UnderWay(c, b, f, a, k, cur, done), f[1] # "%"
  PROVE  Place(c, Append(b, f[1]), Tail(f), a)
<1> DEFINE s == cur.fmt
           r == Tail(s)
           more == Append(done, s[1])
<1>1. /\ s \in Seq(Char) /\ s # <<>> /\ done \in Seq(Char) /\ b = done /\ f[1] = s[1]
      /\ Tail(f) = r \o FmtAt(c, k + 1) /\ Len(done) < MaxLogStr /\ MaxLogStr \in Nat
      /\ Fits(cur, k = Count(c))
  BY DEF UnderWay
<1>2. PlainFits(cur)
  BY <1>1, FitsLiteral
<1>3. cur.args = <<>> /\ IsPlain(s) /\ cur.printed = s
  BY <1>2 DEF PlainFits
<1>4. more \in Seq(Char) /\ more \o r = done \o cur.printed /\ Len(more) <= MaxLogStr /\ r \in Seq(Char)
  <2> HIDE DEF s
  <2>1. more \in Seq(Char) /\ more \o r = done \o s /\ Len(more) = Len(done) + 1 /\ r \in Seq(Char)
    <3>1. \A x, y \in Seq(Char) : y # <<>> => /\ Append(x, y[1]) \in Seq(Char)
              /\ Append(x, y[1]) \o Tail(y) = x \o y /\ Len(Append(x, y[1])) = Len(x) + 1
              /\ Tail(y) \in Seq(Char)
      BY HeadMoves
    <3>2. QED
      BY <1>1, <3>1, Zenon
  <2>2. Len(done) \in Nat
    BY <1>1
  <2> HIDE DEF more, r
  <2>3. QED
    BY <1>1, <1>3, <2>1, <2>2
<1>5. r # <<>> => Fits(Item(r, <<>>, r), k = Count(c))
  <2> SUFFICES ASSUME r # <<>> PROVE PlainFits(Item(r, <<>>, r))
    BY DEF Fits
  <2> HIDE DEF s
  <2>1. IsPlain(r)
    <3>1. \A i \in DOMAIN r : i + 1 \in DOMAIN s /\ r[i] = s[i + 1]
      BY <1>1
    <3>2. QED
      BY <1>3, <3>1 DEF IsPlain
  <2>2. QED
    BY <2>1 DEF PlainFits, Item
<1> HIDE DEF r, more, s
<1>6. Place(c, more, r \o FmtAt(c, k + 1), a)
  BY <1>3, <1>4, <1>5, Shortens
<1>7. QED
  BY <1>1, <1>6 DEF more

\* A directive that takes an argument has its letter behind the width.
LEMMA FitsOne ==
  ASSUME NEW it, NumberFits(it) \/ TextFits(it) \/ FloatFits(it)
  PROVE  /\ it.fmt[1] = "%" /\ it.args # <<>> /\ it.args = <<it.args[1]>>
         /\ ConvOf(it.fmt) # <<>> /\ ConvOf(it.fmt)[1] \in Letters
         /\ NumberFits(it) => ConvOf(it.fmt)[1] \in {"d", "x", "X", "u", "P"}
         /\ TextFits(it) => ConvOf(it.fmt)[1] = "s"
         /\ FloatFits(it) => ConvOf(it.fmt)[1] \in {".", "f"}
<1>1. ASSUME NumberFits(it)
      PROVE  /\ it.fmt[1] = "%" /\ it.args # <<>> /\ it.args = <<it.args[1]>>
             /\ ConvOf(it.fmt) # <<>> /\ ConvOf(it.fmt)[1] \in {"d", "x", "X", "u", "P"}
  BY <1>1, Zenon DEF NumberFits, IsOne
<1>2. ASSUME TextFits(it)
      PROVE  /\ it.fmt[1] = "%" /\ it.args # <<>> /\ it.args = <<it.args[1]>>
             /\ ConvOf(it.fmt) # <<>> /\ ConvOf(it.fmt)[1] \in {"s"}
  BY <1>2, Zenon DEF TextFits, IsOne
<1>3. ASSUME FloatFits(it)
      PROVE  /\ it.fmt[1] = "%" /\ it.args # <<>> /\ it.args = <<it.args[1]>>
             /\ ConvOf(it.fmt) # <<>> /\ ConvOf(it.fmt)[1] \in {".", "f"}
  BY <1>3, Zenon DEF FloatFits, IsOne
<1>4. QED
  BY <1>1, <1>2, <1>3 DEF Letters

\* What stands behind a width is read as it stands in the item.
LEMMA HeadParse ==
  ASSUME NEW c \in AllCalls, NEW b, NEW f, NEW a, NEW k, NEW cur, NEW done,
         UnderWay(c, b, f, a, k, cur, done), ConvOf(cur.fmt) # <<>>
  PROVE  LET s == cur.fmt
             F == FmtAt(c, k + 1)
         IN /\ WidthOf(f) = WidthOf(s) /\ WidthOf(s) \in Seq(Digit) /\ ZeroOf(f) = ZeroOf(s)
            /\ ConvOf(f) = ConvOf(s) \o F /\ ConvOf(s) \in Seq(Char) /\ ConvOf(f) # <<>>
            /\ ConvOf(f)[1] = ConvOf(s)[1] /\ Tail(ConvOf(f)) = Tail(ConvOf(s)) \o F
            /\ ConvOf(s)[1] # "%" => f[2] # "%"
            /\ Len(f) > 1
<1> DEFINE s == cur.fmt
           F == FmtAt(c, k + 1)
<1>1. s \in Seq(Char) /\ F \in Seq(Char) /\ s # <<>> /\ ConvOf(s) # <<>> /\ f = s \o F
  BY DEF UnderWay
<1> HIDE DEF s, F
<1>2. /\ ConvOf(s) \in Seq(Char) /\ WidthOf(s) \in Seq(Digit)
      /\ ConvOf(s)[1] # "%" => s[2] # "%"
  BY <1>1, ConvFacts
<1>3. /\ WidthOf(s \o F) = WidthOf(s) /\ ConvOf(s \o F) = ConvOf(s) \o F /\ ZeroOf(s \o F) = ZeroOf(s)
      /\ Len(s \o F) > 1 /\ (s \o F)[2] = s[2]
      /\ ConvOf(s \o F)[1] = ConvOf(s)[1] /\ ConvOf(s \o F) # <<>>
      /\ Tail(ConvOf(s \o F)) = Tail(ConvOf(s)) \o F
  BY <1>1, ParseBehind
<1>4. QED
  BY <1>1, <1>2, <1>3, Zenon DEF s, F

\* An unknown directive, from outside.
IsUnknown(c, f, k, cur) ==
  /\ cur.args = <<>> /\ IsPlain(cur.printed)
  /\ ConvOf(f) = cur.printed \o FmtAt(c, k + 1)
  /\ ConvOf(f) # <<>> => ConvOf(f)[1] \notin Letters
  /\ ~(Len(f) > 1 /\ f[2] = "%")

\* At an unknown directive the code finds no letter that it knows.
LEMMA UnknownHead ==
  ASSUME NEW c \in AllCalls, NEW b, NEW f, NEW a, NEW k, NEW cur, NEW done,
         UnderWay(c, b, f, a, k, cur, done), UnknownFits(cur, k = Count(c))
  PROVE  IsUnknown(c, f, k, cur)
<1>1. /\ cur.args = <<>> /\ ConvOf(cur.fmt) = cur.printed /\ IsPlain(cur.printed)
      /\ IF cur.printed = <<>> THEN k = Count(c) ELSE cur.printed[1] \notin Letters
  BY Zenon DEF UnknownFits
<1>2. cur.printed \in Seq(Char) /\ f = cur.fmt \o FmtAt(c, k + 1) /\ cur.fmt \in Seq(Char)
      /\ (k = Count(c) => FmtAt(c, k + 1) = <<>>) /\ f \in Seq(Char)
  BY DEF UnderWay
<1>3. CASE cur.printed = <<>>
  <2>1. FmtAt(c, k + 1) = <<>> /\ f = cur.fmt \o <<>>
    BY <1>1, <1>2, <1>3
  <2>2. f = cur.fmt /\ ConvOf(f) = <<>> /\ <<>> \o <<>> = <<>>
    <3>1. \A u \in Seq(Char) : u \o <<>> = u
      OBVIOUS
    <3>2. f = cur.fmt
      BY <1>2, <2>1, <3>1
    <3>3. <<>> \o <<>> = <<>>
      OBVIOUS
    <3>4. QED
      BY <1>1, <1>3, <3>2, <3>3, Zenon
  <2>3. ~(Len(f) > 1 /\ f[2] = "%")
    <3> SUFFICES ASSUME Len(f) > 1, f[2] = "%" PROVE FALSE
      OBVIOUS
    <3>1. ConvOf(f) = Tail(f)
      BY <1>2, ConvOfPercent
    <3>2. Tail(f) # <<>>
      <4>1. f \in Seq(Char)
        BY <1>2
      <4>2. \A u \in Seq(Char) : Len(u) > 1 => Len(Tail(u)) = Len(u) - 1 /\ Len(<<>>) = 0 /\ Len(u) \in Nat
        OBVIOUS
      <4>3. Len(Tail(f)) = Len(f) - 1 /\ Len(f) \in Nat /\ Len(f) > 1
        BY <4>1, <4>2
      <4>4. Len(Tail(f)) # 0 /\ Len(<<>>) = 0
        BY <4>3
      <4>5. QED
        BY <4>4, Zenon
    <3>3. QED
      BY <2>2, <3>1, <3>2, Zenon
  <2>4. QED
    BY <1>1, <1>3, <2>1, <2>2, <2>3 DEF IsUnknown
<1>4. CASE cur.printed # <<>>
  <2>1. 1 \in DOMAIN cur.printed
    BY <1>2, <1>4
  <2>2. cur.printed[1] # "%" /\ cur.printed[1] \notin Letters
    BY <1>1, <1>4, <2>1 DEF IsPlain
  <2>3. /\ ConvOf(f) = ConvOf(cur.fmt) \o FmtAt(c, k + 1) /\ ConvOf(f)[1] = ConvOf(cur.fmt)[1]
        /\ ConvOf(cur.fmt)[1] # "%" => f[2] # "%"
    <3>1. ConvOf(cur.fmt) # <<>>
      BY <1>1, <1>4
    <3>2. QED
      BY <3>1, HeadParse
  <2>4. QED
    BY <1>1, <2>2, <2>3 DEF IsUnknown
<1>5. QED
  BY <1>3, <1>4

\* At a directive that takes an argument the code finds the letter of the item.
LEMMA OneHead ==
  ASSUME NEW c \in AllCalls, NEW b, NEW f, NEW a, NEW k, NEW cur, NEW done,
         UnderWay(c, b, f, a, k, cur, done), NumberFits(cur) \/ TextFits(cur) \/ FloatFits(cur)
  PROVE  /\ f[2] # "%" /\ ConvOf(f) # <<>> /\ ConvOf(f)[1] = ConvOf(cur.fmt)[1] /\ ConvOf(f)[1] \in Letters
<1>1. ConvOf(cur.fmt) # <<>> /\ ConvOf(cur.fmt)[1] \in Letters
  BY FitsOne
<1>2. \A l \in Letters : l # "%"
  BY DEF Letters
<1>3. /\ ConvOf(f)[1] = ConvOf(cur.fmt)[1] /\ ConvOf(f) # <<>>
      /\ ConvOf(cur.fmt)[1] # "%" => f[2] # "%"
  BY <1>1, HeadParse
<1>4. QED
  BY <1>1, <1>2, <1>3

\* At %% the code finds the second %.
LEMMA PercentHead ==
  ASSUME NEW c \in AllCalls, NEW b, NEW f, NEW a, NEW k, NEW cur, NEW done,
         UnderWay(c, b, f, a, k, cur, done), PercentFits(cur, k = Count(c))
  PROVE  Len(f) > 1 /\ f[2] = "%"
<1>1. cur.fmt \in Seq(Char) /\ FmtAt(c, k + 1) \in Seq(Char) /\ f = cur.fmt \o FmtAt(c, k + 1)
      /\ Len(cur.fmt) > 1 /\ cur.fmt[2] = "%"
  BY DEF UnderWay, PercentFits
<1>2. \A u, v \in Seq(Char) : Len(u) > 1 => Len(u \o v) > 1 /\ (u \o v)[2] = u[2]
  OBVIOUS
<1>3. QED
  BY <1>1, <1>2

\* Where the code finds a %, the item is a directive.
LEMMA HeadFits ==
  ASSUME NEW c \in AllCalls, NEW b, NEW f, NEW a, NEW k, NEW cur, NEW done,
         UnderWay(c, b, f, a, k, cur, done), f[1] = "%"
  PROVE  \/ UnknownFits(cur, k = Count(c)) \/ PercentFits(cur, k = Count(c))
         \/ NumberFits(cur) \/ TextFits(cur) \/ FloatFits(cur)
<1>1. Fits(cur, k = Count(c)) /\ cur.fmt \in Seq(Char) /\ cur.fmt[1] = "%"
  BY DEF UnderWay
<1>2. ~PlainFits(cur)
  BY <1>1, FitsLiteral
<1>3. QED
  BY <1>1, <1>2 DEF Fits

\* The first % of two is printed: what is left is an unknown directive.
LEMMA PercentKeeps ==
  ASSUME NEW c \in AllCalls, NEW b, NEW f, NEW a, NEW k, NEW cur, NEW done,
         UnderWay(c, b, f, a, k, cur, done), f[1] = "%", Len(f) > 1, f[2] = "%"
  PROVE  Place(c, Append(b, "%"), Tail(f), a)
<1> DEFINE s == cur.fmt
           w == cur.printed
           r == Tail(s)
           t == Tail(w)
           more == Append(done, w[1])
<1>1. /\ s \in Seq(Char) /\ s # <<>> /\ w \in Seq(Char) /\ done \in Seq(Char) /\ b = done
      /\ Tail(f) = r \o FmtAt(c, k + 1) /\ Len(done) < MaxLogStr /\ MaxLogStr \in Nat
  BY DEF UnderWay
<1>2. PercentFits(cur, k = Count(c))
  <2>1. ~UnknownFits(cur, k = Count(c))
    BY UnknownHead DEF IsUnknown
  <2>2. ~(NumberFits(cur) \/ TextFits(cur) \/ FloatFits(cur))
    BY OneHead, Zenon
  <2>3. QED
    BY <2>1, <2>2, HeadFits, Zenon
<1>3. /\ cur.args = <<>> /\ Len(s) > 1 /\ s[2] = "%" /\ w = Tail(s)
      /\ UnknownFits(Item(r, <<>>, t), k = Count(c))
  BY <1>2, Zenon DEF PercentFits
<1>4. w # <<>> /\ w[1] = "%"
  <2>1. ASSUME NEW u \in Seq(Char), Len(u) > 1 PROVE Tail(u) # <<>> /\ Tail(u)[1] = u[2]
    <3>1. u # <<>> /\ Len(u) \in Nat
      BY <2>1
    <3>2. /\ Len(Tail(u)) = Len(u) - 1 /\ Tail(u) \in Seq(Char)
          /\ \A i \in 1 .. Len(Tail(u)) : Tail(u)[i] = u[i + 1]
      BY <3>1, HeadTailProperties
    <3>3. Tail(u) # <<>>
      <4> DEFINE m == Len(u)
                 n == Len(Tail(u))
      <4>0. n = m - 1 /\ m > 1 /\ m \in Nat
        BY <2>1, <3>1, <3>2
      <4> HIDE DEF m, n
      <4>1. n # 0
        BY <4>0
      <4> USE DEF n
      <4>2. Len(<<>>) = 0
        OBVIOUS
      <4>3. QED
        BY <4>1, <4>2, Zenon
    <3>4. 1 \in 1 .. Len(Tail(u))
      BY <2>1, <3>1, <3>2
    <3>5. Tail(u)[1] = u[1 + 1]
      BY <3>2, <3>4
    <3>6. QED
      BY <3>3, <3>5
  <2>2. QED
    BY <1>1, <1>3, <2>1
<1>5. more \in Seq(Char) /\ more \o t = done \o w /\ Len(more) <= MaxLogStr /\ t \in Seq(Char) /\ r \in Seq(Char)
  <2>0. r \in Seq(Char)
    BY <1>1
  <2> HIDE DEF w, r
  <2>1. more \in Seq(Char) /\ more \o t = done \o w /\ Len(more) = Len(done) + 1 /\ t \in Seq(Char)
    <3>1. \A x, y \in Seq(Char) : y # <<>> => /\ Append(x, y[1]) \in Seq(Char)
              /\ Append(x, y[1]) \o Tail(y) = x \o y /\ Len(Append(x, y[1])) = Len(x) + 1
              /\ Tail(y) \in Seq(Char)
      BY HeadMoves
    <3>2. QED
      BY <1>1, <1>4, <3>1, Zenon
  <2>2. Len(done) \in Nat
    BY <1>1
  <2> HIDE DEF more, t
  <2>3. QED
    BY <1>1, <2>0, <2>1, <2>2
<1>6. Fits(Item(r, <<>>, t), k = Count(c))
  BY <1>3, Zenon DEF Fits
<1>7. more = Append(b, "%")
  BY <1>1, <1>4
<1> HIDE DEF r, t, more, s
<1>8. Place(c, more, r \o FmtAt(c, k + 1), a)
  BY <1>3, <1>5, <1>6, Shortens
<1>9. QED
  BY <1>1, <1>7, <1>8

\* An unknown directive is passed as far as its width: the rest is plain text.
LEMMA UnknownKeeps ==
  ASSUME NEW c \in AllCalls, NEW b, NEW f, NEW a, NEW k, NEW cur, NEW done,
         UnderWay(c, b, f, a, k, cur, done), f[1] = "%", ~(Len(f) > 1 /\ f[2] = "%"),
         ConvOf(f) # <<>> => ConvOf(f)[1] \notin Letters
  PROVE  Place(c, b, ConvOf(f), a)
<1> DEFINE w == cur.printed
<1>1. w \in Seq(Char) /\ done \in Seq(Char) /\ b = done /\ Len(done) < MaxLogStr /\ MaxLogStr \in Nat
      /\ Len(done) \in Nat
  BY DEF UnderWay
<1>2. UnknownFits(cur, k = Count(c))
  <2>1. ~PercentFits(cur, k = Count(c))
    BY PercentHead, Zenon
  <2>2. ~(NumberFits(cur) \/ TextFits(cur) \/ FloatFits(cur))
    BY OneHead, Zenon
  <2>3. QED
    BY <2>1, <2>2, HeadFits, Zenon
<1>3. cur.args = <<>> /\ IsPlain(w) /\ ConvOf(f) = w \o FmtAt(c, k + 1)
  <2>1. cur.args = <<>> /\ IsPlain(cur.printed) /\ ConvOf(f) = cur.printed \o FmtAt(c, k + 1)
    <3>1. IsUnknown(c, f, k, cur)
      BY <1>2, UnknownHead
    <3>2. QED
      BY <3>1 DEF IsUnknown
  <2>2. QED
    BY <2>1
<1>4. w # <<>> => Fits(Item(w, <<>>, w), k = Count(c))
  BY <1>3 DEF Fits, PlainFits, Item
<1>5. Len(done) <= MaxLogStr
  BY <1>1
<1> HIDE DEF w
<1>6. done \o w = done \o cur.printed
  BY DEF w
<1>7. Place(c, done, w \o FmtAt(c, k + 1), a)
  BY <1>1, <1>3, <1>4, <1>5, <1>6, Shortens
<1>8. QED
  BY <1>1, <1>3, <1>7

\* A turn that takes an argument puts all that its item stands for.
LEMMA Takes ==
  ASSUME NEW c \in AllCalls, NEW b, NEW f, NEW a, NEW k, NEW cur, NEW done,
         UnderWay(c, b, f, a, k, cur, done), cur.args # <<>>, cur.args = <<cur.args[1]>>,
         NEW t \in Seq(Char), t = cur.printed
  PROVE  Place(c, Upto(done \o t, MaxLogStr), FmtAt(c, k + 1), Tail(a)) /\ a[1] = cur.args[1]
<1> DEFINE it == Item(<<>>, <<>>, <<>>)
           x == cur.args[1]
           A == ArgsAt(c, k + 1)
           F == FmtAt(c, k + 1)
<1>1. it.fmt = <<>> /\ it.args = <<>> /\ it.printed = <<>>
  BY DEF Item
<1> HIDE DEF it
<1>2. /\ k \in 1 .. Count(c) /\ done \in Seq(Char) /\ cur.printed \in Seq(Char) /\ MaxLogStr \in Nat
      /\ a = <<x>> \o A /\ A \in Seq(Args(c)) /\ F \in Seq(Char) /\ Count(c) \in Nat
  BY DEF UnderWay
<1>3. a[1] = x /\ Tail(a) = A /\ <<>> \o A = A /\ <<>> \o F = F
  <2>1. x \in Args(c)
    <3>1. cur = Items(c)[k]
      BY DEF UnderWay, PlaceOf
    <3>2. k \in DOMAIN Items(c)
      BY <1>2, Tables
    <3>3. QED
      BY <3>1, <3>2 DEF Args, ArgsOf
  <2> DEFINE S == Args(c)
  <2>2. x \in S /\ A \in Seq(S) /\ F \in Seq(Char)
    BY <1>2, <2>1
  <2> HIDE DEF S, x, A, F
  <2>3. <<x>> \in Seq(S) /\ <<x>> # <<>> /\ <<x>>[1] = x /\ Tail(<<x>>) = <<>>
    BY <2>2
  <2>4. (<<x>> \o A)[1] = <<x>>[1] /\ Tail(<<x>> \o A) = Tail(<<x>>) \o A
    BY <2>2, <2>3, HeadTail
  <2>5. <<>> \o A = A /\ <<>> \o F = F
    BY <2>2
  <2>6. QED
    BY <1>2, <2>3, <2>4, <2>5
<1> DEFINE more == done \o t
<1>4. \A u, v \in Seq(Char) : u \o v \in Seq(Char) /\ Len(u \o v) = Len(u) + Len(v) /\ u \o <<>> = u
  OBVIOUS
<1>5. more \in Seq(Char) /\ Len(more) = Len(done) + Len(t) /\ more \o <<>> = more
  BY <1>2, <1>4
<1>6. Len(more) = Len(PrintedAt(c, k + 1)) /\ (more = PrintedAt(c, k + 1))
  <2>1. Len(done) + Len(cur.printed) = Len(PrintedAt(c, k + 1)) /\ (done \o cur.printed = PrintedAt(c, k + 1))
    BY DEF UnderWay, PlaceOf
  <2>2. QED
    BY <1>5, <2>1
<1> HIDE DEF more
<1>7. Len(more) + Len(<<>>) = Len(more)
  <2>1. Len(<<>>) = 0 /\ Len(more) \in Nat
    BY <1>5
  <2>2. QED
    BY <2>1
<1>9. k \in 0 .. Count(c) /\ <<>> \in Seq(Char)
  BY <1>2
<1>10. PlaceOf(c, Upto(more, MaxLogStr), F, A, k, it, more)
  BY <1>1, <1>3, <1>5, <1>6, <1>7, <1>9 DEF PlaceOf
<1>11. Place(c, Upto(more, MaxLogStr), F, A)
  BY <1>10 DEF Place
<1>12. QED
  BY <1>3, <1>11 DEF more

\* What ngx_printf_num puts.
LEMMA PaddedType ==
  ASSUME NEW C, NEW s \in Seq(C), NEW z \in C, NEW n \in Nat
  PROVE  /\ Padded(s, z, n) \in Seq(C)
         /\ Len(Padded(s, z, n)) = (IF n > Len(s) THEN n ELSE Len(s))
         /\ n <= Len(s) => Padded(s, z, n) = s
<1> DEFINE m == IF n > Len(s) THEN n - Len(s) ELSE 0
           p == [i \in 1 .. n - Len(s) |-> z]
<1>1. Len(s) \in Nat /\ m \in Nat /\ 1 .. n - Len(s) = 1 .. m
  OBVIOUS
<1>2. p \in Seq(C) /\ Len(p) = m
  <2>1. p \in [1 .. m -> C]
    BY <1>1
  <2> HIDE DEF p, m
  <2>2. QED
    BY <1>1, <2>1
<1>3. Padded(s, z, n) = p \o s
  BY DEF Padded
<1> HIDE DEF p
<1>4. p \o s \in Seq(C) /\ Len(p \o s) = m + Len(s)
  BY <1>2
<1>5. n <= Len(s) => p \o s = s
  <2> SUFFICES ASSUME n <= Len(s) PROVE p \o s = s
    OBVIOUS
  <2>1. Len(p) = 0
    BY <1>1, <1>2
  <2>2. p = <<>>
    BY <1>2, <2>1, EmptySeq
  <2>3. QED
    BY <2>2
<1>6. QED
  BY <1>1, <1>3, <1>4, <1>5

\* Signs, magnitudes, fills and digits are characters.
LEMMA PartTypes ==
  /\ \A n \in Int : /\ Sign(n) \in Seq(Char) /\ Abs(n) \in Nat
                    /\ \A i \in DOMAIN Sign(n) : Sign(n)[i] = "-"
                    /\ n >= 0 => Sign(n) = <<>> /\ Abs(n) = n
  /\ \A f : ZeroOf(f) \in Char
  /\ \A n \in Nat : /\ Digits(n, 10, Decimals) \in Seq(Digit) /\ Digits(n, 10, Decimals) \in Seq(Char)
                    /\ Digits(n, 16, hex) \in Seq(Char) /\ Digits(n, 16, HEX) \in Seq(Char)
<1>1. ASSUME NEW n \in Int
      PROVE  /\ Sign(n) \in Seq(Char) /\ Abs(n) \in Nat
             /\ \A i \in DOMAIN Sign(n) : Sign(n)[i] = "-"
             /\ n >= 0 => Sign(n) = <<>> /\ Abs(n) = n
  <2>1. "-" \in Char
    BY DEF Char
  <2>2. <<"-">> \in Seq(Char) /\ <<>> \in Seq(Char) /\ DOMAIN <<"-">> = {1} /\ DOMAIN <<>> = {} /\ <<"-">>[1] = "-"
    BY <2>1
  <2>3. Abs(n) \in Nat /\ (n >= 0 => Abs(n) = n)
    BY DEF Abs
  <2>4. CASE n < 0
    BY <2>2, <2>3, <2>4 DEF Sign
  <2>5. CASE n >= 0
    BY <2>2, <2>3, <2>5 DEF Sign
  <2>6. QED
    BY <2>4, <2>5
<1>2. ASSUME NEW f PROVE ZeroOf(f) \in Char
  <2>1. "0" \in Char /\ " " \in Char
    <3>1. Decimals[1] = "0" /\ 1 \in 1 .. 10
      BY DEF Decimals
    <3>2. "0" \in Char
      BY <3>1, DigitFacts
    <3>3. " " \in Char
      BY DEF Char
    <3>4. QED
      BY <3>2, <3>3, Zenon
  <2>2. QED
    BY <2>1, Zenon DEF ZeroOf
<1>3. ASSUME NEW n \in Nat
      PROVE  /\ Digits(n, 10, Decimals) \in Seq(Digit) /\ Digits(n, 10, Decimals) \in Seq(Char)
             /\ Digits(n, 16, hex) \in Seq(Char) /\ Digits(n, 16, HEX) \in Seq(Char)
  <2>1. 10 \in Nat /\ 16 \in Nat /\ 10 > 1 /\ 16 > 1
    OBVIOUS
  <2>2. Digits(n, 10, Decimals) \in Seq(Digit)
    BY <2>1, DigitFacts, DigitsType
  <2>3. Digits(n, 10, Decimals) \in Seq(Char)
    BY <2>1, DigitFacts, DigitsType
  <2>4. Digits(n, 16, hex) \in Seq(Char) /\ Digits(n, 16, HEX) \in Seq(Char)
    BY <2>1, HexFacts, DigitsType
  <2>5. QED
    BY <2>2, <2>3, <2>4
<1>4. QED
  BY <1>1, <1>2, <1>3

\* Behind a directive of one letter the next item begins.
LEMMA OnlyHead ==
  ASSUME NEW v \in Seq(Char), Len(v) = 1, NEW F \in Seq(Char)
  PROVE  Tail(v) \o F = F
<1>1. Tail(v) \in Seq(Char) /\ Len(Tail(v)) = 0
  OBVIOUS
<1>2. Tail(v) = <<>>
  BY <1>1, EmptySeq
<1>3. <<>> \o F = F
  OBVIOUS
<1>4. QED
  BY <1>2, <1>3

\* The number of a whole item: its parts, and what Num makes of them.
LEMMA NumberPut ==
  ASSUME NEW d \in Seq(Char), NEW s \in Seq(Char), NEW digits \in Seq(Char), NEW z \in Char, NEW n \in Nat
  PROVE  Num(d \o s, digits, z, n) = Upto(d \o (s \o Padded(digits, z, n)), MaxLogStr)
<1> DEFINE p == Padded(digits, z, n)
<1>1. p \in Seq(Char)
  BY PaddedType
<1> HIDE DEF p
<1>2. (d \o s) \o p = d \o (s \o p)
  <2>1. IsAssociative(Seq(Char))
    BY AssocAll
  <2>2. d \in Seq(Char) /\ s \in Seq(Char)
    OBVIOUS
  <2>3. QED
    BY <1>1, <2>1, <2>2, Zenon DEF IsAssociative
<1>3. QED
  BY <1>2 DEF Num, p

\* %d, %x, %X, %u and %P print the text of their item, cut to the buffer.
LEMMA NumberKeeps ==
  ASSUME NEW c \in AllCalls, NEW b, NEW f, NEW a, NEW k, NEW cur, NEW done,
         UnderWay(c, b, f, a, k, cur, done), NumberFits(cur)
  PROVE  LET letter == ConvOf(f)[1]
         IN /\ a[1] \in Int /\ letter \in {"d", "x", "X", "u", "P"}
            /\ letter \in {"u", "P"} => a[1] >= 0
            /\ Place(c, Num(b \o Sign(a[1]), DigitsOf(letter, a[1]), ZeroOf(f), Number(WidthOf(f))),
                     Tail(ConvOf(f)), Tail(a))
<1> DEFINE s == cur.fmt
           v == ConvOf(s)
           n == cur.args[1]
           w == Number(WidthOf(s))
           z == ZeroOf(s)
           digits == DigitsOf(v[1], n)
           F == FmtAt(c, k + 1)
<1>1. /\ cur.args # <<>> /\ cur.args = <<cur.args[1]>> /\ v # <<>> /\ v[1] \in {"d", "x", "X", "u", "P"}
  BY FitsOne
<1>2. /\ Len(v) = 1 /\ n \in Int /\ (n < 0 => v[1] \notin {"u", "P"})
      /\ cur.printed = Sign(n) \o Padded(digits, z, w)
  BY Zenon DEF NumberFits
<1>3. s \in Seq(Char) /\ cur.printed \in Seq(Char) /\ F \in Seq(Char) /\ done \in Seq(Char) /\ b = done
  BY DEF UnderWay
<1>4. /\ WidthOf(f) = WidthOf(s) /\ WidthOf(s) \in Seq(Digit) /\ ZeroOf(f) = z /\ v \in Seq(Char)
      /\ ConvOf(f)[1] = v[1] /\ Tail(ConvOf(f)) = Tail(v) \o F
  BY <1>1, HeadParse
<1>5. w \in Nat /\ z \in Char /\ Sign(n) \in Seq(Char) /\ Abs(n) \in Nat
  BY <1>2, <1>4, NumberType, PartTypes
<1>6. digits \in Seq(Char)
  <2> HIDE DEF v, n
  <2>1. CASE v[1] = "x"
    <3>1. digits = Digits(Abs(n), 16, hex)
      BY <2>1 DEF DigitsOf
    <3>2. QED
      BY <1>5, <3>1, PartTypes
  <2>2. CASE v[1] = "X"
    <3>1. digits = Digits(Abs(n), 16, HEX)
      BY <2>2 DEF DigitsOf
    <3>2. QED
      BY <1>5, <3>1, PartTypes
  <2>3. CASE v[1] \notin {"x", "X"}
    <3>1. digits = Digits(Abs(n), 10, Decimals)
      BY <2>3 DEF DigitsOf
    <3>2. QED
      BY <1>5, <3>1, PartTypes
  <2>4. QED
    BY <2>1, <2>2, <2>3
<1>7. Tail(v) \o F = F
  <2> HIDE DEF v, F
  <2>1. QED
    BY <1>2, <1>3, <1>4, OnlyHead
<1> HIDE DEF digits, w, z, n, F, v
<1>9. Place(c, Upto(done \o cur.printed, MaxLogStr), FmtAt(c, k + 1), Tail(a)) /\ a[1] = cur.args[1]
  BY <1>1, <1>3, Takes
<1>10. Num(done \o Sign(n), digits, z, w) = Upto(done \o cur.printed, MaxLogStr)
  BY <1>2, <1>3, <1>5, <1>6, NumberPut
<1>11. a[1] = n /\ (v[1] \in {"u", "P"} => n >= 0)
  BY <1>2, <1>9 DEF n
<1>12. QED
  BY <1>1, <1>2, <1>3, <1>4, <1>7, <1>9, <1>10, <1>11 DEF digits, w, F

\* %s prints its argument, cut to the buffer.
LEMMA TextKeeps ==
  ASSUME NEW c \in AllCalls, NEW b, NEW f, NEW a, NEW k, NEW cur, NEW done,
         UnderWay(c, b, f, a, k, cur, done), TextFits(cur)
  PROVE  /\ ConvOf(f)[1] = "s"
         /\ Place(c, Upto(b \o a[1], MaxLogStr), Tail(ConvOf(f)), Tail(a))
<1> DEFINE s == cur.fmt
           v == ConvOf(s)
           F == FmtAt(c, k + 1)
<1>1. cur.args # <<>> /\ cur.args = <<cur.args[1]>> /\ v # <<>> /\ v[1] = "s"
  BY FitsOne
<1>2. s = <<"%", "s">> /\ cur.printed = cur.args[1]
  BY Zenon DEF TextFits
<1>3. s \in Seq(Char) /\ cur.printed \in Seq(Char) /\ F \in Seq(Char) /\ b = done /\ s # <<>>
  BY DEF UnderWay
<1>4. v \in Seq(Char) /\ ConvOf(f)[1] = v[1] /\ Tail(ConvOf(f)) = Tail(v) \o F
  BY <1>1, HeadParse
<1>5. Tail(v) \o F = F
  <2>1. WidthOf(s) \in Seq(Digit) /\ Len(WidthOf(s)) < Len(Tail(s)) /\ Len(v) = Len(Tail(s)) - Len(WidthOf(s))
    BY <1>1, <1>3, ConvFacts
  <2>2. Len(Tail(s)) = 1 /\ Len(WidthOf(s)) \in Nat
    BY <1>2, <2>1
  <2> DEFINE m == Len(WidthOf(s))
             o == Len(Tail(s))
  <2>3. m \in Nat /\ o = 1 /\ m < o /\ Len(v) = o - m
    BY <2>1, <2>2
  <2> HIDE DEF m, o, v, F
  <2>4. Len(v) = 1
    BY <2>3
  <2>5. QED
    BY <1>3, <1>4, <2>4, OnlyHead
<1>7. Place(c, Upto(done \o cur.printed, MaxLogStr), FmtAt(c, k + 1), Tail(a)) /\ a[1] = cur.args[1]
  BY <1>1, <1>3, Takes
<1>8. QED
  BY <1>1, <1>2, <1>3, <1>4, <1>5, <1>7

\* After nothing stands all, after all nothing.
LEMMA AfterAll ==
  ASSUME NEW s \in Seq(Char)
  PROVE  After(s, 0) = s /\ After(s, Len(s)) = <<>>
<1>1. Len(s) \in Nat /\ 0 \in 0 .. Len(s) /\ Len(s) \in 0 .. Len(s)
  OBVIOUS
<1>2. After(s, 0) = s
  <2> DEFINE u == After(s, 0)
  <2>1. u \in Seq(Char) /\ Len(u) = Len(s) - 0 /\ \A i \in 1 .. Len(s) - 0 : u[i] = s[0 + i]
    BY <1>1, AfterType
  <2> HIDE DEF u
  <2>2. Len(u) = Len(s) /\ \A i \in 1 .. Len(u) : u[i] = s[i]
    BY <1>1, <2>1
  <2>3. u = s
    BY <2>1, <2>2, SeqEqual
  <2>4. QED
    BY <2>3 DEF u
<1>3. After(s, Len(s)) = <<>>
  <2> DEFINE m == Len(s)
  <2>1. m \in 0 .. Len(s) /\ Len(s) - m = 0
    BY <1>1
  <2> HIDE DEF m
  <2>2. After(s, m) \in Seq(Char) /\ Len(After(s, m)) = 0
    BY <2>1, AfterType
  <2>3. After(s, m) = <<>>
    BY <2>2, EmptySeq
  <2>4. QED
    BY <2>3 DEF m
<1>4. QED
  BY <1>2, <1>3

\* The two shapes of a float.
IsWhole(it) ==
  /\ ConvOf(it.fmt) = <<"f">>
  /\ it.printed = Sign(it.args[1])
                  \o Padded(Digits(Abs(it.args[1]) \div 1000, 10, Decimals), ZeroOf(it.fmt), Number(WidthOf(it.fmt)))

IsPointed(it, p, n) ==
  LET x == it.args[1]
      scale == Scale[n]
      fill == FillOf(it.fmt, x, scale)
  IN /\ ConvOf(it.fmt) = <<".">> \o p \o <<"f">> /\ n > 0
     /\ it.printed = Sign(x) \o Padded(Digits(WholeOf(x, scale), 10, Decimals), fill, Number(WidthOf(it.fmt)))
                     \o <<".">> \o Padded(FracOf(x, scale), fill, n)

AreFloatParts(x, scale) ==
  Digits(WholeOf(x, scale), 10, Decimals) \in Seq(Digit) /\ FracOf(x, scale) \in Seq(Digit)

\* The whole part and the rounded fraction of a float are natural numbers.
LEMMA FloatParts ==
  ASSUME NEW x \in Int, NEW n \in Nat
  PROVE  AreFloatParts(x, Scale[n])
<1> DEFINE scale == Scale[n]
<1>1. scale \in Nat
  BY ScaleType
<1>2. Abs(x) \in Nat
  BY PartTypes
<1> HIDE DEF scale
<1>3. Abs(x) \div 1000 \in Nat /\ Abs(x) % 1000 \in Nat
  BY <1>2
<1>4. Rounded(x, scale) \in Nat
  <2> DEFINE r == Abs(x) % 1000
  <2>1. r * scale \in Nat
    <3>1. r \in Nat
      BY <1>3
    <3> HIDE DEF r
    <3>2. QED
      BY <1>1, <3>1
  <2> DEFINE m == r * scale
  <2>2. m \in Nat
    BY <2>1
  <2> HIDE DEF m
  <2>3. (m + 500) \div 1000 \in Nat
    BY <2>2
  <2>4. QED
    BY <2>3 DEF Rounded, m
<1>5. WholeOf(x, scale) \in Nat
  BY <1>3 DEF WholeOf
<1>6. FracOf(x, scale) \in Seq(Digit)
  <2> DEFINE m == IF CarryOf(x, scale) THEN 0 ELSE Rounded(x, scale)
  <2>1. m \in Nat
    BY <1>4
  <2> HIDE DEF m
  <2>2. Digits(m, 10, Decimals) \in Seq(Digit)
    BY <2>1, PartTypes
  <2>3. QED
    BY <2>2 DEF FracOf, m
<1>7. Digits(WholeOf(x, scale), 10, Decimals) \in Seq(Digit)
  BY <1>5, PartTypes
<1>8. QED
  BY <1>6, <1>7, Zenon DEF scale, AreFloatParts

\* A float is printed with or without a precision.
LEMMA FloatShapes ==
  ASSUME NEW it, FloatFits(it), it.fmt \in Seq(Char)
  PROVE  LET p == PrecisionOf(ConvOf(it.fmt))
         IN /\ it.args[1] \in Int /\ Number(WidthOf(it.fmt)) \in Nat
            /\ IsWhole(it) \/ IsPointed(it, p, Number(p))
            /\ Number(p) \in Nat /\ (p = <<>> => Number(p) = 0) /\ p \in Seq(Digit)
<1> DEFINE v == ConvOf(it.fmt)
           p == PrecisionOf(v)
           n == Number(p)
           x == it.args[1]
           scale == Scale[n]
           z == ZeroOf(it.fmt)
           w == Number(WidthOf(it.fmt))
           up == Rounded(x, scale) = scale
           more == IF n > 0 /\ up THEN 1 ELSE 0
<1>1. v # <<>> /\ it.fmt # <<>>
  BY Zenon DEF FloatFits, IsOne
<1>2. /\ x \in Int
      /\ \/ v = <<"f">> /\ it.printed = Sign(x) \o Padded(Digits(Abs(x) \div 1000 + more, 10, Decimals), z, w)
         \/ IsPointed(it, p, n)
  <2> DEFINE fill == FillOf(it.fmt, x, scale)
             frac == Digits(IF up THEN 0 ELSE Rounded(x, scale), 10, Decimals)
             whole == Digits(Abs(x) \div 1000 + IF n > 0 /\ up THEN 1 ELSE 0, 10, Decimals)
  <2>1. /\ x \in Int
        /\ \/ /\ v = <<"f">>
              /\ it.text = InWidth(x, whole, z, w)
              /\ it.printed = Sign(x) \o Padded(whole, z, w)
           \/ /\ v = <<".">> \o PrecisionOf(v) \o <<"f">> /\ n > 0
              /\ it.text = InWidth(x, whole, z, w) \o <<".">> \o Padded(frac, "0", n)
              /\ it.printed = Sign(x) \o Padded(Digits(WholeOf(x, scale), 10, Decimals), fill, w)
                              \o <<".">> \o Padded(FracOf(x, scale), fill, n)
    BY Zenon DEF FloatFits
  <2>2. CASE v = <<"f">> /\ it.printed = Sign(x) \o Padded(whole, z, w)
    BY <2>1, <2>2, Zenon
  <2>3. CASE /\ v = <<".">> \o PrecisionOf(v) \o <<"f">> /\ n > 0
             /\ it.printed = Sign(x) \o Padded(Digits(WholeOf(x, scale), 10, Decimals), fill, w)
                             \o <<".">> \o Padded(FracOf(x, scale), fill, n)
    <3>1. IsPointed(it, p, n)
      BY <2>3, Zenon DEF IsPointed
    <3>2. QED
      BY <2>1, <3>1, Zenon
  <2>4. \/ v = <<"f">> /\ it.printed = Sign(x) \o Padded(whole, z, w)
        \/ /\ v = <<".">> \o PrecisionOf(v) \o <<"f">> /\ n > 0
           /\ it.printed = Sign(x) \o Padded(Digits(WholeOf(x, scale), 10, Decimals), fill, w)
                           \o <<".">> \o Padded(FracOf(x, scale), fill, n)
    <3> HIDE DEF whole, frac, fill, scale, n, x, z, w, v
    <3>1. QED
      BY <2>1
  <2>5. QED
    BY <2>2, <2>3, <2>4, Zenon
<1>0. x \in Int
  BY <1>2
<1>3. p \in Seq(Digit) /\ WidthOf(it.fmt) \in Seq(Digit)
  <2>1. v \in Seq(Char) /\ WidthOf(it.fmt) \in Seq(Digit)
    BY <1>1, ConvFacts
  <2> HIDE DEF v
  <2>2. CASE v[1] = "."
    <3>1. Tail(v) \in Seq(Char) /\ p = LeadingDigits(Tail(v))
      BY <1>1, <2>1, <2>2 DEF PrecisionOf, v
    <3>2. QED
      BY <2>1, <3>1, LeadingFacts
  <2>3. CASE v[1] # "."
    BY <2>1, <2>3 DEF PrecisionOf
  <2>4. QED
    BY <2>2, <2>3
<1>4. n \in Nat /\ (p = <<>> => n = 0) /\ w \in Nat
  BY <1>3, NumberType
<1>5. CASE v = <<"f">> /\ it.printed = Sign(x) \o Padded(Digits(Abs(x) \div 1000 + more, 10, Decimals), z, w)
  <2>1. p = <<>>
    <3>1. v[1] = "f"
      BY <1>5
    <3>2. QED
      BY <3>1 DEF PrecisionOf
  <2>2. more = 0
    <3>1. n = 0
      BY <1>4, <2>1
    <3> HIDE DEF n, up
    <3>2. QED
      BY <3>1
  <2>3. Abs(x) \div 1000 + 0 = Abs(x) \div 1000
    <3> HIDE DEF x
    <3>1. Abs(x) \in Nat
      BY <1>0, PartTypes
    <3>2. QED
      BY <3>1
  <2> HIDE DEF more, n, p, x
  <2>4. it.printed = Sign(x) \o Padded(Digits(Abs(x) \div 1000, 10, Decimals), z, w)
    BY <1>5, <2>2, <2>3
  <2>5. IsWhole(it)
    BY <1>5, <2>4, Zenon DEF IsWhole, x
  <2>6. QED
    BY <1>0, <1>3, <1>4, <2>5, Zenon DEF n, p, x
<1>6. CASE IsPointed(it, p, n)
  BY <1>0, <1>3, <1>4, <1>6, Zenon
<1>7. QED
  BY <1>2, <1>5, <1>6, Zenon

IsParsed(f, v, F) ==
  v \in Seq(Char) /\ ConvOf(f) = v \o F /\ ConvOf(f)[1] = v[1] /\ Tail(ConvOf(f)) = Tail(v) \o F

\* At a directive the code parses what the item holds.
LEMMA HeadParsed ==
  ASSUME NEW c \in AllCalls, NEW b, NEW f, NEW a, NEW k, NEW cur, NEW done,
         UnderWay(c, b, f, a, k, cur, done), ConvOf(cur.fmt) # <<>>
  PROVE  IsParsed(f, ConvOf(cur.fmt), FmtAt(c, k + 1))
<1> DEFINE v == ConvOf(cur.fmt)
           F == FmtAt(c, k + 1)
<1>1. v \in Seq(Char) /\ ConvOf(f) = v \o F
  BY HeadParse
<1>2. ConvOf(f)[1] = v[1] /\ Tail(ConvOf(f)) = Tail(v) \o F
  BY HeadParse
<1> HIDE DEF v, F
<1>3. IsParsed(f, v, F)
  BY <1>1, <1>2 DEF IsParsed
<1>4. QED
  BY <1>3 DEF v, F

WhatFollows(v) == IF v[1] = "." THEN After(v, Len(PrecisionOf(v)) + 2) ELSE Tail(v)

\* %f is parsed as a float without a precision.
LEMMA WholeParse ==
  ASSUME NEW c \in AllCalls, NEW b, NEW f, NEW a, NEW k, NEW cur, NEW done,
         UnderWay(c, b, f, a, k, cur, done), ConvOf(cur.fmt) = <<"f">>
  PROVE  ConvOf(f)[1] = "f" /\ PrecisionOf(ConvOf(f)) = <<>> /\ WhatFollows(ConvOf(f)) = FmtAt(c, k + 1)
<1> DEFINE s == cur.fmt
           v == ConvOf(s)
           F == FmtAt(c, k + 1)
<1>1. s \in Seq(Char) /\ s # <<>> /\ F \in Seq(Char)
  BY DEF UnderWay
<1>3. v[1] = "f" /\ Len(v) = 1 /\ v # <<>>
  OBVIOUS
<1>4. v \in Seq(Char) /\ ConvOf(f)[1] = v[1] /\ Tail(ConvOf(f)) = Tail(v) \o F
  <2>1. IsParsed(f, v, F)
    BY <1>3, HeadParsed
  <2>2. QED
    BY <2>1, Zenon DEF IsParsed
<1> HIDE DEF v, F
<1>5. Tail(v) \o F = F
  BY <1>1, <1>3, <1>4, OnlyHead
<1>6. PrecisionOf(ConvOf(f)) = <<>> /\ WhatFollows(ConvOf(f)) = Tail(ConvOf(f))
  BY <1>3, <1>4 DEF PrecisionOf, WhatFollows
<1>7. QED
  BY <1>3, <1>4, <1>5, <1>6 DEF F

\* What stands behind the width in an item that is %.nf, and how it is read.
HasPrecision(v, p) == p \in Seq(Digit) /\ p # <<>> /\ v = <<".">> \o p \o <<"f">>

IsBehind(f, p, F) ==
  ConvOf(f)[1] = "." /\ PrecisionOf(ConvOf(f)) = p /\ WhatFollows(ConvOf(f)) = F

\* %.nf is parsed as a float with the precision of its item.
LEMMA PointedParse ==
  ASSUME NEW c \in AllCalls, NEW b, NEW f, NEW a, NEW k, NEW cur, NEW done,
         UnderWay(c, b, f, a, k, cur, done), ConvOf(cur.fmt) # <<>>,
         HasPrecision(ConvOf(cur.fmt), PrecisionOf(ConvOf(cur.fmt)))
  PROVE  IsBehind(f, PrecisionOf(ConvOf(cur.fmt)), FmtAt(c, k + 1))
<1> DEFINE s == cur.fmt
           v == ConvOf(s)
           F == FmtAt(c, k + 1)
           r == Tail(v)
           p == PrecisionOf(v)
<1>0. p \in Seq(Digit) /\ p # <<>> /\ v = <<".">> \o p \o <<"f">> /\ p = PrecisionOf(v)
  BY Zenon DEF HasPrecision
<1> HIDE DEF p
<1>1. s \in Seq(Char) /\ s # <<>> /\ F \in Seq(Char)
  BY DEF UnderWay
<1>4. Len(v) = Len(p) + 2 /\ Len(p) \in Nat
  <2>1. p \in Seq(Char)
    BY <1>0, DigitFacts, SeqOfLarger
  <2> DEFINE q == <<".">>
             e == <<"f">>
  <2>2. q \in Seq(Char) /\ e \in Seq(Char) /\ Len(q) = 1 /\ Len(e) = 1 /\ v = (q \o p) \o e
    <3>1. "." \in Char /\ "f" \in Char
      BY DEF Char
    <3>2. QED
      BY <1>0, <3>1
  <2>3. \A u, w \in Seq(Char) : u \o w \in Seq(Char) /\ Len(u \o w) = Len(u) + Len(w)
    OBVIOUS
  <2> HIDE DEF q, e, v
  <2>4. Len(q \o p) = 1 + Len(p) /\ q \o p \in Seq(Char)
    BY <2>1, <2>2, <2>3
  <2>5. Len(v) = (1 + Len(p)) + 1
    BY <2>2, <2>3, <2>4
  <2>6. Len(p) \in Nat
    BY <2>1
  <2>7. QED
    BY <2>5, <2>6
<1> HIDE DEF s
<1>13. p = PrecisionOf(v) /\ p # <<>>
  BY <1>0
<1>5. v[1] = "." /\ p = LeadingDigits(r)
  <2> HIDE DEF v
  <2>1. QED
    BY <1>13 DEF PrecisionOf
<1>6. v \in Seq(Char) /\ ConvOf(f) = v \o F /\ ConvOf(f)[1] = v[1] /\ Tail(ConvOf(f)) = r \o F
  <2>1. IsParsed(f, v, F)
    BY HeadParsed DEF s
  <2>2. QED
    BY <2>1, Zenon DEF IsParsed
<1> HIDE DEF v
<1>7. r \in Seq(Char) /\ Len(r) = Len(p) + 1
  <2>1. v # <<>>
    BY <1>4
  <2>2. r \in Seq(Char) /\ Len(r) = Len(v) - 1
    BY <1>6, <2>1
  <2>3. QED
    BY <1>4, <2>2
<1> HIDE DEF r, F
<1>8. LeadingDigits(r \o F) = p
  <2>1. Len(LeadingDigits(r)) < Len(r)
    BY <1>4, <1>5, <1>7
  <2>2. QED
    BY <1>1, <1>5, <1>7, <2>1, LeadingConcat
<1>9. PrecisionOf(ConvOf(f)) = p
  BY <1>5, <1>6, <1>8 DEF PrecisionOf
<1>10. After(ConvOf(f), Len(p) + 2) = F
  <2> DEFINE m == Len(v)
  <2>1. m \in 0 .. Len(v) /\ m = Len(p) + 2
    BY <1>4, <1>6
  <2>2. After(v, m) = <<>>
    BY <1>6, AfterAll
  <2> HIDE DEF m
  <2>3. After(v \o F, m) = After(v, m) \o F
    BY <1>1, <1>6, <2>1, AfterConcat
  <2>4. <<>> \o F = F
    BY <1>1
  <2>5. QED
    BY <1>6, <2>1, <2>2, <2>3, <2>4
<1>11. WhatFollows(ConvOf(f)) = F
  BY <1>5, <1>6, <1>9, <1>10 DEF WhatFollows
<1>12. QED
  BY <1>5, <1>6, <1>9, <1>11 DEF F, IsBehind, p, v, s

NoDot == {ch \in Char : ch # "."}

\* Signs and digits hold no point.
LEMMA NoDotTypes ==
  /\ NoDot \subseteq Char /\ Seq(Digit) \subseteq Seq(NoDot) /\ Seq(NoDot) \subseteq Seq(Char) /\ "0" \in NoDot
  /\ \A n \in Int : Sign(n) \in Seq(NoDot)
  /\ \A f : ZeroOf(f) \in NoDot
<1>1. NoDot \subseteq Char /\ Digit \subseteq NoDot
  BY DigitFacts DEF NoDot
<1>2. Seq(Digit) \subseteq Seq(NoDot) /\ Seq(NoDot) \subseteq Seq(Char)
  BY <1>1, SeqOfLarger
<1>3. "0" \in NoDot
  <2>1. Decimals[1] = "0" /\ 1 \in 1 .. 10
    BY DEF Decimals
  <2>2. QED
    BY <1>1, <2>1, DigitFacts
<1>4. ASSUME NEW n \in Int PROVE Sign(n) \in Seq(NoDot)
  <2>1. "-" \in NoDot
    BY DEF NoDot, Char
  <2> HIDE DEF NoDot
  <2>2. <<"-">> \in Seq(NoDot) /\ <<>> \in Seq(NoDot)
    BY <2>1
  <2>3. QED
    BY <2>2 DEF Sign
<1>5. ASSUME NEW f PROVE ZeroOf(f) \in NoDot
  <2>1. " " \in NoDot
    BY DEF NoDot, Char
  <2>2. QED
    BY <1>3, <2>1, Zenon DEF ZeroOf
<1>6. QED
  BY <1>1, <1>2, <1>3, <1>4, <1>5

\* Between texts without a point stands one point.
LEMMA OnePoint ==
  ASSUME NEW h \in Seq(NoDot), NEW r \in Seq(NoDot)
  PROVE  LET t == (h \o <<".">>) \o r
         IN /\ Len(h) + 1 \in DOMAIN t /\ t[Len(h) + 1] = "."
            /\ \A m \in DOMAIN t : t[m] = "." => m = Len(h) + 1
            /\ t \in Seq(Char) /\ Len(t) = Len(h) + 1 + Len(r)
<1>1. h \in Seq(Char) /\ r \in Seq(Char)
  BY NoDotTypes
<1>2. (\A i \in 1 .. Len(h) : h[i] # ".") /\ (\A i \in 1 .. Len(r) : r[i] # ".")
  <2>1. \A ch \in NoDot : ch # "."
    BY DEF NoDot
  <2> HIDE DEF NoDot
  <2>2. (\A i \in 1 .. Len(h) : h[i] \in NoDot) /\ (\A i \in 1 .. Len(r) : r[i] \in NoDot)
    OBVIOUS
  <2>3. QED
    BY <2>1, <2>2
<1> DEFINE q == h \o <<".">>
           t == q \o r
<1>3. "." \in Char /\ Len(h) \in Nat /\ Len(r) \in Nat
  <2>1. "." \in Char
    BY DEF Char
  <2>2. QED
    BY <1>1, <2>1
<1>4. <<".">> \in Seq(Char) /\ Len(<<".">>) = 1 /\ <<".">>[1] = "."
  BY <1>3
<1>5. /\ q \in Seq(Char) /\ Len(q) = Len(h) + 1 /\ q[Len(h) + 1] = "."
      /\ \A i \in 1 .. Len(h) : q[i] = h[i]
  BY <1>1, <1>3, <1>4
<1> HIDE DEF q
<1>6. /\ t \in Seq(Char) /\ Len(t) = Len(q) + Len(r) /\ DOMAIN t = 1 .. Len(t)
      /\ \A i \in 1 .. Len(t) : t[i] = IF i <= Len(q) THEN q[i] ELSE r[i - Len(q)]
  <2>1. \A u, w \in Seq(Char) :
          /\ u \o w \in Seq(Char) /\ Len(u \o w) = Len(u) + Len(w) /\ DOMAIN (u \o w) = 1 .. Len(u \o w)
          /\ \A i \in 1 .. Len(u \o w) : (u \o w)[i] = IF i <= Len(u) THEN u[i] ELSE w[i - Len(u)]
    OBVIOUS
  <2>2. QED
    BY <1>1, <1>5, <2>1
<1> HIDE DEF t
<1>7. Len(h) + 1 \in DOMAIN t /\ t[Len(h) + 1] = "."
  BY <1>3, <1>5, <1>6
<1>8. ASSUME NEW m \in DOMAIN t, t[m] = "." PROVE m = Len(h) + 1
  <2>1. m \in 1 .. Len(h) + 1 + Len(r)
    BY <1>3, <1>5, <1>6
  <2>2. CASE m <= Len(h)
    <3>1. m \in 1 .. Len(h) /\ t[m] = h[m]
      BY <1>3, <1>5, <1>6, <2>1, <2>2
    <3>2. QED
      BY <1>2, <1>8, <3>1
  <2>3. CASE m > Len(h) + 1
    <3>1. m - Len(q) \in 1 .. Len(r) /\ t[m] = r[m - Len(q)]
      BY <1>3, <1>5, <1>6, <2>1, <2>3
    <3>2. QED
      BY <1>2, <1>8, <3>1
  <2>4. QED
    BY <1>3, <2>1, <2>2, <2>3
<1>9. Len(t) = Len(h) + 1 + Len(r)
  BY <1>3, <1>5, <1>6
<1>10. QED
  BY <1>6, <1>7, <1>8, <1>9 DEF t, q

\* %f prints the text of its item, cut to the buffer.
LEMMA WholeFloatKeeps ==
  ASSUME NEW c \in AllCalls, NEW b, NEW f, NEW a, NEW k, NEW cur, NEW done,
         UnderWay(c, b, f, a, k, cur, done), FloatFits(cur), IsWhole(cur)
  PROVE  /\ ConvOf(f)[1] = "f" /\ PrecisionOf(ConvOf(f)) = <<>>
         /\ Place(c, Num(b \o Sign(a[1]), Digits(Abs(a[1]) \div 1000, 10, Decimals), ZeroOf(f), Number(WidthOf(f))),
                  WhatFollows(ConvOf(f)), Tail(a))
<1> DEFINE s == cur.fmt
           x == cur.args[1]
           digits == Digits(Abs(x) \div 1000, 10, Decimals)
           z == ZeroOf(s)
           w == Number(WidthOf(s))
<1>1. cur.args # <<>> /\ cur.args = <<cur.args[1]>> /\ ConvOf(s) # <<>>
  BY FitsOne
<1>2. s \in Seq(Char) /\ cur.printed \in Seq(Char) /\ done \in Seq(Char) /\ b = done
  BY DEF UnderWay
<1>3. x \in Int /\ w \in Nat
  BY <1>2, FloatShapes
<1>4. ConvOf(s) = <<"f">> /\ cur.printed = Sign(x) \o Padded(digits, z, w)
  BY DEF IsWhole
<1>5. ConvOf(f)[1] = "f" /\ PrecisionOf(ConvOf(f)) = <<>> /\ WhatFollows(ConvOf(f)) = FmtAt(c, k + 1)
  BY <1>4, WholeParse
<1>6. WidthOf(f) = WidthOf(s) /\ ZeroOf(f) = z
  BY <1>1, HeadParse
<1>8. Sign(x) \in Seq(NoDot) /\ digits \in Seq(NoDot) /\ digits \in Seq(Char) /\ Sign(x) \in Seq(Char) /\ z \in NoDot /\ z \in Char
  <2>1. Abs(x) \in Nat
    BY <1>3, PartTypes
  <2>2. Abs(x) \div 1000 \in Nat
    BY <2>1
  <2>3. digits \in Seq(Digit) /\ z \in Char
    <3> DEFINE m == Abs(x) \div 1000
    <3>1. m \in Nat
      BY <2>2
    <3> HIDE DEF m
    <3>2. Digits(m, 10, Decimals) \in Seq(Digit)
      BY <3>1, PartTypes
    <3>3. QED
      BY <3>2, PartTypes DEF m
  <2>4. Sign(x) \in Seq(NoDot) /\ z \in NoDot
    BY <1>3, NoDotTypes
  <2>5. QED
    BY <2>3, <2>4, NoDotTypes
<1> HIDE DEF digits, x, z, w, s
<1>10. Place(c, Upto(done \o cur.printed, MaxLogStr), FmtAt(c, k + 1), Tail(a)) /\ a[1] = cur.args[1]
  BY <1>1, <1>2, Takes
<1>11. Num(done \o Sign(x), digits, z, w) = Upto(done \o cur.printed, MaxLogStr)
  BY <1>2, <1>3, <1>4, <1>8, NumberPut
<1>12. Place(c, Num(b \o Sign(x), digits, z, w), WhatFollows(ConvOf(f)), Tail(a))
  BY <1>2, <1>5, <1>10, <1>11
<1>13. QED
  BY <1>5, <1>6, <1>10, <1>12 DEF digits, x, w

\* Of four parts the first is put, or is there before.
Joins(S, d, h, q, w) ==
  /\ d \o ((h \o q) \o w) = ((d \o h) \o q) \o w
  /\ (h \o q) \o w \in Seq(S) /\ Len((h \o q) \o w) = Len(h) + Len(q) + Len(w)

\* How a text of four parts may be taken apart.
LEMMA FourParts ==
  ASSUME NEW S, NEW d \in Seq(S), NEW h \in Seq(S), NEW q \in Seq(S), NEW w \in Seq(S)
  PROVE  Joins(S, d, h, q, w)
<1>1. h \o q \in Seq(S) /\ Len(h \o q) = Len(h) + Len(q)
  OBVIOUS
<1> DEFINE e == h \o q
<1>2. e \in Seq(S)
  BY <1>1
<1>0. /\ IsAssociative(Seq(S))
      /\ d \in Seq(S) /\ h \in Seq(S) /\ q \in Seq(S) /\ w \in Seq(S)
  BY AssocAll
<1>3. d \o (h \o q) = (d \o h) \o q
  BY <1>0, Zenon DEF IsAssociative
<1> HIDE DEF e
<1>4. (d \o e) \o w = d \o (e \o w)
  BY <1>0, <1>2, Zenon DEF IsAssociative
<1>5. e \o w \in Seq(S)
  BY <1>2
<1>6. Len(e \o w) = Len(e) + Len(w)
  BY <1>2
<1>7. d \o (e \o w) = ((d \o h) \o q) \o w
  BY <1>3, <1>4 DEF e
<1>8. Len(e) = Len(h) + Len(q)
  BY <1>1 DEF e
<1>9. QED
  BY <1>5, <1>6, <1>7, <1>8, Zenon DEF e, Joins

\* A float as far as its point.
PointOf(b, f, x, scale) ==
  Append(Num(b \o Sign(x), Digits(WholeOf(x, scale), 10, Decimals), FillOf(f, x, scale), Number(WidthOf(f))), ".")

\* %.nf prints the text of its item, cut to the buffer, unless its point is due behind.
LEMMA PointedKeeps ==
  ASSUME NEW c \in AllCalls, NEW b, NEW f, NEW a, NEW k, NEW cur, NEW done,
         UnderWay(c, b, f, a, k, cur, done), FloatFits(cur),
         NEW n \in Nat, IsPointed(cur, PrecisionOf(ConvOf(cur.fmt)), n),
         n = Number(PrecisionOf(ConvOf(cur.fmt)))
  PROVE  LET scale == Scale[n]
             point == PointOf(b, f, a[1], scale)
         IN /\ ConvOf(f)[1] = "." /\ Number(PrecisionOf(ConvOf(f))) = n /\ n > 0 /\ Len(point) \in Nat
            /\ Len(point) > MaxLogStr => PointDue(c, k)
            /\ Len(point) <= MaxLogStr =>
                 Place(c, Num(point, FracOf(a[1], scale), FillOf(f, a[1], scale), n), WhatFollows(ConvOf(f)), Tail(a))
<1> DEFINE s == cur.fmt
           p == PrecisionOf(ConvOf(s))
           x == cur.args[1]
           scale == Scale[n]
           W == Digits(WholeOf(x, scale), 10, Decimals)
           R == FracOf(x, scale)
           fill == FillOf(s, x, scale)
           w == Number(WidthOf(s))
           h == Sign(x) \o Padded(W, fill, w)
           r == Padded(R, fill, n)
           t == (h \o <<".">>) \o r
<1>1. cur.args # <<>> /\ cur.args = <<cur.args[1]>> /\ ConvOf(s) # <<>>
  BY FitsOne
<1>2. /\ s \in Seq(Char) /\ cur.printed \in Seq(Char) /\ done \in Seq(Char) /\ b = done
      /\ Len(done) < MaxLogStr /\ MaxLogStr \in Nat /\ k \in 1 .. Count(c)
  BY DEF UnderWay
<1>3. x \in Int /\ w \in Nat /\ p \in Seq(Digit) /\ (p = <<>> => Number(p) = 0)
  BY <1>2, FloatShapes
<1>4. ConvOf(s) = <<".">> \o p \o <<"f">> /\ n > 0 /\ cur.printed = (h \o <<".">>) \o r
  BY Zenon DEF IsPointed
<1>5. p # <<>>
  BY <1>3, <1>4
<1>6. ConvOf(f)[1] = "." /\ PrecisionOf(ConvOf(f)) = p /\ WhatFollows(ConvOf(f)) = FmtAt(c, k + 1)
  <2>1. HasPrecision(ConvOf(s), p)
    BY <1>3, <1>4, <1>5 DEF HasPrecision
  <2>2. IsBehind(f, p, FmtAt(c, k + 1))
    BY <1>1, <2>1, PointedParse
  <2>3. QED
    BY <2>2 DEF IsBehind
<1>7. Number(WidthOf(f)) = w /\ FillOf(f, x, scale) = fill
  <2>1. WidthOf(f) = WidthOf(s) /\ ZeroOf(f) = ZeroOf(s)
    BY <1>1, HeadParse
  <2>2. QED
    BY <2>1, Zenon DEF FillOf
<1>8. /\ Sign(x) \in Seq(NoDot) /\ W \in Seq(NoDot) /\ R \in Seq(NoDot) /\ Sign(x) \in Seq(Char)
      /\ W \in Seq(Char) /\ R \in Seq(Char)
  <2>1. W \in Seq(Digit) /\ R \in Seq(Digit)
    <3>1. AreFloatParts(x, scale)
      BY <1>3, FloatParts
    <3>2. QED
      BY <3>1 DEF AreFloatParts
  <2>2. Sign(x) \in Seq(NoDot)
    BY <1>3, NoDotTypes
  <2>3. QED
    BY <2>1, <2>2, NoDotTypes
<1>9. fill \in NoDot /\ fill \in Char
  <2>1. "0" \in NoDot /\ ZeroOf(s) \in NoDot /\ NoDot \subseteq Char
    BY NoDotTypes
  <2>2. fill \in NoDot
    BY <2>1, Zenon DEF FillOf
  <2>3. QED
    BY <2>1, <2>2, Zenon
<1> HIDE DEF W, R, fill, x, scale, p, w
<1>10. h \in Seq(NoDot) /\ r \in Seq(NoDot) /\ h \in Seq(Char) /\ r \in Seq(Char)
  <2>1. \A u, v \in Seq(NoDot) : u \o v \in Seq(NoDot)
    OBVIOUS
  <2>2. Padded(W, fill, w) \in Seq(NoDot) /\ r \in Seq(NoDot)
    BY <1>3, <1>8, <1>9, PaddedType
  <2>3. h \in Seq(NoDot)
    BY <1>8, <2>1, <2>2
  <2>4. QED
    BY <2>2, <2>3, NoDotTypes
<1>23. h \in Seq(Char) /\ r \in Seq(Char)
  BY <1>10, Zenon
<1>13. Num(done \o Sign(x), W, fill, w) = Upto(done \o h, MaxLogStr)
  BY <1>2, <1>3, <1>8, <1>9, NumberPut
<1> HIDE DEF r, h
<1> DEFINE B == done \o h
           u == Upto(B, MaxLogStr)
           point == Append(u, ".")
<1>14. /\ B \in Seq(Char) /\ Len(B) = Len(done) + Len(h) /\ Len(done) \in Nat /\ Len(h) \in Nat
       /\ u \in Seq(Char) /\ Len(u) = (IF Len(B) > MaxLogStr THEN MaxLogStr ELSE Len(B))
       /\ (Len(B) <= MaxLogStr => u = B)
  <2>1. B \in Seq(Char) /\ Len(B) = Len(done) + Len(h) /\ Len(done) \in Nat /\ Len(h) \in Nat
    BY <1>2, <1>10
  <2> HIDE DEF B
  <2>2. QED
    BY <1>2, <2>1, UptoFacts
<1> HIDE DEF B, u
<1>15. Len(point) = Len(u) + 1 /\ Len(u) \in Nat /\ Len(point) \in Nat
  BY <1>14
<1> HIDE DEF point
<1>16. Len(done) = Len(PrintedAt(c, k)) /\ cur = Items(c)[k]
  BY <1>1 DEF UnderWay, PlaceOf
<1>17. /\ Len(h) + 1 \in DOMAIN cur.printed /\ cur.printed[Len(h) + 1] = "."
       /\ \A m \in DOMAIN cur.printed : cur.printed[m] = "." => m = Len(h) + 1
       /\ Len(cur.printed) = Len(h) + 1 + Len(r)
  BY <1>4, <1>10, OnePoint
<1>18. ASSUME Len(point) > MaxLogStr PROVE PointDue(c, k)
  <2>1. Len(PrintedAt(c, k)) < MaxLogStr /\ Len(PrintedAt(c, k)) + (Len(h) + 1) > MaxLogStr
    BY <1>2, <1>14, <1>15, <1>16, <1>18
  <2>2. QED
    BY <1>16, <1>17, <2>1, Zenon DEF PointDue
<1>19. ASSUME Len(point) <= MaxLogStr
       PROVE  Place(c, Num(point, R, fill, n), FmtAt(c, k + 1), Tail(a))
  <2>1. Len(B) < MaxLogStr /\ u = B
    BY <1>2, <1>14, <1>15, <1>19
  <2>3. "." \in Char
    BY DEF Char
  <2>4. <<".">> \in Seq(Char) /\ Len(<<".">>) = 1
    BY <2>3
  <2> DEFINE q == <<".">>
  <2>5. point = B \o q
    BY <1>14, <2>1, <2>3 DEF point
  <2>6. q \in Seq(Char) /\ Len(q) = 1
    BY <2>4
  <2>7. t = (h \o q) \o r
    OBVIOUS
  <2> HIDE DEF q, t
  <2>8. done \o ((h \o q) \o r) = ((done \o h) \o q) \o r /\ (h \o q) \o r \in Seq(Char)
    <3>1. Joins(Char, done, h, q, r)
      BY <1>2, <1>23, <2>6, FourParts
    <3>2. QED
      BY <3>1, Zenon DEF Joins
  <2>10. t \in Seq(Char)
    BY <2>7, <2>8
  <2>11. done \o t = point \o r
    BY <2>5, <2>7, <2>8 DEF B
  <2>12. t = cur.printed
    BY <1>4 DEF t
  <2>13. Place(c, Upto(done \o t, MaxLogStr), FmtAt(c, k + 1), Tail(a))
    BY <1>1, <1>2, <2>10, <2>12, Takes
  <2>14. Num(point, R, fill, n) = Upto(done \o t, MaxLogStr)
    BY <2>11 DEF Num, r
  <2>15. QED
    BY <2>13, <2>14
<1>20. a[1] = x
  <2>1. a = cur.args \o ArgsAt(c, k + 1) /\ ArgsAt(c, k + 1) \in Seq(Args(c))
    BY DEF UnderWay
  <2>2. x \in Args(c)
    <3>1. k \in DOMAIN Items(c)
      BY <1>2, Tables
    <3>2. QED
      BY <1>16, <3>1 DEF Args, ArgsOf, x
  <2> DEFINE S == Args(c)
             A == ArgsAt(c, k + 1)
  <2>3. x \in S /\ A \in Seq(S) /\ a = <<x>> \o A
    BY <1>1, <2>1, <2>2 DEF x
  <2> HIDE DEF S, A
  <2>4. QED
    BY <2>3
<1>21. point = PointOf(b, f, x, scale)
  BY <1>2, <1>7, <1>13 DEF PointOf, point, u, B, W
<1>22. QED
  BY <1>4, <1>6, <1>7, <1>15, <1>18, <1>19, <1>20, <1>21, Zenon DEF R, scale, p

\* Which directive it is tells which item it is.
LEMMA DirectiveHead ==
  ASSUME NEW c \in AllCalls, NEW b, NEW f, NEW a, NEW k, NEW cur, NEW done,
         UnderWay(c, b, f, a, k, cur, done), f[1] = "%", ~(Len(f) > 1 /\ f[2] = "%"),
         ConvOf(f) # <<>>, ConvOf(f)[1] \in Letters
  PROVE  /\ ConvOf(f)[1] \in {"d", "x", "X", "u", "P"} => NumberFits(cur)
         /\ ConvOf(f)[1] = "s" => TextFits(cur)
         /\ ConvOf(f)[1] \in {".", "f"} => FloatFits(cur)
<1>1. NumberFits(cur) \/ TextFits(cur) \/ FloatFits(cur)
  <2>1. ~PercentFits(cur, k = Count(c))
    BY PercentHead, Zenon
  <2>2. ~UnknownFits(cur, k = Count(c))
    BY UnknownHead DEF IsUnknown
  <2>3. QED
    BY <2>1, <2>2, HeadFits, Zenon
<1>2. ConvOf(f)[1] = ConvOf(cur.fmt)[1]
  BY <1>1, OneHead
<1>3. /\ NumberFits(cur) => ConvOf(f)[1] \in {"d", "x", "X", "u", "P"}
      /\ TextFits(cur) => ConvOf(f)[1] = "s"
      /\ FloatFits(cur) => ConvOf(f)[1] \in {".", "f"}
  BY <1>1, <1>2, FitsOne
<1>4. QED
  BY <1>1, <1>3

\* Wherever a call is, its buffer is not overrun.
LEMMA PlaceBuffer ==
  ASSUME NEW c \in AllCalls, NEW b, NEW f, NEW a, Place(c, b, f, a)
  PROVE  b \in Seq(Char) /\ Len(b) <= MaxLogStr
<1>1. PICK k, cur, done : PlaceOf(c, b, f, a, k, cur, done)
  BY DEF Place
<1>2. done \in Seq(Char) /\ b = Upto(done, MaxLogStr) /\ MaxLogStr \in Nat
  BY <1>1, LogAssumption DEF PlaceOf
<1>3. Upto(done, MaxLogStr) \in Seq(Char) /\ Len(Upto(done, MaxLogStr)) = (IF Len(done) > MaxLogStr THEN MaxLogStr ELSE Len(done))
  BY <1>2, UptoFacts
<1>4. Len(done) \in Nat
  BY <1>2
<1>5. QED
  BY <1>2, <1>3, <1>4

\* A point that is due behind makes its call one of those that crash.
LEMMA PointBehindDue ==
  ASSUME NEW c \in AllCalls, NEW i \in 1 .. Count(c), PointDue(c, i)
  PROVE  PointBehind(c)
<1>1. DOMAIN Items(c) = 1 .. Count(c)
  BY Tables
<1>2. QED
  BY <1>1, Zenon DEF PointBehind, PointDue, PrintedAt

-----------------------------------------------------------------------------
(* What the end of a call writes. *)

\* The text of errno is a text; the buffer holds the greeting.
LEMMA ErrTextType == ErrText \in Seq(Char) /\ Len(ErrText) \in Nat /\ MaxLogStr \in Nat /\ 7 <= MaxLogStr
<1>1. STRING \subseteq Char
  BY Zenon DEF Char
<1>2. Seq(STRING) \subseteq Seq(Char)
  BY <1>1, SeqOfLarger
<1>3. ErrText \in Seq(Char)
  BY <1>2, LogAssumption
<1>4. QED
  BY <1>3, LogAssumption

PrintedOf(c) == PrintedAt(c, Count(c) + 1)

\* The text of a line, and its end.
LEMMA LineType ==
  ASSUME NEW s \in Seq(Char)
  PROVE  /\ Line(s) \in Seq(Char) /\ Len(Line(s)) <= MaxLogStr
         /\ Line(s) = Upto(s, MaxLogStr - 1) \o <<"\n">>
         /\ \A e : WithErrno(s, e) \in Seq(Char)
<1> DEFINE m == MaxLogStr - 1
           u == Upto(s, m)
<1>1. m \in Nat /\ m + 1 = MaxLogStr /\ ErrText \in Seq(Char)
  BY ErrTextType
<1> HIDE DEF m
<1>2. u \in Seq(Char) /\ Len(u) = (IF Len(s) > m THEN m ELSE Len(s)) /\ Len(s) \in Nat
  BY <1>1, UptoFacts
<1> HIDE DEF u
<1>3. "\n" \in Char
  BY Zenon DEF Char
<1>4. Append(u, "\n") \in Seq(Char) /\ Len(Append(u, "\n")) = Len(u) + 1 /\ Append(u, "\n") = u \o <<"\n">>
  BY <1>2, <1>3
<1>5. Line(s) = Append(u, "\n")
  BY DEF Line, u, m
<1>6. Line(s) \in Seq(Char) /\ Len(Line(s)) <= MaxLogStr
  BY <1>1, <1>2, <1>4, <1>5
<1>7. ASSUME NEW e PROVE WithErrno(s, e) \in Seq(Char)
  <2>1. s \o ErrText \in Seq(Char)
    BY <1>1
  <2>2. QED
    BY <2>1, Zenon DEF WithErrno
<1>8. QED
  BY <1>4, <1>5, <1>6, <1>7 DEF u, m

\* The line that a call writes.
LineOf(c) == Line(IF c.fn = "stderr" THEN WithErrno(PrintedOf(c), c.err) ELSE PrintedOf(c))

\* It is cut from all that is printed for the call.
LEMMA LineOfIs ==
  ASSUME NEW c \in AllCalls
  PROVE  /\ PrintedOf(c) \in Seq(Char)
         /\ LineOf(c) =
              Upto(IF c.fn = "stderr" THEN WithErrno(PrintedOf(c), c.err) ELSE PrintedOf(c), MaxLogStr - 1) \o <<"\n">>
<1>1. PrintedOf(c) \in Seq(Char)
  <2>1. Count(c) + 1 \in 1 .. Count(c) + 1
    BY Tables
  <2>2. QED
    BY <2>1, Tables DEF PrintedOf
<1> DEFINE t == IF c.fn = "stderr" THEN WithErrno(PrintedOf(c), c.err) ELSE PrintedOf(c)
<1>2. t \in Seq(Char)
  BY <1>1, LineType
<1>3. LineOf(c) = Line(t)
  BY DEF LineOf
<1> HIDE DEF t
<1>4. Line(t) = Upto(t, MaxLogStr - 1) \o <<"\n">>
  BY <1>2, LineType
<1>5. QED
  BY <1>1, <1>3, <1>4 DEF t

\* From the end of the format, or a full buffer, the line is that of the call.
LEMMA Finishes ==
  ASSUME NEW c \in AllCalls, NEW b, NEW f, NEW a, Place(c, b, f, a),
         f = <<>> \/ Len(b) >= MaxLogStr
  PROVE  LET line == Line(IF c.fn = "stderr" THEN WithErrno(b, c.err) ELSE b)
         IN /\ line \in Seq(Char) /\ Len(line) <= MaxLogStr /\ line = LineOf(c)
<1> DEFINE told(s) == IF c.fn = "stderr" THEN WithErrno(s, c.err) ELSE s
           T == PrintedOf(c)
<1>1. PICK k, cur, done : PlaceOf(c, b, f, a, k, cur, done)
  BY DEF Place
<1>2. /\ k \in 0 .. Count(c) /\ Count(c) \in Nat /\ k \in Nat /\ MaxLogStr \in Nat /\ ErrText \in Seq(Char)
      /\ done \in Seq(Char) /\ cur.printed \in Seq(Char) /\ b = Upto(done, MaxLogStr) /\ Len(done) \in Nat
      /\ k + 1 \in 1 .. Count(c) + 1 /\ Len(ErrText) \in Nat /\ Len(cur.printed) \in Nat /\ cur.fmt \in Seq(Char)
  <2>1. k \in 0 .. Count(c) /\ Count(c) \in Nat
    BY <1>1, Tables DEF PlaceOf
  <2>2. done \in Seq(Char) /\ cur.printed \in Seq(Char) /\ b = Upto(done, MaxLogStr) /\ cur.fmt \in Seq(Char)
    BY <1>1 DEF PlaceOf
  <2>3. k \in Nat /\ k + 1 \in 1 .. Count(c) + 1
    BY <2>1
  <2>4. MaxLogStr \in Nat /\ ErrText \in Seq(Char) /\ Len(ErrText) \in Nat
    BY ErrTextType
  <2>5. Len(done) \in Nat /\ Len(cur.printed) \in Nat
    BY <2>2
  <2>6. QED
    BY <2>1, <2>2, <2>3, <2>4, <2>5
<1>3. b \in Seq(Char) /\ Len(b) = (IF Len(done) > MaxLogStr THEN MaxLogStr ELSE Len(done))
      /\ (Len(done) <= MaxLogStr => b = done)
  BY <1>2, UptoFacts
<1>4. T \in Seq(Char) /\ LineOf(c) = Upto(told(T), MaxLogStr - 1) \o <<"\n">>
  BY LineOfIs
<1>5. told(b) \in Seq(Char)
  BY <1>3, LineType
<1>6. /\ Line(told(b)) \in Seq(Char) /\ Len(Line(told(b))) <= MaxLogStr
      /\ Line(told(b)) = Upto(told(b), MaxLogStr - 1) \o <<"\n">>
  <2> DEFINE s == told(b)
  <2>1. s \in Seq(Char)
    BY <1>5
  <2> HIDE DEF s
  <2>2. Line(s) \in Seq(Char) /\ Len(Line(s)) <= MaxLogStr /\ Line(s) = Upto(s, MaxLogStr - 1) \o <<"\n">>
    BY <2>1, LineType
  <2>3. QED
    BY <2>2 DEF s
<1>10. /\ k \in Nat /\ Count(c) \in Nat /\ k <= Count(c) /\ MaxLogStr \in Nat /\ Len(done) \in Nat
       /\ Len(cur.printed) \in Nat /\ Len(ErrText) \in Nat
  BY <1>2
<1>7. CASE Len(b) >= MaxLogStr
  <2>1. Len(done) >= MaxLogStr /\ Len(b) = MaxLogStr
    BY <1>2, <1>3, <1>7
  <2>4. Upto(told(b), MaxLogStr - 1) = Upto(told(T), MaxLogStr - 1)
    <3> DEFINE j == k + 1
               m == MaxLogStr - 1
    <3>1. j \in 1 .. Count(c) + 1 /\ Count(c) + 1 \in j .. Count(c) + 1 /\ m \in Nat /\ m <= MaxLogStr /\ m <= Len(done)
      <4>1. 7 <= MaxLogStr
        BY LogAssumption
      <4>2. QED
        BY <1>10, <2>1, <4>1
    <3>2. PrintedAt(c, j) = done \o cur.printed
      BY <1>1 DEF PlaceOf
    <3> HIDE DEF j, m
    <3>3. PICK r \in Seq(Char) : T = PrintedAt(c, j) \o r
      BY <3>1, PrintedGrows DEF PrintedOf
    <3>4. T = done \o (cur.printed \o r) /\ cur.printed \o r \in Seq(Char)
      <4> DEFINE x == cur.printed
      <4>1. done \in Seq(Char) /\ x \in Seq(Char)
        BY <1>2
      <4>2. T = (done \o x) \o r
        BY <3>2, <3>3
      <4> HIDE DEF x, T
      <4>3. (done \o x) \o r = done \o (x \o r)
        BY <4>1, Assoc
      <4>4. x \o r \in Seq(Char)
        BY <4>1
      <4>5. QED
        BY <4>2, <4>3, <4>4 DEF x
    <3> DEFINE u == cur.printed \o r
    <3>5. u \in Seq(Char) /\ T = done \o u
      BY <3>4
    <3> HIDE DEF u, T
    <3>6. Upto(T, m) = Upto(done, m)
      BY <1>2, <3>1, <3>5, UptoConcat
    <3>7. Upto(b, m) = Upto(done, m)
      BY <1>2, <3>1, UptoTwice
    <3>8. Len(T) >= MaxLogStr /\ Len(T) \in Nat
      <4>1. Len(done \o u) = Len(done) + Len(u) /\ Len(u) \in Nat
        BY <1>2, <3>5
      <4>2. QED
        BY <1>10, <2>1, <3>5, <4>1
    <3>9. told(b) = b /\ told(T) = T
      <4>1. ~(Len(b) + Len(ErrText) < MaxLogStr) /\ ~(Len(T) + Len(ErrText) < MaxLogStr)
        BY <1>10, <2>1, <3>8
      <4>2. QED
        BY <4>1, Zenon DEF WithErrno
    <3>10. QED
      BY <3>6, <3>7, <3>9 DEF m
  <2>5. QED
    BY <1>4, <1>6, <2>4
<1>8. CASE f = <<>> /\ Len(b) < MaxLogStr
  <2>1. b = done
    BY <1>2, <1>3, <1>8
  <2>2. cur.fmt = <<>> /\ FmtAt(c, k + 1) = <<>>
    <3> DEFINE F == FmtAt(c, k + 1)
    <3>1. F \in Seq(Char) /\ f = cur.fmt \o F
      BY <1>1, <1>2, Tables DEF PlaceOf
    <3> HIDE DEF F
    <3> DEFINE s == cur.fmt
    <3>2. s \in Seq(Char) /\ s \o F = <<>>
      BY <1>2, <1>8, <3>1
    <3> HIDE DEF s
    <3>3. s = <<>>
      <4> SUFFICES ASSUME s # <<>> PROVE FALSE
        OBVIOUS
      <4>1. s \o F # <<>>
        BY <3>1, <3>2, HeadTail
      <4>2. QED
        BY <3>2, <4>1
    <3>4. <<>> \o F = F
      BY <3>1
    <3>5. QED
      BY <3>2, <3>3, <3>4 DEF s, F
  <2>3. cur.args = <<>> /\ cur.printed = <<>>
    BY <1>1, <2>2, FitsFormat DEF PlaceOf
  <2>4. k = Count(c)
    <3> SUFFICES ASSUME k # Count(c) PROVE FALSE
      OBVIOUS
    <3> DEFINE j == k + 1
               g == Items(c)[j].fmt
               F == FmtAt(c, j + 1)
    <3>1. j \in 1 .. Count(c) /\ j + 1 \in 1 .. Count(c) + 1
      BY <1>10
    <3> HIDE DEF j
    <3>2. g \in Seq(Char) /\ g # <<>> /\ FmtAt(c, j) = g \o F
      BY <3>1, ItemFacts, FitsFormat
    <3>3. F \in Seq(Char)
      BY <3>1, Tables
    <3> HIDE DEF g, F
    <3>4. g \o F # <<>>
      BY <3>2, <3>3, HeadTail
    <3>5. QED
      BY <2>2, <3>2, <3>4 DEF j
  <2>7. b = T
    <3>1. done \o <<>> = PrintedAt(c, k + 1)
      BY <1>1, <2>3 DEF PlaceOf
    <3>2. done \o <<>> = done
      BY <1>2
    <3>3. QED
      BY <2>1, <2>4, <3>1, <3>2 DEF PrintedOf
  <2>8. QED
    BY <1>4, <1>6, <2>7
<1>9. QED
  <2>1. Len(b) \in Nat /\ MaxLogStr \in Nat
    BY <1>2, <1>3
  <2>2. QED
    BY <1>7, <1>8, <2>1

-----------------------------------------------------------------------------
(* What is printed against what is asked for. *)

\* A number that has its width is not padded.
LEMMA PaddedNot ==
  ASSUME NEW s \in Seq(Char), NEW z, NEW n \in Int, n <= Len(s)
  PROVE  Padded(s, z, n) = s
<1> DEFINE p == [i \in 1 .. n - Len(s) |-> z]
<1>1. 1 .. n - Len(s) = 1 .. 0
  OBVIOUS
<1>2. p = <<>>
  BY <1>1
<1>3. <<>> \o s = s
  OBVIOUS
<1>4. QED
  BY <1>2, <1>3 DEF Padded

\* Without a sign, or without a width, the sign may be put first.
LEMMA InWidthIs ==
  ASSUME NEW n \in Int, NEW digits \in Seq(Char), NEW z \in Char, NEW w \in Nat, n >= 0 \/ w = 0
  PROVE  InWidth(n, digits, z, w) = Sign(n) \o Padded(digits, z, w)
<1>1. Padded(digits, z, w) \in Seq(Char)
  BY PaddedType
<1>2. CASE n >= 0
  <2>1. Sign(n) = <<>> /\ Len(<<>>) = 0 /\ w - 0 = w
    BY <1>2, PartTypes
  <2>2. <<>> \o digits = digits /\ <<>> \o Padded(digits, z, w) = Padded(digits, z, w)
    BY <1>1
  <2>3. QED
    BY <2>1, <2>2 DEF InWidth
<1>3. CASE n < 0
  <2>1. Sign(n) = <<"-">> /\ Len(<<"-">>) = 1 /\ w = 0
    BY <1>3 DEF Sign
  <2>2. Sign(n) \in Seq(Char) /\ Len(digits) \in Nat
    BY PartTypes
  <2>3. Padded(digits, z, w) = digits /\ Padded(digits, z, w - Len(Sign(n))) = digits
    <3>1. w \in Int /\ w <= Len(digits) /\ w - Len(Sign(n)) \in Int /\ w - Len(Sign(n)) <= Len(digits)
      BY <2>1, <2>2
    <3>2. QED
      BY <3>1, PaddedNot
  <2>4. Padded(Sign(n) \o digits, z, w) = Sign(n) \o digits
    <3> DEFINE t == Sign(n) \o digits
    <3>1. t \in Seq(Char)
      BY <2>2
    <3> HIDE DEF t
    <3>2. w <= Len(t) /\ w \in Int
      BY <2>1, <3>1
    <3>3. QED
      BY <3>1, <3>2, PaddedNot DEF t
  <2>5. QED
    BY <2>3, <2>4 DEF InWidth
<1>4. QED
  BY <1>2, <1>3

Misprinted(it) == SignFirst(it) \/ LosesZeros(it) \/ Miscarries(it)

\* A number that is not misprinted.
LEMMA NumberRight ==
  ASSUME NEW it, NumberFits(it), it.fmt \in Seq(Char), ~SignFirst(it)
  PROVE  it.printed = it.text
<1> DEFINE letter == ConvOf(it.fmt)[1]
           n == it.args[1]
           z == ZeroOf(it.fmt)
           w == Number(WidthOf(it.fmt))
           digits == DigitsOf(letter, n)
<1>1. it.fmt # <<>> /\ ConvOf(it.fmt) # <<>> /\ n \in Int
  BY Zenon DEF NumberFits, IsOne
<1>2. it.text = InWidth(n, digits, z, w) /\ it.printed = Sign(n) \o Padded(digits, z, w)
  BY Zenon DEF NumberFits
<1>3. w \in Nat /\ z \in Char
  <2>1. WidthOf(it.fmt) \in Seq(Digit)
    BY <1>1, ConvFacts
  <2>2. QED
    BY <2>1, NumberType, PartTypes
<1>4. digits \in Seq(Char)
  <2> HIDE DEF letter, n
  <2>1. Abs(n) \in Nat
    BY <1>1, PartTypes
  <2>2. CASE letter = "x"
    BY <2>1, <2>2, PartTypes DEF DigitsOf
  <2>3. CASE letter = "X"
    BY <2>1, <2>3, PartTypes DEF DigitsOf
  <2>4. CASE letter \notin {"x", "X"}
    BY <2>1, <2>4, PartTypes DEF DigitsOf
  <2>5. QED
    BY <2>2, <2>3, <2>4
<1>5. n >= 0 \/ w = 0
  <2>1. ~(n < 0 /\ w > 0)
    BY DEF SignFirst
  <2> HIDE DEF n, w
  <2>2. QED
    BY <1>1, <1>3, <2>1
<1> HIDE DEF digits, n, z, w
<1>6. QED
  BY <1>1, <1>2, <1>3, <1>4, <1>5, InWidthIs

\* A float that is not misprinted.
LEMMA FloatRight ==
  ASSUME NEW it, FloatFits(it), it.fmt \in Seq(Char), ~Misprinted(it)
  PROVE  it.printed = it.text
<1> DEFINE x == it.args[1]
           v == ConvOf(it.fmt)
           n == Number(PrecisionOf(v))
           scale == Scale[n]
           z == ZeroOf(it.fmt)
           w == Number(WidthOf(it.fmt))
           fill == FillOf(it.fmt, x, scale)
           up == Rounded(x, scale) = scale
           whole == Digits(Abs(x) \div 1000 + IF n > 0 /\ up THEN 1 ELSE 0, 10, Decimals)
           frac == Digits(IF up THEN 0 ELSE Rounded(x, scale), 10, Decimals)
<1>1. /\ x \in Int
      /\ \/ /\ v = <<"f">>
            /\ it.text = InWidth(x, whole, z, w)
            /\ it.printed = Sign(x) \o Padded(whole, z, w)
         \/ /\ v = <<".">> \o PrecisionOf(v) \o <<"f">> /\ n > 0
            /\ it.text = InWidth(x, whole, z, w) \o <<".">> \o Padded(frac, "0", n)
            /\ it.printed = Sign(x) \o Padded(Digits(WholeOf(x, scale), 10, Decimals), fill, w)
                            \o <<".">> \o Padded(FracOf(x, scale), fill, n)
  BY Zenon DEF FloatFits
<1>2. w \in Nat /\ n \in Nat
  BY FloatShapes
<1>0. x \in Int
  <2> HIDE DEF whole, frac, fill, up, scale, n, x, z, w, v
  <2>1. QED
    BY <1>1
<1>3. z \in Char /\ Abs(x) \in Nat
  <2> HIDE DEF x
  <2>1. QED
    BY <1>0, PartTypes
<1>4. x >= 0 \/ w = 0
  <2>1. ~(x < 0 /\ w > 0)
    BY DEF Misprinted, SignFirst
  <2> HIDE DEF x, w
  <2>2. QED
    BY <1>0, <1>2, <2>1
<1>5. whole \in Seq(Char)
  <2> DEFINE m == Abs(x) \div 1000 + (IF n > 0 /\ up THEN 1 ELSE 0)
  <2>1. m \in Nat
    <3> HIDE DEF x, n, up
    <3>1. Abs(x) \div 1000 \in Nat
      BY <1>3
    <3>2. QED
      BY <3>1
  <2> HIDE DEF m
  <2>2. Digits(m, 10, Decimals) \in Seq(Char)
    BY <2>1, PartTypes
  <2>3. QED
    BY <2>2 DEF m
<1>6. InWidth(x, whole, z, w) = Sign(x) \o Padded(whole, z, w)
  <2> HIDE DEF x, whole, z, w
  <2>1. QED
    BY <1>0, <1>2, <1>3, <1>4, <1>5, InWidthIs
<1>7. CASE v = <<"f">> /\ it.text = InWidth(x, whole, z, w) /\ it.printed = Sign(x) \o Padded(whole, z, w)
  <2> HIDE DEF whole, frac, fill, up, scale, n, x, z, w, v
  <2>1. QED
    BY <1>6, <1>7
<1>8. CASE /\ v = <<".">> \o PrecisionOf(v) \o <<"f">> /\ n > 0
           /\ it.text = InWidth(x, whole, z, w) \o <<".">> \o Padded(frac, "0", n)
           /\ it.printed = Sign(x) \o Padded(Digits(WholeOf(x, scale), 10, Decimals), fill, w)
                           \o <<".">> \o Padded(FracOf(x, scale), fill, n)
  <2>1. v[1] = "."
    <3>1. PrecisionOf(v) \in Seq(Digit)
      BY FloatShapes
    <3> DEFINE q == PrecisionOf(v)
    <3>5. v = <<".">> \o q \o <<"f">>
      BY <1>8, Zenon
    <3>6. q \in Seq(Char)
      <4> HIDE DEF q
      <4>1. q \in Seq(Digit)
        BY <3>1 DEF q
      <4>2. QED
        BY <4>1, DigitFacts, SeqOfLarger
    <3>2. v = <<".">> \o q \o <<"f">> /\ q \in Seq(Char)
      BY <3>5, <3>6
    <3> HIDE DEF v, q
    <3>3. (<<".">> \o q \o <<"f">>)[1] = "."
      BY <3>2
    <3>4. QED
      BY <3>2, <3>3
  <2>2. HasFraction(it) /\ Precision(it) = n
    BY <2>1 DEF HasFraction, Precision
  <2>3. ~up \/ (w = 0 /\ scale <= ShortMax)
    <3>1. ~(up /\ (w > 0 \/ scale > ShortMax))
      BY <2>2 DEF Misprinted, Miscarries
    <3>2. scale \in Nat /\ ShortMax \in Nat
      BY <1>2, ScaleType, LogAssumption
    <3> HIDE DEF w, up, scale
    <3>3. QED
      BY <1>2, <3>1, <3>2
  <2>4. CarryOf(x, scale) = up
    BY <2>3, Zenon DEF CarryOf
  <2>5. Digits(WholeOf(x, scale), 10, Decimals) = whole /\ FracOf(x, scale) = frac
    <3>1. n > 0
      BY <1>8, Zenon
    <3> HIDE DEF n, x, scale, up
    <3>2. QED
      BY <2>4, <3>1 DEF WholeOf, FracOf
  <2>6. fill = IF up THEN "0" ELSE z
    BY <2>4, Zenon DEF FillOf
  <2>7. frac \in Seq(Char)
    <3>1. AreFloatParts(x, scale)
      <4> HIDE DEF x, n
      <4>1. QED
        BY <1>0, <1>2, FloatParts
    <3>2. frac \in Seq(Digit)
      BY <2>5, <3>1 DEF AreFloatParts
    <3> HIDE DEF frac
    <3>3. QED
      BY <3>2, DigitFacts, SeqOfLarger
  <2>8. ~up => z = "0" \/ n <= Len(frac)
    <3>1. ~(z # "0" /\ Len(FracOf(x, scale)) < n)
      BY <2>2 DEF Misprinted, LosesZeros
    <3>2. Len(frac) \in Nat
      BY <2>7
    <3> HIDE DEF n, frac, x, scale, z
    <3>3. QED
      BY <1>2, <2>5, <3>1, <3>2
  <2> HIDE DEF frac, whole, fill, scale, up, n, x, z, w, v
  <2>9. Padded(whole, fill, w) = Padded(whole, z, w)
    <3>1. CASE up
      <4>1. w \in Int /\ w <= Len(whole)
        BY <1>5, <2>3, <3>1
      <4>2. QED
        BY <1>5, <4>1, PaddedNot
    <3>2. CASE ~up
      BY <2>6, <3>2
    <3>3. QED
      BY <3>1, <3>2
  <2>10. Padded(frac, fill, n) = Padded(frac, "0", n)
    <3>1. CASE fill = "0"
      BY <3>1
    <3>2. CASE n <= Len(frac)
      <4>1. n \in Int
        BY <1>2
      <4>2. QED
        BY <2>7, <3>2, <4>1, PaddedNot
    <3>3. QED
      BY <2>6, <2>8, <3>1, <3>2
  <2>11. QED
    BY <1>6, <1>8, <2>5, <2>9, <2>10
<1>9. QED
  <2> HIDE DEF whole, frac, fill, up, scale, n, x, z, w, v
  <2>1. QED
    BY <1>1, <1>7, <1>8

\* What is not misprinted is printed as it is asked for.
LEMMA ItemRight ==
  ASSUME NEW it, NEW last, Fits(it, last), it.fmt \in Seq(Char), ~Misprinted(it)
  PROVE  it.printed = it.text
<1>1. CASE PlainFits(it) \/ UnknownFits(it, last) \/ PercentFits(it, last)
  BY <1>1, Zenon DEF PlainFits, UnknownFits, PercentFits
<1>2. CASE NumberFits(it)
  BY <1>2, NumberRight DEF Misprinted
<1>3. CASE TextFits(it)
  BY <1>3, Zenon DEF TextFits
<1>4. CASE FloatFits(it)
  BY <1>4, FloatRight
<1>5. QED
  BY <1>1, <1>2, <1>3, <1>4 DEF Fits

Faithful(c, text) ==
  \/ text = Expected(c, Told(c))
  \/ LosesErrno(c) /\ text = Expected(c, FALSE)
  \/ \E k \in DOMAIN Items(c) : Misprinted(Items(c)[k])

\* The line of a call is the one asked for, but for the errors that are named.
LEMMA LineOfFaithful ==
  ASSUME NEW c \in AllCalls
  PROVE  Faithful(c, LineOf(c))
<1> SUFFICES ASSUME \A k \in DOMAIN Items(c) : ~Misprinted(Items(c)[k])
             PROVE  \/ LineOf(c) = Expected(c, Told(c))
                    \/ LosesErrno(c) /\ LineOf(c) = Expected(c, FALSE)
  BY Zenon DEF Faithful
<1>1. \A i \in 1 .. Len(Items(c)) : Items(c)[i].printed = Items(c)[i].text
  <2> SUFFICES ASSUME NEW i \in 1 .. Len(Items(c)) PROVE Items(c)[i].printed = Items(c)[i].text
    OBVIOUS
  <2>1. i \in 1 .. Count(c) /\ i \in DOMAIN Items(c)
    BY CallFacts DEF Count
  <2>2. Items(c)[i].fmt \in Seq(Char) /\ Fits(Items(c)[i], i = Count(c))
    BY <2>1, ItemFacts
  <2>3. QED
    BY <2>1, <2>2, ItemRight
<1>2. PrintedBefore(c) = TextBefore(c)
  <2>1. [i \in 1 .. Len(Items(c)) |-> Items(c)[i].printed] = [i \in 1 .. Len(Items(c)) |-> Items(c)[i].text]
    BY <1>1
  <2>2. QED
    BY <2>1, Zenon DEF PrintedBefore, TextBefore
<1>3. PrintedOf(c) = Asked(c)
  BY <1>2, Zenon DEF PrintedOf, PrintedAt, Asked, Count
<1>4. LineOf(c) = Upto(IF c.fn = "stderr" THEN WithErrno(Asked(c), c.err) ELSE Asked(c), MaxLogStr - 1) \o <<"\n">>
  BY <1>3, LineOfIs
<1>5. WithErrno(Asked(c), c.err) = IF Told(c) THEN Asked(c) \o ErrText ELSE Asked(c)
  BY Zenon DEF WithErrno, Told
<1>6. CASE c.fn = "stderr"
  BY <1>4, <1>5, <1>6 DEF Expected
<1>7. CASE c.fn = "core"
  <2>1. LineOf(c) = Expected(c, FALSE)
    BY <1>4, <1>7 DEF Expected
  <2>2. CASE Told(c)
    BY <1>7, <2>1, <2>2 DEF LosesErrno
  <2>3. CASE ~Told(c)
    BY <2>1, <2>3 DEF Expected
  <2>4. QED
    BY <2>2, <2>3
<1>8. c.fn \in Fns
  BY LogAssumption DEF AllCalls
<1>9. QED
  BY <1>6, <1>7, <1>8 DEF Fns

-----------------------------------------------------------------------------
(* The invariant. *)

\* The calls that have had their turn.
Due == IF pc = "idle" THEN Len(made) ELSE Len(made) - 1

ALine == [call : Nat, text : Seq(Char)]

LogTypes ==
  /\ fd \in {"stdin", "file", "stderr", "closed"} /\ logLevel \in ConfLevels \cup {0}
  /\ disk \in {"fine", "full", "broken"} /\ tty \in BOOLEAN
  /\ pc \in {"idle", "format", "write", "crashed"}
  /\ made \in Seq(AllCalls) /\ Len(made) <= MaxCalls
  /\ pc # "idle" => Len(made) > 0
  /\ lines \in Seq(ALine) /\ Len(lines) <= Due
  /\ buf \in Seq(Char) /\ Len(buf) <= MaxLogStr

InPlace ==
  /\ pc = "format" => Place(call, buf, fmt, args)
  /\ pc = "write" => Faithful(call, buf)
  /\ pc = "crashed" => PointBehind(call)

LinesFaithful ==
  \A i \in DOMAIN lines : lines[i].call \in 1 .. Len(made) /\ Faithful(made[lines[i].call], lines[i].text)

LogInv == LogTypes /\ InPlace /\ LinesFaithful

\* A turn of the loop that comes round.
Turn ==
  /\ pc' = pc /\ UNCHANGED <<env, conf, made, lines>>
  /\ Place(call, buf', fmt', args')

\* While a call runs it is one that may be made.
LEMMA CallIs ==
  ASSUME LogTypes, pc # "idle"
  PROVE  call \in AllCalls
<1>1. made \in Seq(AllCalls) /\ Len(made) > 0
  BY DEF LogTypes
<1>2. Len(made) \in 1 .. Len(made)
  BY <1>1
<1>3. QED
  BY <1>1, <1>2 DEF call

\* What the invariant says at the head of the loop.
LEMMA AtHead ==
  ASSUME LogInv, Looping
  PROVE  call \in AllCalls /\ \E k, cur, done : UnderWay(call, buf, fmt, args, k, cur, done)
<1>1. call \in AllCalls
  BY CallIs DEF LogInv, Looping
<1>2. Place(call, buf, fmt, args) /\ fmt # <<>> /\ Len(buf) < MaxLogStr
  BY DEF LogInv, InPlace, Looping
<1>3. QED
  BY <1>1, <1>2, HeadOfLoop

\* Literal is a turn of the loop.
LEMMA LiteralStep ==
  ASSUME LogInv, Literal
  PROVE  Turn
<1>1. Looping /\ fmt[1] # "%" /\ buf' = Append(buf, fmt[1]) /\ fmt' = Tail(fmt)
      /\ UNCHANGED <<env, conf, pc, args, made, lines>>
  BY Zenon DEF Literal
<1>2. call \in AllCalls /\ \E k, cur, done : UnderWay(call, buf, fmt, args, k, cur, done)
  BY <1>1, AtHead
<1>3. Place(call, Append(buf, fmt[1]), Tail(fmt), args)
  BY <1>1, <1>2, LiteralKeeps
<1>4. QED
  BY <1>1, <1>3 DEF Turn

\* Percent is a turn of the loop.
LEMMA PercentStep ==
  ASSUME LogInv, Percent
  PROVE  Turn
<1>1. Looping /\ fmt[1] = "%" /\ Len(fmt) > 1 /\ fmt[2] = "%" /\ buf' = Append(buf, "%") /\ fmt' = Tail(fmt)
      /\ UNCHANGED <<env, conf, pc, args, made, lines>>
  BY Zenon DEF Percent
<1>2. call \in AllCalls /\ \E k, cur, done : UnderWay(call, buf, fmt, args, k, cur, done)
  BY <1>1, AtHead
<1>3. Place(call, Append(buf, "%"), Tail(fmt), args)
  BY <1>1, <1>2, PercentKeeps
<1>4. QED
  BY <1>1, <1>3 DEF Turn

\* Unknown is a turn of the loop.
LEMMA UnknownStep ==
  ASSUME LogInv, Unknown
  PROVE  Turn
<1>1. Looping /\ fmt[1] = "%" /\ ~(Len(fmt) > 1 /\ fmt[2] = "%")
      /\ (ConvOf(fmt) # <<>> => ConvOf(fmt)[1] \notin Letters) /\ fmt' = ConvOf(fmt)
      /\ UNCHANGED <<env, conf, pc, buf, args, made, lines>>
  BY Zenon DEF Unknown, IsDirective, conv
<1>2. call \in AllCalls /\ \E k, cur, done : UnderWay(call, buf, fmt, args, k, cur, done)
  BY <1>1, AtHead
<1>3. Place(call, buf, ConvOf(fmt), args)
  BY <1>1, <1>2, UnknownKeeps
<1>4. QED
  BY <1>1, <1>3 DEF Turn

\* A directive that takes an argument.
LEMMA DirectiveIs ==
  ASSUME NEW ls \in SUBSET Letters, Directive(ls)
  PROVE  /\ Looping /\ fmt[1] = "%" /\ ~(Len(fmt) > 1 /\ fmt[2] = "%")
         /\ ConvOf(fmt) # <<>> /\ ConvOf(fmt)[1] \in ls /\ ConvOf(fmt)[1] \in Letters
BY DEF Directive, IsDirective, conv

NumberTurn(letter) ==
  Place(call, Num(buf \o Sign(args[1]), DigitsOf(letter, args[1]), ZeroOf(fmt), Number(WidthOf(fmt))),
        Tail(ConvOf(fmt)), Tail(args))

\* What the code finds at the directive of a number.
LEMMA NumberTurns ==
  ASSUME LogInv, NEW ls \in SUBSET {"d", "x", "X", "u", "P"}, Directive(ls)
  PROVE  args[1] \in Int /\ ConvOf(fmt)[1] \in ls /\ NumberTurn(ConvOf(fmt)[1]) /\ buf \in Seq(Char)
<1>1. ls \in SUBSET Letters
  BY DEF Letters
<1>2. /\ Looping /\ fmt[1] = "%" /\ ~(Len(fmt) > 1 /\ fmt[2] = "%")
      /\ ConvOf(fmt) # <<>> /\ ConvOf(fmt)[1] \in ls /\ ConvOf(fmt)[1] \in Letters
  BY <1>1, DirectiveIs
<1>3. call \in AllCalls
  BY <1>2, AtHead
<1>4. PICK k, cur, done : UnderWay(call, buf, fmt, args, k, cur, done)
  BY <1>2, AtHead
<1>5. NumberFits(cur)
  BY <1>2, <1>3, <1>4, DirectiveHead
<1>6. args[1] \in Int /\ NumberTurn(ConvOf(fmt)[1])
  BY <1>3, <1>4, <1>5, NumberKeeps DEF NumberTurn
<1>7. QED
  BY <1>2, <1>6 DEF LogInv, LogTypes

\* Decimal is a turn of the loop.
LEMMA DecimalStep ==
  ASSUME LogInv, Decimal
  PROVE  Turn
<1>1. Directive({"d"}) /\ {"d"} \in SUBSET {"d", "x", "X", "u", "P"}
  BY DEF Decimal
<1>2. ConvOf(fmt)[1] \in {"d"} /\ NumberTurn(ConvOf(fmt)[1])
  BY <1>1, NumberTurns
<1>3. NumberTurn("d")
  BY <1>2
<1>4. DigitsOf("d", args[1]) = Digits(Abs(args[1]), 10, Decimals)
  BY DEF DigitsOf
<1>5. Put(Num(buf \o Sign(args[1]), Digits(Abs(args[1]), 10, Decimals), ZeroOf(fmt), Number(WidthOf(fmt))), Tail(ConvOf(fmt)))
  BY Zenon DEF Decimal, Signed, Magnitude, zero, width, conv
<1>6. QED
  BY <1>3, <1>4, <1>5, Zenon DEF NumberTurn, Put, Turn

\* Hex is a turn of the loop.
LEMMA HexStep ==
  ASSUME LogInv, Hex
  PROVE  Turn
<1>1. Directive({"x", "X"}) /\ {"x", "X"} \in SUBSET {"d", "x", "X", "u", "P"}
  BY DEF Hex
<1>2. ConvOf(fmt)[1] \in {"x", "X"} /\ NumberTurn(ConvOf(fmt)[1])
  BY <1>1, NumberTurns
<1> DEFINE letter == ConvOf(fmt)[1]
<1>4. DigitsOf(letter, args[1]) = Digits(Abs(args[1]), 16, IF letter = "x" THEN hex ELSE HEX)
  <2> HIDE DEF letter
  <2>1. letter = "x" \/ letter = "X"
    BY <1>2 DEF letter
  <2>2. QED
    BY <2>1 DEF DigitsOf
<1>5. Put(Num(buf \o Sign(args[1]), Digits(Abs(args[1]), 16, IF letter = "x" THEN hex ELSE HEX), ZeroOf(fmt),
              Number(WidthOf(fmt))), Tail(ConvOf(fmt)))
  BY Zenon DEF Hex, Signed, Magnitude, zero, width, conv
<1>6. QED
  BY <1>2, <1>4, <1>5, Zenon DEF NumberTurn, Put, Turn

\* Unsigned is a turn of the loop.
LEMMA UnsignedStep ==
  ASSUME LogInv, Unsigned
  PROVE  Turn
<1>1. Directive({"u", "P"}) /\ {"u", "P"} \in SUBSET {"d", "x", "X", "u", "P"} /\ args[1] >= 0
  BY DEF Unsigned
<1>2. args[1] \in Int /\ ConvOf(fmt)[1] \in {"u", "P"} /\ NumberTurn(ConvOf(fmt)[1]) /\ buf \in Seq(Char)
  BY <1>1, NumberTurns
<1> DEFINE letter == ConvOf(fmt)[1]
<1>3. Sign(args[1]) = <<>> /\ Abs(args[1]) = args[1]
  BY <1>1, <1>2, PartTypes
<1>4. DigitsOf(letter, args[1]) = Digits(args[1], 10, Decimals)
  <2> HIDE DEF letter
  <2>1. letter = "u" \/ letter = "P"
    BY <1>2 DEF letter
  <2>2. QED
    BY <1>3, <2>1 DEF DigitsOf
<1>5. buf \o Sign(args[1]) = buf
  BY <1>2, <1>3
<1>6. Put(Num(buf, Digits(args[1], 10, Decimals), ZeroOf(fmt), Number(WidthOf(fmt))), Tail(ConvOf(fmt)))
  BY Zenon DEF Unsigned, zero, width, conv
<1>7. QED
  BY <1>2, <1>4, <1>5, <1>6, Zenon DEF NumberTurn, Put, Turn

\* Text is a turn of the loop.
LEMMA TextStep ==
  ASSUME LogInv, Text
  PROVE  Turn
<1>1. Directive({"s"}) /\ {"s"} \in SUBSET Letters
  BY DEF Text, Letters
<1>2. /\ Looping /\ fmt[1] = "%" /\ ~(Len(fmt) > 1 /\ fmt[2] = "%")
      /\ ConvOf(fmt) # <<>> /\ ConvOf(fmt)[1] = "s" /\ ConvOf(fmt)[1] \in Letters
  BY <1>1, DirectiveIs
<1>3. call \in AllCalls
  BY <1>2, AtHead
<1>4. PICK k, cur, done : UnderWay(call, buf, fmt, args, k, cur, done)
  BY <1>2, AtHead
<1>5. TextFits(cur)
  BY <1>2, <1>3, <1>4, DirectiveHead
<1>6. Place(call, Upto(buf \o args[1], MaxLogStr), Tail(ConvOf(fmt)), Tail(args))
  BY <1>3, <1>4, <1>5, TextKeeps
<1>7. Put(Upto(buf \o args[1], MaxLogStr), Tail(ConvOf(fmt)))
  BY Zenon DEF Text, conv
<1>8. QED
  BY <1>6, <1>7, Zenon DEF Put, Turn

\* A float, whole or with a fraction, before it is put.
FloatHead(k, cur, done) ==
  /\ call \in AllCalls /\ UnderWay(call, buf, fmt, args, k, cur, done) /\ FloatFits(cur)
  /\ cur.fmt \in Seq(Char) /\ Number(PrecisionOf(ConvOf(cur.fmt))) \in Nat
  /\ \/ IsWhole(cur)
     \/ IsPointed(cur, PrecisionOf(ConvOf(cur.fmt)), Number(PrecisionOf(ConvOf(cur.fmt))))

\* What the code finds at the directive of a float.
LEMMA FloatTurns ==
  ASSUME LogInv, NEW ls \in SUBSET {".", "f"}, Directive(ls)
  PROVE  \E k, cur, done : FloatHead(k, cur, done)
<1>1. ls \in SUBSET Letters
  BY DEF Letters
<1>2. /\ Looping /\ fmt[1] = "%" /\ ~(Len(fmt) > 1 /\ fmt[2] = "%")
      /\ ConvOf(fmt) # <<>> /\ ConvOf(fmt)[1] \in ls /\ ConvOf(fmt)[1] \in Letters
  BY <1>1, DirectiveIs
<1>3. call \in AllCalls
  BY <1>2, AtHead
<1>4. PICK k, cur, done : UnderWay(call, buf, fmt, args, k, cur, done)
  BY <1>2, AtHead
<1>5. FloatFits(cur)
  BY <1>2, <1>3, <1>4, DirectiveHead
<1>6. cur.fmt \in Seq(Char)
  BY <1>4 DEF UnderWay
<1>7. /\ Number(PrecisionOf(ConvOf(cur.fmt))) \in Nat
      /\ \/ IsWhole(cur)
         \/ IsPointed(cur, PrecisionOf(ConvOf(cur.fmt)), Number(PrecisionOf(ConvOf(cur.fmt))))
  BY <1>5, <1>6, FloatShapes
<1>8. FloatHead(k, cur, done)
  BY <1>3, <1>4, <1>5, <1>6, <1>7 DEF FloatHead
<1>9. QED
  BY <1>8

\* WholeFloat is a turn of the loop.
LEMMA WholeFloatStep ==
  ASSUME LogInv, WholeFloat
  PROVE  Turn
<1>1. Directive({".", "f"}) /\ Number(PrecisionOf(ConvOf(fmt))) = 0 /\ {".", "f"} \in SUBSET {".", "f"}
  BY DEF WholeFloat, fracDigits, conv
<1>2. PICK k, cur, done : FloatHead(k, cur, done)
  BY <1>1, FloatTurns
<1> DEFINE n == Number(PrecisionOf(ConvOf(cur.fmt)))
<1>3. call \in AllCalls /\ UnderWay(call, buf, fmt, args, k, cur, done) /\ FloatFits(cur) /\ n \in Nat
  BY <1>2 DEF FloatHead
<1>4. IsWhole(cur)
  <2>1. CASE IsPointed(cur, PrecisionOf(ConvOf(cur.fmt)), n)
    <3>1. Number(PrecisionOf(ConvOf(fmt))) = n /\ n > 0
      BY <1>3, <2>1, PointedKeeps
    <3>2. QED
      BY <1>1, <3>1
  <2>2. QED
    BY <1>2, <2>1 DEF FloatHead
<1> DEFINE new == Num(buf \o Sign(args[1]), Digits(Abs(args[1]) \div 1000, 10, Decimals), ZeroOf(fmt), Number(WidthOf(fmt)))
           rest == WhatFollows(ConvOf(fmt))
<1>5. Place(call, new, rest, Tail(args))
  BY <1>3, <1>4, WholeFloatKeeps
<1>6. Put(new, rest)
  BY Zenon DEF WholeFloat, Signed, Magnitude, zero, width, conv, afterFloat, fracDigits, WhatFollows
<1> HIDE DEF new, rest
<1>7. QED
  BY <1>5, <1>6, Zenon DEF Put, Turn

\* It crashes only if the point is behind the buffer.
Crash == pc' = "crashed" /\ PointBehind(call) /\ UNCHANGED <<env, conf, buf, fmt, args, made, lines>>

\* Float is a turn of the loop or the crash.
LEMMA FloatStep ==
  ASSUME LogInv, Float
  PROVE  Turn \/ Crash
<1> DEFINE m == Number(PrecisionOf(ConvOf(fmt)))
           x == args[1]
           scale == Scale[m]
           point == PointOf(buf, fmt, x, scale)
<1>1. Directive({"."}) /\ m > 0 /\ {"."} \in SUBSET {".", "f"} /\ {"."} \in SUBSET Letters
  BY DEF Float, fracDigits, conv, Letters
<1>2. IF Len(point) > MaxLogStr
      THEN pc' = "crashed" /\ UNCHANGED <<env, conf, buf, fmt, args, made, lines>>
      ELSE Put(Num(point, FracOf(x, scale), FillOf(fmt, x, scale), m), WhatFollows(ConvOf(fmt)))
  BY Zenon DEF Float, Signed, Magnitude, zero, width, conv, afterFloat, fracDigits, WhatFollows,
               PointOf, FracOf, FillOf, WholeOf, CarryOf
<1>3. PICK k, cur, done : FloatHead(k, cur, done)
  BY <1>1, FloatTurns
<1> DEFINE n == Number(PrecisionOf(ConvOf(cur.fmt)))
<1>4. call \in AllCalls /\ UnderWay(call, buf, fmt, args, k, cur, done) /\ FloatFits(cur) /\ n \in Nat
  BY <1>3 DEF FloatHead
<1>5. IsPointed(cur, PrecisionOf(ConvOf(cur.fmt)), n)
  <2>1. CASE IsWhole(cur)
    <3>1. ConvOf(fmt)[1] = "f"
      BY <1>4, <2>1, WholeFloatKeeps
    <3>2. ConvOf(fmt)[1] \in {"."}
      BY <1>1, DirectiveIs
    <3>3. QED
      BY <3>1, <3>2
  <2>2. QED
    BY <1>3, <2>1 DEF FloatHead
<1>6. m = n
  BY <1>4, <1>5, PointedKeeps
<1>7. /\ Len(point) \in Nat
      /\ Len(point) > MaxLogStr => PointDue(call, k)
      /\ Len(point) <= MaxLogStr =>
           Place(call, Num(point, FracOf(x, scale), FillOf(fmt, x, scale), m), WhatFollows(ConvOf(fmt)), Tail(args))
  <2> HIDE DEF m
  <2>1. m \in Nat /\ IsPointed(cur, PrecisionOf(ConvOf(cur.fmt)), m) /\ m = Number(PrecisionOf(ConvOf(cur.fmt)))
    BY <1>4, <1>5, <1>6
  <2>2. QED
    BY <1>4, <2>1, PointedKeeps
<1> HIDE DEF point, m, x, scale
<1>8. CASE Len(point) > MaxLogStr
  <2>1. PointDue(call, k) /\ k \in 1 .. Count(call)
    BY <1>4, <1>7, <1>8 DEF UnderWay
  <2>2. PointBehind(call)
    BY <1>4, <2>1, PointBehindDue
  <2>3. QED
    BY <1>2, <1>8, <2>2 DEF Crash
<1>9. CASE ~(Len(point) > MaxLogStr)
  <2>1. Len(point) <= MaxLogStr
    BY <1>7, <1>9, ErrTextType
  <2>2. QED
    BY <1>2, <1>7, <1>9, <2>1, Zenon DEF Put, Turn
<1>10. QED
  BY <1>8, <1>9

-----------------------------------------------------------------------------
(* The steps of the invariant. *)

\* A turn keeps the invariant.
LEMMA TurnKeeps ==
  ASSUME LogInv, Looping, Turn
  PROVE  LogInv'
<1>1. pc = "format"
  BY DEF Looping
<1>2. call \in AllCalls
  BY <1>1, CallIs DEF LogInv
<1>3. /\ pc' = pc /\ fd' = fd /\ logLevel' = logLevel /\ disk' = disk /\ tty' = tty
      /\ made' = made /\ lines' = lines /\ call' = call /\ Place(call, buf', fmt', args')
  BY DEF Turn, env, conf, call
<1>4. buf' \in Seq(Char) /\ Len(buf') <= MaxLogStr
  BY <1>2, <1>3, PlaceBuffer
<1>5. LogTypes'
  BY <1>3, <1>4 DEF LogInv, LogTypes, Due
<1>6. InPlace'
  BY <1>1, <1>3 DEF InPlace
<1>7. LinesFaithful'
  BY <1>3 DEF LogInv, LinesFaithful, Faithful
<1>8. QED
  BY <1>5, <1>6, <1>7 DEF LogInv

\* The crash keeps the invariant.
LEMMA CrashKeeps ==
  ASSUME LogInv, Looping, Crash
  PROVE  LogInv'
<1>1. pc = "format" /\ pc' = "crashed" /\ PointBehind(call)
  BY DEF Looping, Crash
<1>2. /\ fd' = fd /\ logLevel' = logLevel /\ disk' = disk /\ tty' = tty
      /\ made' = made /\ lines' = lines /\ call' = call /\ buf' = buf
  BY DEF Crash, env, conf, call
<1>3. LogTypes'
  BY <1>1, <1>2 DEF LogInv, LogTypes, Due
<1>4. InPlace'
  BY <1>1, <1>2 DEF InPlace
<1>5. LinesFaithful'
  BY <1>2 DEF LogInv, LinesFaithful, Faithful
<1>6. QED
  BY <1>3, <1>4, <1>5 DEF LogInv

\* Another call: those before stay what they were.
LEMMA MadeGrows ==
  ASSUME LogInv, pc = "idle", NEW c \in AllCalls, made' = Append(made, c), lines' = lines
  PROVE  /\ made' \in Seq(AllCalls) /\ Len(made') = Len(made) + 1 /\ Len(made) \in Nat
         /\ call' = c /\ LinesFaithful' /\ lines' \in Seq(ALine) /\ Len(lines') <= Len(made)
<1>1. made \in Seq(AllCalls) /\ lines \in Seq(ALine) /\ Len(lines) <= Len(made)
  BY DEF LogInv, LogTypes, Due
<1>2. /\ made' \in Seq(AllCalls) /\ Len(made') = Len(made) + 1 /\ Len(made) \in Nat /\ made'[Len(made')] = c
      /\ \A i \in 1 .. Len(made) : i \in 1 .. Len(made') /\ made'[i] = made[i]
  BY <1>1
<1>3. LinesFaithful'
  BY <1>2 DEF LogInv, LinesFaithful, Faithful
<1>4. QED
  BY <1>1, <1>2, <1>3 DEF call

\* A call that begins is before its first item.
LEMMA BeginKeeps ==
  ASSUME LogInv, pc = "idle", NEW c \in AllCalls, Begin(c, Start(c), Format(c), Arguments(c)),
         fd' \in {"stdin", "file", "stderr", "closed"}, logLevel' \in ConfLevels \cup {0}
  PROVE  LogInv'
<1>1. /\ Len(made) < MaxCalls /\ pc' = "format" /\ made' = Append(made, c) /\ lines' = lines
      /\ disk' = disk /\ tty' = tty /\ buf' = Start(c) /\ fmt' = Format(c) /\ args' = Arguments(c)
  BY DEF Begin, env
<1>2. /\ made' \in Seq(AllCalls) /\ Len(made') = Len(made) + 1 /\ Len(made) \in Nat
      /\ call' = c /\ LinesFaithful' /\ lines' \in Seq(ALine) /\ Len(lines') <= Len(made)
  BY <1>1, MadeGrows
<1>3. Place(c, Start(c), Format(c), Arguments(c))
  BY Starts
<1>4. Place(call', buf', fmt', args')
  BY <1>1, <1>2, <1>3
<1>5. buf' \in Seq(Char) /\ Len(buf') <= MaxLogStr
  BY <1>1, <1>3, PlaceBuffer
<1>6. Len(made') <= MaxCalls /\ Len(made') > 0 /\ Due' = Len(made)
  <2>1. MaxCalls \in Nat
    BY LogAssumption
  <2>2. QED
    BY <1>1, <1>2, <2>1 DEF Due
<1>7. LogTypes'
  BY <1>1, <1>2, <1>5, <1>6 DEF LogInv, LogTypes
<1>8. InPlace'
  BY <1>1, <1>4 DEF InPlace
<1>9. QED
  BY <1>2, <1>7, <1>8 DEF LogInv

\* ngx_log_stderr keeps the invariant.
LEMMA StderrStep ==
  ASSUME LogInv, NEW c \in Calls, ngx_log_stderr(c)
  PROVE  LogInv'
<1>1. pc = "idle" /\ c.fn = "stderr" /\ Begin(c, Greeting, c.fmt, c.args) /\ fd' = fd /\ logLevel' = logLevel
  BY DEF ngx_log_stderr, conf
<1>2. Start(c) = Greeting /\ Format(c) = c.fmt /\ Arguments(c) = c.args /\ c \in AllCalls
  BY <1>1 DEF Start, Format, Arguments, AllCalls
<1>3. fd' \in {"stdin", "file", "stderr", "closed"} /\ logLevel' \in ConfLevels \cup {0}
  BY <1>1 DEF LogInv, LogTypes
<1>4. Begin(c, Start(c), Format(c), Arguments(c))
  BY <1>1, <1>2
<1>5. QED
  BY <1>1, <1>2, <1>3, <1>4, BeginKeeps

\* ngx_log_init keeps the invariant, whether it logs or not.
LEMMA InitStep ==
  ASSUME LogInv, NEW level \in ConfLevels, ngx_log_init(level)
  PROVE  LogInv'
<1>1. pc = "idle" /\ logLevel' = level
  BY DEF ngx_log_init
<1>2. CASE fd' = "file" /\ UNCHANGED <<env, pc, buf, fmt, args, made, lines>>
  <2>1. pc' = "idle" /\ disk' = disk /\ tty' = tty /\ buf' = buf /\ made' = made /\ lines' = lines
    BY <1>1, <1>2 DEF env
  <2>2. LogTypes'
    BY <1>1, <1>2, <2>1 DEF LogInv, LogTypes, Due
  <2>3. InPlace' /\ LinesFaithful'
    BY <2>1 DEF LogInv, InPlace, LinesFaithful, Faithful
  <2>4. QED
    BY <2>2, <2>3 DEF LogInv
<1>3. CASE fd' = "stderr" /\ Begin(OpenFailed, Greeting, OpenFailed.fmt, OpenFailed.args)
  <2> DEFINE c == OpenFailed
  <2>1. c.fn = "stderr" /\ c \in AllCalls
    BY LogAssumption DEF AllCalls
  <2>2. Start(c) = Greeting /\ Format(c) = c.fmt /\ Arguments(c) = c.args
    BY <2>1 DEF Start, Format, Arguments
  <2>3. Begin(c, Start(c), Format(c), Arguments(c))
    BY <1>3, <2>2
  <2>4. QED
    BY <1>1, <1>3, <2>1, <2>3, BeginKeeps
<1>4. QED
  BY <1>2, <1>3 DEF ngx_log_init

\* ngx_log_error_core keeps the invariant, whether the level is logged or not.
LEMMA CoreStep ==
  ASSUME LogInv, NEW c \in Calls, ngx_log_error_core(c)
  PROVE  LogInv'
<1>1. pc = "idle" /\ c.fn = "core" /\ fd' = fd /\ logLevel' = logLevel /\ c \in AllCalls
  BY DEF ngx_log_error_core, conf, AllCalls
<1>2. CASE c.level > logLevel
  <2>1. /\ Len(made) < MaxCalls /\ made' = Append(made, c) /\ disk' = disk /\ tty' = tty
        /\ pc' = pc /\ buf' = buf /\ lines' = lines
    BY <1>2 DEF ngx_log_error_core, env
  <2>2. /\ made' \in Seq(AllCalls) /\ Len(made') = Len(made) + 1 /\ Len(made) \in Nat
        /\ LinesFaithful' /\ lines' \in Seq(ALine) /\ Len(lines') <= Len(made)
    BY <1>1, <2>1, MadeGrows
  <2>3. Len(made') <= MaxCalls /\ Due' = Len(made') /\ Len(lines') <= Len(made')
    <3>1. MaxCalls \in Nat /\ Len(lines') \in Nat
      BY <2>2, LogAssumption
    <3>2. QED
      BY <1>1, <2>1, <2>2, <3>1 DEF Due
  <2>4. LogTypes'
    BY <1>1, <2>1, <2>2, <2>3 DEF LogInv, LogTypes
  <2>5. InPlace'
    BY <1>1, <2>1 DEF InPlace
  <2>6. QED
    BY <2>2, <2>4, <2>5 DEF LogInv
<1>3. CASE ~(c.level > logLevel)
  <2>1. Begin(c, Time, Preamble \o c.fmt, <<LevelName[c.level], Pid>> \o c.args)
    BY <1>3 DEF ngx_log_error_core
  <2>2. Start(c) = Time /\ Format(c) = Preamble \o c.fmt /\ Arguments(c) = <<LevelName[c.level], Pid>> \o c.args
    BY <1>1 DEF Start, Format, Arguments
  <2>3. fd' \in {"stdin", "file", "stderr", "closed"} /\ logLevel' \in ConfLevels \cup {0}
    BY <1>1 DEF LogInv, LogTypes
  <2>4. Begin(c, Start(c), Format(c), Arguments(c))
    BY <2>1, <2>2
  <2>5. QED
    BY <1>1, <2>3, <2>4, BeginKeeps
<1>4. QED
  BY <1>2, <1>3

\* The end of a line keeps the invariant.
LEMMA FinishStep ==
  ASSUME LogInv, Finish
  PROVE  LogInv'
<1>1. /\ pc = "format" /\ (fmt = <<>> \/ Len(buf) >= MaxLogStr) /\ pc' = "write"
      /\ fd' = fd /\ logLevel' = logLevel /\ disk' = disk /\ tty' = tty /\ made' = made /\ lines' = lines
      /\ buf' = Line(IF call.fn = "stderr" THEN WithErrno(buf, call.err) ELSE buf) /\ call' = call
  BY DEF Finish, env, conf, call
<1>2. call \in AllCalls /\ Place(call, buf, fmt, args)
  BY <1>1, CallIs DEF LogInv, InPlace
<1>3. buf' \in Seq(Char) /\ Len(buf') <= MaxLogStr /\ Faithful(call, buf')
  <2> DEFINE line == Line(IF call.fn = "stderr" THEN WithErrno(buf, call.err) ELSE buf)
  <2>1. line \in Seq(Char) /\ Len(line) <= MaxLogStr /\ line = LineOf(call)
    BY <1>1, <1>2, Finishes
  <2>2. buf' = line
    BY <1>1
  <2> HIDE DEF line
  <2>3. Faithful(call, LineOf(call))
    BY <1>2, LineOfFaithful
  <2>4. QED
    BY <2>1, <2>2, <2>3
<1>4. LogTypes'
  BY <1>1, <1>3 DEF LogInv, LogTypes, Due
<1>5. InPlace'
  BY <1>1, <1>3 DEF InPlace, Faithful
<1>6. LinesFaithful'
  BY <1>1 DEF LogInv, LinesFaithful, Faithful
<1>7. QED
  BY <1>4, <1>5, <1>6 DEF LogInv

\* The call ends, with its line or without.
LEMMA DoneKeeps ==
  ASSUME LogInv, pc = "write", Done, Written \/ UNCHANGED lines
  PROVE  LogInv'
<1>1. /\ pc' = "idle" /\ fd' = fd /\ logLevel' = logLevel /\ disk' = disk /\ tty' = tty
      /\ buf' = buf /\ made' = made
  BY DEF Done, env, conf
<1>2. /\ made \in Seq(AllCalls) /\ Len(made) > 0 /\ lines \in Seq(ALine) /\ Len(lines) <= Len(made) - 1
      /\ buf \in Seq(Char) /\ Faithful(call, buf)
  BY DEF LogInv, LogTypes, InPlace, Due
<1>3. Due' = Len(made)
  BY <1>1 DEF Due
<1>4. CASE UNCHANGED lines
  <2>1. LogTypes'
    <3>1. Len(lines') <= Due'
      BY <1>2, <1>3, <1>4
    <3>2. QED
      BY <1>1, <1>4, <3>1 DEF LogInv, LogTypes
  <2>2. InPlace' /\ LinesFaithful'
    BY <1>1, <1>4 DEF LogInv, InPlace, LinesFaithful, Faithful
  <2>3. QED
    BY <2>1, <2>2 DEF LogInv
<1>5. CASE Written
  <2> DEFINE l == [call |-> Len(made), text |-> buf]
  <2>1. l \in ALine /\ l.call = Len(made) /\ l.text = buf /\ lines' = Append(lines, l)
    BY <1>2, <1>5 DEF ALine, Written
  <2> HIDE DEF l
  <2>2. /\ lines' \in Seq(ALine) /\ Len(lines') = Len(lines) + 1 /\ Len(lines) \in Nat /\ Len(made) \in Nat
        /\ DOMAIN lines' = 1 .. Len(lines) + 1 /\ lines'[Len(lines) + 1] = l
        /\ \A i \in 1 .. Len(lines) : i \in DOMAIN lines /\ lines'[i] = lines[i]
    BY <1>2, <2>1
  <2>3. LogTypes'
    <3>1. Len(lines') <= Due'
      BY <1>2, <1>3, <2>2
    <3>2. QED
      BY <1>1, <2>2, <3>1 DEF LogInv, LogTypes
  <2>4. LinesFaithful'
    <3> SUFFICES ASSUME NEW i \in DOMAIN lines'
                 PROVE  lines'[i].call \in 1 .. Len(made') /\ Faithful(made'[lines'[i].call], lines'[i].text)
      BY DEF LinesFaithful, Faithful
    <3>1. CASE i = Len(lines) + 1
      BY <1>1, <1>2, <2>1, <2>2, <3>1 DEF call
    <3>2. CASE i # Len(lines) + 1
      <4>1. i \in 1 .. Len(lines)
        BY <2>2, <3>2
      <4>2. QED
        BY <1>1, <2>2, <4>1 DEF LogInv, LinesFaithful
    <3>3. QED
      BY <3>1, <3>2
  <2>5. InPlace'
    BY <1>1 DEF InPlace
  <2>6. QED
    BY <2>3, <2>4, <2>5 DEF LogInv
<1>6. QED
  BY <1>4, <1>5

\* What is known of a call, in every reachable state.
LEMMA LogInvariant == Spec => []LogInv
<1>1. ASSUME Init PROVE LogInv
  <2>1. /\ fd = "stdin" /\ logLevel = 0 /\ disk = "fine" /\ tty \in BOOLEAN /\ pc = "idle"
        /\ buf = <<>> /\ made = <<>> /\ lines = <<>>
    BY <1>1 DEF Init
  <2>2. MaxCalls \in Nat /\ MaxLogStr \in Nat
    BY LogAssumption
  <2>3. <<>> \in Seq(AllCalls) /\ <<>> \in Seq(ALine) /\ <<>> \in Seq(Char) /\ Len(<<>>) = 0 /\ DOMAIN <<>> = {}
    OBVIOUS
  <2>4. Due = 0
    BY <2>1, <2>3 DEF Due
  <2>5. LogTypes
    BY <2>1, <2>2, <2>3, <2>4 DEF LogTypes
  <2>6. InPlace /\ LinesFaithful
    BY <2>1, <2>3 DEF InPlace, LinesFaithful
  <2>7. QED
    BY <2>5, <2>6 DEF LogInv
<1>2. ASSUME LogInv, [Next]_vars PROVE LogInv'
  <2>1. CASE Literal
    <3>1. Looping
      BY <2>1 DEF Literal
    <3>2. QED
      BY <1>2, <2>1, <3>1, LiteralStep, TurnKeeps
  <2>2. CASE Percent
    <3>1. Looping
      BY <2>2 DEF Percent
    <3>2. QED
      BY <1>2, <2>2, <3>1, PercentStep, TurnKeeps
  <2>3. CASE Decimal
    <3>1. Looping
      BY <2>3 DEF Decimal, Directive, IsDirective
    <3>2. QED
      BY <1>2, <2>3, <3>1, DecimalStep, TurnKeeps
  <2>4. CASE Hex
    <3>1. Looping
      BY <2>4 DEF Hex, Directive, IsDirective
    <3>2. QED
      BY <1>2, <2>4, <3>1, HexStep, TurnKeeps
  <2>5. CASE Unsigned
    <3>1. Looping
      BY <2>5 DEF Unsigned, Directive, IsDirective
    <3>2. QED
      BY <1>2, <2>5, <3>1, UnsignedStep, TurnKeeps
  <2>6. CASE Text
    <3>1. Looping
      BY <2>6 DEF Text, Directive, IsDirective
    <3>2. QED
      BY <1>2, <2>6, <3>1, TextStep, TurnKeeps
  <2>7. CASE WholeFloat
    <3>1. Looping
      BY <2>7 DEF WholeFloat, Directive, IsDirective
    <3>2. QED
      BY <1>2, <2>7, <3>1, WholeFloatStep, TurnKeeps
  <2>8. CASE Float
    <3>1. Looping
      BY <2>8 DEF Float, Directive, IsDirective
    <3>2. QED
      BY <1>2, <2>8, <3>1, FloatStep, TurnKeeps, CrashKeeps
  <2>9. CASE Unknown
    <3>1. Looping
      BY <2>9 DEF Unknown, IsDirective
    <3>2. QED
      BY <1>2, <2>9, <3>1, UnknownStep, TurnKeeps
  <2>10. CASE Finish
    BY <1>2, <2>10, FinishStep
  <2>11. CASE WriteStderr
    <3>1. pc = "write" /\ Done /\ (Written \/ UNCHANGED lines)
      BY <2>11 DEF WriteStderr
    <3>2. QED
      BY <1>2, <3>1, DoneKeeps
  <2>12. CASE WriteCore
    <3>1. pc = "write" /\ Done /\ (Written \/ UNCHANGED lines)
      BY <2>12 DEF WriteCore
    <3>2. QED
      BY <1>2, <3>1, DoneKeeps
  <2>13. CASE \E c \in Calls : ngx_log_stderr(c)
    BY <1>2, <2>13, StderrStep
  <2>14. CASE \E c \in Calls : ngx_log_error_core(c)
    BY <1>2, <2>14, CoreStep
  <2>15. CASE \E level \in ConfLevels : ngx_log_init(level)
    BY <1>2, <2>15, InitStep
  <2>16. CASE FreeLog
    <3>1. /\ pc = "idle" /\ fd' = "closed" /\ logLevel' = logLevel /\ disk' = disk /\ tty' = tty /\ pc' = pc
          /\ buf' = buf /\ made' = made /\ lines' = lines
      BY <2>16 DEF FreeLog, env
    <3>2. LogTypes'
      BY <1>2, <3>1 DEF LogInv, LogTypes, Due
    <3>3. InPlace' /\ LinesFaithful'
      BY <1>2, <3>1 DEF LogInv, InPlace, LinesFaithful, Faithful
    <3>4. QED
      BY <3>2, <3>3 DEF LogInv
  <2>17. CASE DiskFails
    <3>1. /\ pc = "write" /\ disk' \in {"full", "broken"} /\ fd' = fd /\ logLevel' = logLevel /\ tty' = tty
          /\ pc' = pc /\ buf' = buf /\ made' = made /\ lines' = lines /\ call' = call
      BY <2>17 DEF DiskFails, conf, call
    <3>2. LogTypes'
      BY <1>2, <3>1 DEF LogInv, LogTypes, Due
    <3>3. InPlace' /\ LinesFaithful'
      BY <1>2, <3>1 DEF LogInv, InPlace, LinesFaithful, Faithful
    <3>4. QED
      BY <3>2, <3>3 DEF LogInv
  <2>18. CASE UNCHANGED vars
    <3>1. /\ fd' = fd /\ logLevel' = logLevel /\ disk' = disk /\ tty' = tty /\ fmt' = fmt /\ args' = args
          /\ pc' = pc /\ buf' = buf /\ made' = made /\ lines' = lines /\ call' = call
      BY <2>18 DEF vars, env, conf, call
    <3>2. LogTypes'
      BY <1>2, <3>1 DEF LogInv, LogTypes, Due
    <3>3. InPlace' /\ LinesFaithful'
      BY <1>2, <3>1 DEF LogInv, InPlace, LinesFaithful, Faithful
    <3>4. QED
      BY <3>2, <3>3 DEF LogInv
  <2>19. QED
    BY <1>2, <2>1, <2>2, <2>3, <2>4, <2>5, <2>6, <2>7, <2>8, <2>9, <2>10, <2>11, <2>12, <2>13, <2>14,
       <2>15, <2>16, <2>17, <2>18 DEF Next, InCall, vslprintf
<1>3. QED
  BY <1>1, <1>2, PTL DEF Spec

-----------------------------------------------------------------------------
(* Each call leaves its line once. *)

IsLogged(i) == made[i].fn = "stderr" \/ made[i].level <= logLevel

LineCalls == {lines[i].call : i \in DOMAIN lines}
Owed == {i \in 1 .. Due : IsLogged(i)}
InOrder == \A i, j \in DOMAIN lines : i < j => lines[i].call < lines[j].call

OnceInv ==
  /\ fd = "stdin" => \A i \in 1 .. Len(made) : made[i].fn = "stderr"
  /\ pc # "idle" => IsLogged(Len(made))
  /\ pc # "idle" /\ call.fn = "core" => fd \in {"file", "stderr"}
  /\ tty /\ disk # "full" => LineCalls = Owed /\ InOrder

\* What is owed and what was written are the two sets of EveryLineOnce.
LEMMA OnceSays == OnceInv => EveryLineOnce
<1>1. Owed = {i \in 1 .. (IF pc = "idle" THEN Len(made) ELSE Len(made) - 1) :
                made[i].fn = "stderr" \/ made[i].level <= logLevel}
  BY DEF Owed, Due, IsLogged
<1>2. QED
  BY <1>1 DEF OnceInv, EveryLineOnce, LineCalls, InOrder

\* A step that writes nothing and ends no call, nor changes what is logged.
LEMMA SameLines ==
  ASSUME OnceInv, lines' = lines, tty' = tty, disk' # "full" => disk # "full", Due' = Due,
         \A i \in 1 .. Due : IsLogged(i)' <=> IsLogged(i)
  PROVE  tty' /\ disk' # "full" => (LineCalls = Owed /\ InOrder)'
<1>1. LineCalls' = LineCalls
  BY DEF LineCalls
<1>2. InOrder' <=> InOrder
  BY DEF InOrder
<1>3. Owed' = Owed
  BY DEF Owed
<1>4. QED
  BY <1>1, <1>2, <1>3 DEF OnceInv

\* A turn of the loop, the newline, or a disk that fails.
LEMMA CallGoesOn ==
  ASSUME LogInv, OnceInv, pc # "idle", pc' # "idle", UNCHANGED <<conf, tty, made, lines>>,
         disk' # "full" => disk # "full"
  PROVE  OnceInv'
<1>1. fd' = fd /\ logLevel' = logLevel /\ tty' = tty /\ made' = made /\ lines' = lines /\ call' = call
  BY DEF conf, call
<1>2. Due' = Due
  BY <1>1 DEF Due
<1>3. \A i \in 1 .. Due : IsLogged(i)' <=> IsLogged(i)
  BY <1>1 DEF IsLogged
<1>4. IsLogged(Len(made))'
  BY <1>1 DEF OnceInv, IsLogged
<1>5. tty' /\ disk' # "full" => (LineCalls = Owed /\ InOrder)'
  BY <1>1, <1>2, <1>3, SameLines
<1>6. QED
  BY <1>1, <1>4, <1>5 DEF OnceInv

\* A call that begins is logged, and owes its line when it ends.
LEMMA BeginOnce ==
  ASSUME LogInv, OnceInv, pc = "idle", NEW c \in AllCalls, NEW b, NEW f, NEW a, Begin(c, b, f, a),
         c.fn = "stderr" \/ c.level <= logLevel',
         c.fn = "core" => fd' \in {"file", "stderr"},
         fd' = "stdin" => fd = "stdin" /\ c.fn = "stderr",
         logLevel' = logLevel \/ fd = "stdin"
  PROVE  OnceInv'
<1>1. pc' = "format" /\ made' = Append(made, c) /\ lines' = lines /\ disk' = disk /\ tty' = tty
  BY DEF Begin, env
<1>2. made \in Seq(AllCalls)
  BY DEF LogInv, LogTypes
<1>3. /\ Len(made) \in Nat /\ Len(made') = Len(made) + 1 /\ made'[Len(made')] = c
      /\ \A i \in 1 .. Len(made) : made'[i] = made[i]
  BY <1>1, <1>2
<1>4. Due = Len(made) /\ Due' = Len(made)
  BY <1>1, <1>3 DEF Due
<1>5. \A i \in 1 .. Due : IsLogged(i)' <=> IsLogged(i)
  <2>1. CASE logLevel' = logLevel
    BY <1>3, <1>4, <2>1 DEF IsLogged
  <2>2. CASE fd = "stdin"
    BY <1>3, <1>4, <2>2 DEF IsLogged, OnceInv
  <2>3. QED
    BY <2>1, <2>2
<1>6. tty' /\ disk' # "full" => (LineCalls = Owed /\ InOrder)'
  BY <1>1, <1>4, <1>5, SameLines
<1>7. IsLogged(Len(made))' /\ call' = c
  BY <1>3 DEF IsLogged, call
<1>8. fd' = "stdin" => \A i \in 1 .. Len(made') : made'[i].fn = "stderr"
  <2> SUFFICES ASSUME fd' = "stdin", NEW i \in 1 .. Len(made') PROVE made'[i].fn = "stderr"
    OBVIOUS
  <2>1. CASE i = Len(made')
    BY <1>3, <2>1
  <2>2. CASE i # Len(made')
    <3>1. i \in 1 .. Len(made)
      BY <1>3, <2>2
    <3>2. QED
      BY <1>3, <3>1 DEF OnceInv
  <2>3. QED
    BY <2>1, <2>2
<1>9. QED
  BY <1>6, <1>7, <1>8 DEF OnceInv

\* A message below the level counts as made, and owes no line.
LEMMA FilteredOnce ==
  ASSUME LogInv, OnceInv, pc = "idle", pc' = "idle", NEW c \in AllCalls,
         made' = Append(made, c), UNCHANGED <<env, conf, lines>>,
         c.fn = "core", c.level > logLevel, fd # "stdin"
  PROVE  OnceInv'
<1>1. fd' = fd /\ logLevel' = logLevel /\ lines' = lines /\ disk' = disk /\ tty' = tty
  BY DEF env, conf
<1>2. made \in Seq(AllCalls) /\ logLevel \in Int /\ c.level \in Int
  BY LogAssumption DEF LogInv, LogTypes, AllCalls
<1>3. /\ Len(made) \in Nat /\ Len(made') = Len(made) + 1 /\ made'[Len(made) + 1] = c
      /\ \A i \in 1 .. Len(made) : made'[i] = made[i]
  BY <1>2
<1>4. Due = Len(made) /\ Due' = Len(made) + 1
  BY <1>3 DEF Due
<1> PICK n : n = Len(made)
  OBVIOUS
<1>5. ~IsLogged(n + 1)'
  BY <1>1, <1>2, <1>3 DEF IsLogged
<1>6. \A i \in 1 .. n : IsLogged(i)' <=> IsLogged(i)
  BY <1>1, <1>3 DEF IsLogged
<1>7. Owed' = Owed
  <2>1. Owed' = {i \in 1 .. n + 1 : IsLogged(i)'}
    BY <1>4 DEF Owed
  <2>2. Owed = {i \in 1 .. n : IsLogged(i)}
    BY <1>4 DEF Owed
  <2>3. \A i \in 1 .. n + 1 : i \in 1 .. n \/ i = n + 1
    BY <1>3
  <2>4. \A i \in 1 .. n : i \in 1 .. n + 1
    BY <1>3
  <2>5. QED
    BY <1>5, <1>6, <2>1, <2>2, <2>3, <2>4
<1>8. LineCalls' = LineCalls /\ (InOrder' <=> InOrder)
  BY <1>1 DEF LineCalls, InOrder
<1>9. QED
  BY <1>1, <1>7, <1>8 DEF OnceInv

\* A call that ends leaves its line, or could not.
LEMMA DoneOnce ==
  ASSUME LogInv, OnceInv, pc = "write", Done, Written \/ UNCHANGED lines,
         tty /\ disk # "full" => Written
  PROVE  OnceInv'
<1>1. /\ pc' = "idle" /\ fd' = fd /\ logLevel' = logLevel /\ disk' = disk /\ tty' = tty /\ made' = made
  BY DEF Done, env, conf
<1>2. made \in Seq(AllCalls) /\ Len(made) > 0 /\ Len(made) \in Nat /\ lines \in Seq(ALine)
  BY DEF LogInv, LogTypes
<1>3. Due = Len(made) - 1 /\ Due' = Len(made)
  BY <1>1 DEF Due
<1>4. \A i : IsLogged(i)' <=> IsLogged(i)
  BY <1>1 DEF IsLogged
<1>5. ASSUME tty, disk # "full" PROVE (LineCalls = Owed /\ InOrder)'
  <2>1. LineCalls = Owed /\ InOrder /\ IsLogged(Len(made))
    BY <1>5 DEF OnceInv
  <2> DEFINE l == [call |-> Len(made), text |-> buf]
             n == Len(lines)
  <2>2. l.call = Len(made) /\ lines' = Append(lines, l) /\ l \in ALine
    BY <1>2, <1>5 DEF Written, ALine, LogInv, LogTypes
  <2> HIDE DEF l
  <2>3. /\ n \in Nat /\ DOMAIN lines = 1 .. n /\ DOMAIN lines' = 1 .. n + 1
        /\ lines'[n + 1] = l /\ \A i \in 1 .. n : lines'[i] = lines[i]
    BY <1>2, <2>2
  <2>4. LineCalls' = LineCalls \cup {Len(made)}
    <3>1. \A i \in 1 .. n + 1 : i \in 1 .. n \/ i = n + 1
      BY <2>3
    <3>2. n + 1 \in 1 .. n + 1 /\ \A i \in 1 .. n : i \in 1 .. n + 1
      BY <2>3
    <3> HIDE DEF n
    <3>3. QED
      BY <2>2, <2>3, <3>1, <3>2 DEF LineCalls
  <2>5. Owed' = Owed \cup {Len(made)}
    <3>1. Owed' = {i \in 1 .. Len(made) : IsLogged(i)}
      BY <1>3, <1>4 DEF Owed
    <3>2. Owed = {i \in 1 .. Len(made) - 1 : IsLogged(i)}
      BY <1>3 DEF Owed
    <3>3. \A i \in 1 .. Len(made) : i \in 1 .. Len(made) - 1 \/ i = Len(made)
      BY <1>2
    <3>4. Len(made) \in 1 .. Len(made) /\ \A i \in 1 .. Len(made) - 1 : i \in 1 .. Len(made)
      BY <1>2
    <3>5. QED
      BY <2>1, <3>1, <3>2, <3>3, <3>4
  <2>6. \A i \in 1 .. n : lines[i].call < Len(made) /\ lines[i].call \in Int
    <3> SUFFICES ASSUME NEW i \in 1 .. n PROVE lines[i].call < Len(made) /\ lines[i].call \in Int
      OBVIOUS
    <3>1. lines[i].call \in LineCalls
      BY <2>3 DEF LineCalls
    <3>2. lines[i].call \in 1 .. Len(made) - 1
      BY <1>3, <2>1, <3>1 DEF Owed
    <3>3. QED
      BY <1>2, <3>2
  <2>7. InOrder'
    <3> SUFFICES ASSUME NEW i \in 1 .. n + 1, NEW j \in 1 .. n + 1, i < j
                 PROVE  lines'[i].call < lines'[j].call
      BY <2>3 DEF InOrder
    <3>1. i \in 1 .. n
      BY <2>3
    <3>2. CASE j = n + 1
      <4>1. lines'[j] = l
        BY <2>3, <3>2
      <4>2. lines'[i] = lines[i]
        BY <2>3, <3>1
      <4>3. lines'[j].call = Len(made)
        BY <2>2, <4>1
      <4>4. QED
        BY <2>6, <3>1, <4>2, <4>3
    <3>3. CASE j # n + 1
      <4>1. j \in 1 .. n
        BY <2>3, <3>3
      <4>2. QED
        BY <2>1, <2>3, <3>1, <4>1 DEF InOrder
    <3>4. QED
      BY <3>2, <3>3
  <2>8. QED
    BY <2>1, <2>4, <2>5, <2>7
<1>6. QED
  BY <1>1, <1>5 DEF OnceInv

\* Every call at a level that is logged leaves its line: with what decides it.
LEMMA OnceInvariant == Spec => []OnceInv
<1>1. ASSUME Init PROVE OnceInv
  <2>1. fd = "stdin" /\ pc = "idle" /\ made = <<>> /\ lines = <<>>
    BY <1>1 DEF Init
  <2>2. 1 .. Len(made) = {} /\ DOMAIN lines = {} /\ Due = 0
    BY <2>1 DEF Due
  <2>3. LineCalls = {} /\ Owed = {} /\ InOrder
    BY <2>2 DEF LineCalls, Owed, InOrder
  <2>4. QED
    BY <2>1, <2>2, <2>3 DEF OnceInv
<1>2. ASSUME LogInv, OnceInv, [Next]_vars PROVE OnceInv'
  <2>1. CASE vslprintf
    <3>1. /\ pc = "format" /\ pc' \in {"format", "crashed"}
          /\ UNCHANGED <<env, conf, made, lines>>
      <4>1. CASE Literal
        BY <4>1 DEF Literal, Looping, env, conf
      <4>2. CASE Percent
        BY <4>2 DEF Percent, Looping, env, conf
      <4>3. CASE Decimal
        BY <4>3 DEF Decimal, Directive, IsDirective, Looping, Put, env, conf
      <4>4. CASE Hex
        BY <4>4 DEF Hex, Directive, IsDirective, Looping, Put, env, conf
      <4>5. CASE Unsigned
        BY <4>5 DEF Unsigned, Directive, IsDirective, Looping, Put, env, conf
      <4>6. CASE Text
        BY <4>6 DEF Text, Directive, IsDirective, Looping, Put, env, conf
      <4>7. CASE WholeFloat
        BY <4>7 DEF WholeFloat, Directive, IsDirective, Looping, Put, env, conf
      <4>8. CASE Float
        BY <4>8 DEF Float, Directive, IsDirective, Looping, Put, env, conf
      <4>9. CASE Unknown
        BY <4>9 DEF Unknown, IsDirective, Looping, env, conf
      <4>10. QED
        BY <2>1, <4>1, <4>2, <4>3, <4>4, <4>5, <4>6, <4>7, <4>8, <4>9 DEF vslprintf
    <3>2. pc # "idle" /\ pc' # "idle" /\ UNCHANGED <<conf, tty, made, lines>> /\ disk' = disk
      BY <3>1 DEF env
    <3>3. QED
      BY <1>2, <3>2, CallGoesOn
  <2>2. CASE Finish
    <3>1. pc # "idle" /\ pc' # "idle" /\ UNCHANGED <<conf, tty, made, lines>> /\ disk' = disk
      BY <2>2 DEF Finish, env
    <3>2. QED
      BY <1>2, <3>1, CallGoesOn
  <2>3. CASE WriteStderr
    <3>1. /\ pc = "write" /\ Done /\ (Written \/ UNCHANGED lines)
          /\ tty /\ disk # "full" => Written
      BY <2>3 DEF WriteStderr
    <3>2. QED
      BY <1>2, <3>1, DoneOnce
  <2>4. CASE WriteCore
    <3>1. pc = "write" /\ Done /\ (Written \/ UNCHANGED lines)
      BY <2>4 DEF WriteCore
    <3>2. fd \in {"file", "stderr"} /\ disk \in {"fine", "full", "broken"}
      BY <1>2, <2>4 DEF WriteCore, OnceInv, LogInv, LogTypes
    <3>3. tty /\ disk # "full" => Written
      BY <2>4, <3>2 DEF WriteCore
    <3>4. QED
      BY <1>2, <3>1, <3>3, DoneOnce
  <2>5. CASE \E c \in Calls : ngx_log_stderr(c)
    <3>1. PICK c \in Calls : ngx_log_stderr(c)
      BY <2>5
    <3>2. /\ pc = "idle" /\ c.fn = "stderr" /\ c \in AllCalls /\ Begin(c, Greeting, c.fmt, c.args)
          /\ fd' = fd /\ logLevel' = logLevel
      BY <3>1 DEF ngx_log_stderr, conf, AllCalls
    <3>3. c.fn # "core"
      BY <3>2
    <3>4. QED
      BY <1>2, <3>2, <3>3, BeginOnce
  <2>6. CASE \E c \in Calls : ngx_log_error_core(c)
    <3>1. PICK c \in Calls : ngx_log_error_core(c)
      BY <2>6
    <3>2. /\ pc = "idle" /\ fd \in {"file", "stderr"} /\ c.fn = "core" /\ c \in AllCalls
          /\ fd' = fd /\ logLevel' = logLevel
      BY <3>1 DEF ngx_log_error_core, conf, AllCalls
    <3>3. c.level \in Int /\ logLevel \in Int
      BY <1>2, <3>2, LogAssumption DEF LogInv, LogTypes, AllCalls
    <3>4. CASE c.level > logLevel
      <4>1. made' = Append(made, c) /\ pc' = "idle" /\ UNCHANGED <<env, conf, lines>>
        BY <3>1, <3>2, <3>4 DEF ngx_log_error_core
      <4>2. QED
        BY <1>2, <3>2, <3>4, <4>1, FilteredOnce
    <3>5. CASE ~(c.level > logLevel)
      <4>1. Begin(c, Time, Preamble \o c.fmt, <<LevelName[c.level], Pid>> \o c.args)
        BY <3>1, <3>5 DEF ngx_log_error_core
      <4>2. c.level <= logLevel'
        BY <3>2, <3>3, <3>5
      <4>3. fd' \in {"file", "stderr"} /\ fd' # "stdin"
        BY <3>2
      <4>4. QED
        BY <1>2, <3>2, <4>1, <4>2, <4>3, BeginOnce
    <3>6. QED
      BY <3>4, <3>5
  <2>7. CASE \E level \in ConfLevels : ngx_log_init(level)
    <3>1. PICK level \in ConfLevels : ngx_log_init(level)
      BY <2>7
    <3>2. pc = "idle" /\ fd = "stdin"
      BY <3>1 DEF ngx_log_init
    <3>3. CASE fd' = "file" /\ UNCHANGED <<env, pc, buf, fmt, args, made, lines>>
      <4>1. fd' = "file" /\ pc' = "idle" /\ made' = made /\ lines' = lines /\ tty' = tty /\ disk' = disk
        BY <3>2, <3>3 DEF env
      <4>2. Due = Len(made) /\ Due' = Due
        BY <3>2, <4>1 DEF Due
      <4>3. \A i \in 1 .. Due : IsLogged(i)' <=> IsLogged(i)
        BY <1>2, <3>2, <4>1, <4>2 DEF IsLogged, OnceInv
      <4>4. tty' /\ disk' # "full" => (LineCalls = Owed /\ InOrder)'
        BY <1>2, <4>1, <4>2, <4>3, SameLines
      <4>5. QED
        BY <4>1, <4>4 DEF OnceInv
    <3>4. CASE fd' = "stderr" /\ Begin(OpenFailed, Greeting, OpenFailed.fmt, OpenFailed.args)
      <4>1. OpenFailed.fn = "stderr" /\ OpenFailed.fn # "core" /\ OpenFailed \in AllCalls /\ fd' # "stdin"
        BY <3>4, LogAssumption DEF AllCalls
      <4>2. QED
        BY <1>2, <3>2, <3>4, <4>1, BeginOnce
    <3>5. QED
      BY <3>1, <3>3, <3>4 DEF ngx_log_init
  <2>8. CASE FreeLog
    <3>1. /\ pc = "idle" /\ fd' = "closed" /\ logLevel' = logLevel /\ disk' = disk /\ tty' = tty
          /\ pc' = pc /\ made' = made /\ lines' = lines
      BY <2>8 DEF FreeLog, env
    <3>2. Due' = Due /\ \A i \in 1 .. Due : IsLogged(i)' <=> IsLogged(i)
      BY <3>1 DEF Due, IsLogged
    <3>3. tty' /\ disk' # "full" => (LineCalls = Owed /\ InOrder)'
      BY <1>2, <3>1, <3>2, SameLines
    <3>4. QED
      BY <3>1, <3>3 DEF OnceInv
  <2>9. CASE DiskFails
    <3>1. pc # "idle" /\ pc' # "idle" /\ UNCHANGED <<conf, tty, made, lines>> /\ disk # "full"
      BY <2>9 DEF DiskFails
    <3>2. QED
      BY <1>2, <3>1, CallGoesOn
  <2>10. CASE UNCHANGED vars
    <3>1. /\ fd' = fd /\ logLevel' = logLevel /\ disk' = disk /\ tty' = tty
          /\ pc' = pc /\ made' = made /\ lines' = lines /\ call' = call
      BY <2>10 DEF vars, env, conf, call
    <3>2. Due' = Due /\ \A i : IsLogged(i)' <=> IsLogged(i)
      BY <3>1 DEF Due, IsLogged
    <3>3. tty' /\ disk' # "full" => (LineCalls = Owed /\ InOrder)'
      BY <1>2, <3>1, <3>2, SameLines
    <3>4. IsLogged(Len(made))' <=> IsLogged(Len(made))
      BY <3>1 DEF IsLogged
    <3>5. QED
      BY <1>2, <3>1, <3>3, <3>4 DEF OnceInv
  <2>11. QED
    BY <1>2, <2>1, <2>2, <2>3, <2>4, <2>5, <2>6, <2>7, <2>8, <2>9, <2>10 DEF Next, InCall
<1>3. QED
  BY <1>1, <1>2, LogInvariant, PTL DEF Spec

-----------------------------------------------------------------------------
(* What is proved of the log. *)

\* The log's variables keep their types, no more lines are written than calls
\* were made, and no more calls made than the bound.
THEOREM LogTypeCorrect == Spec => []TypeOK
<1>1. ASSUME LogInv PROVE TypeOK
  <2>1. made \in Seq(AllCalls) /\ lines \in Seq(ALine) /\ Len(lines) <= Due /\ (pc # "idle" => Len(made) > 0)
    BY <1>1 DEF LogInv, LogTypes
  <2>2. Len(made) \in Nat /\ Len(lines) \in Nat
    BY <2>1
  <2>3. Len(lines) <= Len(made)
    BY <2>1, <2>2 DEF Due
  <2>4. QED
    BY <1>1, <2>3 DEF TypeOK, LogInv, LogTypes
<1>2. QED
  BY <1>1, LogInvariant, PTL

\* A line that ngx_log_stderr or ngx_log_error_core wrote is what the call's format
\* and arguments ask for, cut to the buffer, with its newline and with the text of
\* errno whole or not at all: whatever the items of the format, their number and
\* order, the size of the buffer and the calls before.  The code misses it in four
\* ways, and in no other: errno of ngx_log_error_core, which is lost and nothing
\* with it, the sign before a width, the zeros of a fraction, and a carry into a
\* width or past 16 bits.
THEOREM LinesAreFaithful == Spec => []LineFaithful
<1>1. ASSUME LogInv PROVE LineFaithful
  BY <1>1 DEF LogInv, LinesFaithful, LineFaithful, Faithful, Misprinted
<1>2. QED
  BY <1>1, LogInvariant, PTL

\* ngx_vslprintf, ngx_log_errno and the newline do not leave errstr, but for the '.'
\* of a float that is due at its end or behind, put without a test.
THEOREM BufferIsKept == Spec => []OverrunOnlyAtPoint
<1>1. ASSUME LogInv PROVE OverrunOnlyAtPoint
  BY <1>1 DEF LogInv, LogTypes, InPlace, OverrunOnlyAtPoint
<1>2. QED
  BY <1>1, LogInvariant, PTL

\* While stderr can be written and the disk is not full, each call of the log at
\* a level that is logged leaves one line, and the lines stand in the order of
\* the calls, whichever of the file and stderr each went to.
THEOREM LoggedOnce == Spec => []EveryLineOnce
<1>1. OnceInv => EveryLineOnce
  BY OnceSays
<1>2. QED
  BY <1>1, OnceInvariant, PTL
=============================================================================
