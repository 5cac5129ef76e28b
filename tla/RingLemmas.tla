----------------------------- MODULE RingLemmas -----------------------------
(***************************************************************************)
(* Facts about ring buffers whose indices are unsigned ints that are never *)
(* reduced to the size of the ring, but wrap around by themselves: those   *)
(* of kernel/pipe.c and kernel/console.c.                                  *)
(***************************************************************************)
EXTENDS Integers, Sequences, SequenceTheorems, TLAPS

CONSTANTS N,     \* slots of the ring
          U,     \* an index is in 0..U - 1
          Elem   \* what a slot may hold

\* Wrapping is harmless only if the size divides the range of an index.
RingSizes == N \in Nat \ {0} /\ U \in Nat /\ U % N = 0 /\ U > N

\* The elements in the ring: m of them from position r on.
Ring(d, i, m) == [k \in 1..m |-> d[(i + k - 1) % N]]

\* The difference of two indices without %.
Count(i, j) == IF j >= i THEN j - i ELSE j - i + U

\* The successor and the predecessor of an index.
Succ(i) == IF i + 1 = U THEN 0 ELSE i + 1
Pred(i) == IF i = 0 THEN U - 1 ELSE i - 1
-----------------------------------------------------------------------------
\* Division with remainder.
LEMMA DivMod ==
  ASSUME RingSizes, NEW x \in Int
  PROVE  \E q \in Int, i \in 0..(N - 1) : x = N * q + i /\ x % N = i
  BY DEF RingSizes

\* The remainder is unique.
LEMMA ModUnique ==
  ASSUME RingSizes, NEW q \in Int, NEW i \in 0..(N - 1)
  PROVE  (N * q + i) % N = i
  BY DEF RingSizes

\* The wrap of an index does not move it in the ring.
LEMMA WrapKeepsPosition ==
  ASSUME RingSizes, NEW x \in Int
  PROVE  (x + U) % N = x % N
  <1> USE DEF RingSizes
  <1>1. PICK q \in Int, i \in 0..(N - 1) : x = N * q + i /\ x % N = i
    BY DivMod
  <1>2. PICK u \in Int : U = N * u
    <2>1. U \in Int
      OBVIOUS
    <2>2. PICK u \in Int, s \in 0..(N - 1) : U = N * u + s /\ U % N = s
      BY <2>1, DivMod
    <2> QED BY <2>2
  <1>3. x + U = N * (q + u) + i
    <2>1. N * (q + u) = N * q + N * u
      OBVIOUS
    <2> QED BY <2>1, <1>1, <1>2
  <1>4. (N * (q + u) + i) % N = i
    BY ModUnique
  <1> QED BY <1>1, <1>3, <1>4

\* Indices less than N apart have different positions.
LEMMA PositionsDiffer ==
  ASSUME RingSizes, NEW x \in Nat, NEW y \in Nat, x < y, y < x + N
  PROVE  x % N # y % N
  <1>0. x \in Int /\ y \in Int
    OBVIOUS
  <1>1. PICK q \in Int, i \in 0..(N - 1) : x = N * q + i /\ x % N = i
    BY <1>0, DivMod
  <1>2. PICK p \in Int, s \in 0..(N - 1) : y = N * p + s /\ y % N = s
    BY <1>0, DivMod
  <1> USE DEF RingSizes
  <1>3. ASSUME i = s PROVE FALSE
    <2>1. y - x = N * (p - q)
      <3>1. N * (p - q) = N * p - N * q
        OBVIOUS
      <3> QED BY <3>1, <1>1, <1>2, <1>3
    <2> DEFINE d == p - q
    <2>2. d \in Int
      OBVIOUS
    <2> HIDE DEF d
    <2>3. 0 < N * d /\ N * d < N
      <3>1. 0 < y - x /\ y - x < N
        OBVIOUS
      <3> QED BY <3>1, <2>1 DEF d
    <2> QED BY <2>2, <2>3
  <1> QED BY <1>1, <1>2, <1>3

\* What % computes near the range of an index.
LEMMA IndexMod ==
  ASSUME RingSizes, NEW x \in (-U)..(2 * U - 1)
  PROVE  x % U = IF x < 0 THEN x + U ELSE IF x < U THEN x ELSE x - U
  BY DEF RingSizes

\* nwrite - nread, nread + 1 and the test for a full pipe.
LEMMA CounterFacts ==
  ASSUME RingSizes, NEW i \in 0..(U - 1), NEW j \in 0..(U - 1)
  PROVE  /\ (j - i) % U = Count(i, j)
         /\ (i + 1) % U = Succ(i) /\ Succ(i) \in 0..(U - 1)
         /\ j = (i + N) % U <=> Count(i, j) = N
         /\ i = j <=> Count(i, j) = 0
         /\ Count(i, j) \in 0..(U - 1)
  <1> USE DEF RingSizes
  <1>1. PICK x \in (-U)..(2 * U - 1) : x = j - i
    OBVIOUS
  <1>2. (j - i) % U = Count(i, j)
    BY <1>1, IndexMod DEF Count
  <1>3. PICK y \in (-U)..(2 * U - 1) : y = i + 1
    OBVIOUS
  <1>4. (i + 1) % U = Succ(i)
    BY <1>3, IndexMod DEF Succ
  <1>5. PICK z \in (-U)..(2 * U - 1) : z = i + N
    OBVIOUS
  <1>6. z % U = IF z < U THEN z ELSE z - U
    BY <1>5, IndexMod
  <1>7. j = (i + N) % U <=> Count(i, j) = N
    BY <1>5, <1>6 DEF Count
  <1> QED BY <1>2, <1>4, <1>7 DEF Count, Succ

\* The difference after a byte is written, and after one is read.
LEMMA CountSteps ==
  ASSUME RingSizes, NEW i \in 0..(U - 1), NEW j \in 0..(U - 1)
  PROVE  /\ Count(i, j) < U - 1 => Count(i, Succ(j)) = Count(i, j) + 1
         /\ Count(i, j) > 0 => Count(Succ(i), j) = Count(i, j) - 1
  BY DEF RingSizes, Count, Succ

\* Every integer has a position in the ring.
LEMMA PositionInRing ==
  ASSUME RingSizes, NEW x \in Int
  PROVE  x % N \in 0..(N - 1)
  BY DivMod DEF RingSizes

\* What Ring is.
RingFacts(d, i, m) ==
  /\ Ring(d, i, m) \in Seq(Elem) /\ Len(Ring(d, i, m)) = m
  /\ \A k \in 1..m : Ring(d, i, m)[k] = d[(i + k - 1) % N]

\* Ring is a sequence of m elements.
LEMMA RingSeq ==
  ASSUME RingSizes, NEW d \in [0..(N - 1) -> Elem], NEW i \in 0..(U - 1), NEW m \in Nat
  PROVE  RingFacts(d, i, m)
  <1> USE DEF RingSizes
  <1>1. ASSUME NEW k \in 1..m
        PROVE  d[(i + k - 1) % N] \in Elem
    <2>1. PICK x \in Int : x = i + k - 1
      OBVIOUS
    <2>2. x % N \in 0..(N - 1)
      BY Zenon, PositionInRing
    <2> QED BY <2>1, <2>2
  <1>2. Ring(d, i, m) \in [1..m -> Elem]
    BY <1>1 DEF Ring
  <1> QED BY <1>2 DEF Ring, RingFacts

\* A byte stored at nwrite joins the bytes that are there.
LEMMA RingPut ==
  ASSUME RingSizes, NEW d \in [0..(N - 1) -> Elem], NEW i \in 0..(U - 1),
         NEW j \in 0..(U - 1), NEW b \in Elem, Count(i, j) < N
  PROVE  Ring([d EXCEPT ![j % N] = b], i, Count(i, j) + 1)
           = Append(Ring(d, i, Count(i, j)), b)
  <1> USE DEF RingSizes
  <1> DEFINE m == Count(i, j)
             g == [d EXCEPT ![j % N] = b]
             s == Ring(g, i, m + 1)
             t == Append(Ring(d, i, m), b)
  <1>1. m \in Nat /\ (i + m = j \/ i + m = j + U)
    BY DEF Count
  <1>2. j % N \in 0..(N - 1) /\ (i + m) % N = j % N
    <2>1. j % N \in 0..(N - 1)
      BY PositionInRing
    <2>2. j \in Int /\ (j + U) % N = j % N
      BY WrapKeepsPosition
    <2> QED BY Zenon, <2>1, <2>2, <1>1
  <1>3. g \in [0..(N - 1) -> Elem]
    BY <1>2
  <1> HIDE DEF m
  <1>4. s \in Seq(Elem) /\ Len(s) = m + 1 /\ \A k \in 1..(m + 1) : s[k] = g[(i + k - 1) % N]
    <2>1. m + 1 \in Nat
      BY <1>1
    <2> HIDE DEF g
    <2>2. RingFacts(g, i, m + 1)
      BY <2>1, <1>3, RingSeq
    <2> QED BY <2>2 DEF RingFacts
  <1>5. /\ Ring(d, i, m) \in Seq(Elem) /\ Len(Ring(d, i, m)) = m
        /\ \A k \in 1..m : Ring(d, i, m)[k] = d[(i + k - 1) % N]
    <2>1. RingFacts(d, i, m)
      BY <1>1, RingSeq
    <2> QED BY <2>1 DEF RingFacts
  <1>6. /\ t \in Seq(Elem) /\ Len(t) = m + 1 /\ t[m + 1] = b
        /\ \A k \in 1..m : t[k] = Ring(d, i, m)[k]
    BY <1>5, AppendProperties
  <1> HIDE DEF s, t
  <1>7. ASSUME NEW k \in 1..(m + 1)
        PROVE  s[k] = t[k]
    <2>1. CASE k = m + 1
      <3>1. i + k - 1 = i + m
        BY <2>1, <1>1
      <3> QED BY <2>1, <3>1, <1>1, <1>2, <1>4, <1>6
    <2>2. CASE k # m + 1
      <3>1. k \in 1..m /\ i + k - 1 \in Nat /\ i + m \in Nat /\ i + k - 1 < i + m
            /\ i + m < i + k - 1 + N
        BY <2>2, <1>1 DEF m
      <3>2. (i + k - 1) % N # j % N
        BY Zenon, <3>1, <1>2, PositionsDiffer
      <3>3. (i + k - 1) % N \in 0..(N - 1)
        <4>1. PICK x \in Int : x = i + k - 1
          BY <3>1
        <4> QED BY Zenon, <4>1, PositionInRing
      <3>4. g[(i + k - 1) % N] = d[(i + k - 1) % N]
        BY <3>2, <3>3
      <3> QED BY <3>1, <3>4, <1>4, <1>5, <1>6
    <2> QED BY <2>1, <2>2
  <1>8. s = t
    BY <1>4, <1>6, <1>7, SeqEqual
  <1> QED BY Zenon, <1>8 DEF s, t, m

\* A byte taken at nread leaves the others.
LEMMA RingGet ==
  ASSUME RingSizes, NEW d \in [0..(N - 1) -> Elem], NEW i \in 0..(U - 1), NEW m \in Nat, m > 0
  PROVE  Ring(d, Succ(i), m - 1) = Tail(Ring(d, i, m))
  <1> USE DEF RingSizes
  <1> DEFINE s == Ring(d, Succ(i), m - 1)
             t == Ring(d, i, m)
  <1>1. Succ(i) \in 0..(U - 1) /\ m - 1 \in Nat
    BY DEF Succ
  <1>2. s \in Seq(Elem) /\ Len(s) = m - 1 /\ \A k \in 1..(m - 1) : s[k] = d[(Succ(i) + k - 1) % N]
    <2>1. RingFacts(d, Succ(i), m - 1)
      BY <1>1, RingSeq
    <2> QED BY <2>1 DEF RingFacts
  <1>3. t \in Seq(Elem) /\ Len(t) = m /\ \A k \in 1..m : t[k] = d[(i + k - 1) % N]
    <2>1. RingFacts(d, i, m)
      BY RingSeq
    <2> QED BY <2>1 DEF RingFacts
  <1> HIDE DEF s, t
  <1>4. t # <<>>
    BY <1>3
  <1>5. Tail(t) \in Seq(Elem) /\ Len(Tail(t)) = m - 1 /\ \A k \in 1..(m - 1) : Tail(t)[k] = t[k + 1]
    BY <1>3, <1>4, HeadTailProperties
  <1>6. ASSUME NEW k \in 1..(m - 1)
        PROVE  s[k] = Tail(t)[k]
    <2>1. k + 1 \in 1..m /\ Tail(t)[k] = t[k + 1]
      BY <1>5
    <2>2. t[k + 1] = d[(i + (k + 1) - 1) % N]
      BY <2>1, <1>3
    <2>3. (i + (k + 1) - 1) % N = (Succ(i) + k - 1) % N
      <3>1. CASE i + 1 = U
        <4>1. Succ(i) + k - 1 \in Int /\ Succ(i) + k - 1 + U = i + (k + 1) - 1
          BY <3>1 DEF Succ
        <4> QED BY Zenon, <4>1, WrapKeepsPosition
      <3>2. CASE i + 1 # U
        <4>1. Succ(i) + k - 1 = i + (k + 1) - 1
          BY <3>2 DEF Succ
        <4> QED BY <4>1
      <3> QED BY <3>1, <3>2
    <2> QED BY Zenon, <2>1, <2>2, <2>3, <1>2
  <1>7. s = Tail(t)
    BY <1>2, <1>5, <1>6, SeqEqual
  <1> QED BY <1>7 DEF s, t

\* Unsigned subtraction, and a step back.
LEMMA MinusFacts ==
  ASSUME RingSizes, NEW i \in 0..(U - 1), NEW j \in 0..(U - 1)
  PROVE  /\ (j + U - i) % U = Count(i, j)
         /\ (j + U - 1) % U = Pred(j) /\ Pred(j) \in 0..(U - 1)
         /\ Count(i, j) > 0 => Count(i, Pred(j)) = Count(i, j) - 1
  <1> USE DEF RingSizes
  <1>1. PICK x \in (-U)..(2 * U - 1) : x = j + U - i
    OBVIOUS
  <1>2. x % U = IF x < 0 THEN x + U ELSE IF x < U THEN x ELSE x - U
    BY IndexMod
  <1>3. PICK y \in (-U)..(2 * U - 1) : y = j + U - 1
    OBVIOUS
  <1>4. y % U = IF y < 0 THEN y + U ELSE IF y < U THEN y ELSE y - U
    BY IndexMod
  <1>5. (j + U - i) % U = Count(i, j)
    BY <1>1, <1>2 DEF Count
  <1>6. (j + U - 1) % U = Pred(j)
    BY <1>3, <1>4 DEF Pred
  <1> QED BY <1>5, <1>6 DEF Count, Pred

\* Distances add up along the ring.
LEMMA CountSplit ==
  ASSUME RingSizes, NEW i \in 0..(U - 1), NEW j \in 0..(U - 1), NEW g \in 0..(U - 1),
         Count(i, j) <= Count(i, g)
  PROVE  Count(i, g) = Count(i, j) + Count(j, g)
  BY DEF RingSizes, Count

\* The ring without its last element.
LEMMA RingDrop ==
  ASSUME RingSizes, NEW d \in [0..(N - 1) -> Elem], NEW i \in 0..(U - 1), NEW m \in Nat, m > 0
  PROVE  Ring(d, i, m - 1) = SubSeq(Ring(d, i, m), 1, m - 1)
  <1> DEFINE s == Ring(d, i, m - 1)
             t == Ring(d, i, m)
  <1>1. m - 1 \in Nat
    OBVIOUS
  <1>2. s \in Seq(Elem) /\ Len(s) = m - 1 /\ \A k \in 1..(m - 1) : s[k] = d[(i + k - 1) % N]
    <2>1. RingFacts(d, i, m - 1)
      BY <1>1, RingSeq
    <2> QED BY <2>1 DEF RingFacts
  <1>3. t \in Seq(Elem) /\ Len(t) = m /\ \A k \in 1..m : t[k] = d[(i + k - 1) % N]
    <2>1. RingFacts(d, i, m)
      BY RingSeq
    <2> QED BY <2>1 DEF RingFacts
  <1> HIDE DEF s, t
  <1>4. \A k \in 1..(m - 1) : t[k] \in Elem
    BY <1>3
  <1>5. /\ SubSeq(t, 1, m - 1) \in Seq(Elem) /\ Len(SubSeq(t, 1, m - 1)) = m - 1
        /\ \A k \in 1..(m - 1) : SubSeq(t, 1, m - 1)[k] = t[k]
    BY <1>1, <1>4, SubSeqProperties
  <1>6. \A k \in 1..(m - 1) : s[k] = SubSeq(t, 1, m - 1)[k]
    BY <1>2, <1>3, <1>5
  <1>7. s = SubSeq(t, 1, m - 1)
    BY <1>2, <1>5, <1>6, SeqEqual
  <1> QED BY <1>7 DEF s, t

\* A store behind the elements leaves them alone.
LEMMA RingKeep ==
  ASSUME RingSizes, NEW d \in [0..(N - 1) -> Elem], NEW i \in 0..(U - 1), NEW j \in 0..(U - 1),
         NEW b \in Elem, NEW m \in Nat, m <= Count(i, j), Count(i, j) < N
  PROVE  Ring([d EXCEPT ![j % N] = b], i, m) = Ring(d, i, m)
  <1> USE DEF RingSizes
  <1> DEFINE c == Count(i, j)
  <1>1. c \in Nat /\ (i + c = j \/ i + c = j + U)
    BY DEF Count
  <1>2. (i + c) % N = j % N
    <2>1. j \in Int /\ (j + U) % N = j % N
      BY WrapKeepsPosition
    <2> QED BY Zenon, <2>1, <1>1
  <1>3. m <= c /\ c < N
    OBVIOUS
  <1> HIDE DEF c
  <1>4. ASSUME NEW k \in 1..m
        PROVE  [d EXCEPT ![j % N] = b][(i + k - 1) % N] = d[(i + k - 1) % N]
    <2>1. i + k - 1 \in Nat /\ i + c \in Nat /\ i + k - 1 < i + c /\ i + c < i + k - 1 + N
      BY <1>1, <1>3
    <2>2. (i + k - 1) % N # j % N
      BY Zenon, <2>1, <1>2, PositionsDiffer
    <2>3. (i + k - 1) % N \in 0..(N - 1)
      <3>1. PICK x \in Int : x = i + k - 1
        BY <2>1
      <3> QED BY Zenon, <3>1, PositionInRing
    <2> QED BY <2>2, <2>3
  <1> QED BY Zenon, <1>4 DEF Ring

\* A stretch of the ring is two stretches, one after the other.
LEMMA RingConcat ==
  ASSUME RingSizes, NEW d \in [0..(N - 1) -> Elem], NEW i \in 0..(U - 1), NEW j \in 0..(U - 1),
         NEW m \in Nat
  PROVE  Ring(d, i, Count(i, j) + m) = Ring(d, i, Count(i, j)) \o Ring(d, j, m)
  <1> USE DEF RingSizes
  <1> DEFINE c == Count(i, j)
             s == Ring(d, i, c + m)
             t == Ring(d, i, c)
             v == Ring(d, j, m)
  <1>1. c \in Nat /\ c + m \in Nat /\ (i + c = j \/ i + c = j + U)
    BY DEF Count
  <1> HIDE DEF c
  <1>2. s \in Seq(Elem) /\ Len(s) = c + m /\ \A k \in 1..(c + m) : s[k] = d[(i + k - 1) % N]
    <2>1. RingFacts(d, i, c + m)
      BY <1>1, RingSeq
    <2> QED BY <2>1 DEF RingFacts
  <1>3. t \in Seq(Elem) /\ Len(t) = c /\ \A k \in 1..c : t[k] = d[(i + k - 1) % N]
    <2>1. RingFacts(d, i, c)
      BY <1>1, RingSeq
    <2> QED BY <2>1 DEF RingFacts
  <1>4. v \in Seq(Elem) /\ Len(v) = m /\ \A k \in 1..m : v[k] = d[(j + k - 1) % N]
    <2>1. RingFacts(d, j, m)
      BY RingSeq
    <2> QED BY <2>1 DEF RingFacts
  <1> HIDE DEF s, t, v
  <1> DEFINE u == t \o v
  <1>5. u \in Seq(Elem) /\ Len(u) = c + m /\ \A k \in 1..(c + m) : u[k] = IF k <= c THEN t[k] ELSE v[k - c]
    BY <1>3, <1>4, ConcatProperties
  <1> HIDE DEF u
  <1>6. ASSUME NEW k \in 1..(c + m)
        PROVE  s[k] = u[k]
    <2>0. k \in Int /\ c \in Int
      BY <1>1
    <2>1. CASE k <= c
      <3>1. k \in 1..c
        BY <2>0, <2>1
      <3> QED BY <3>1, <2>1, <1>2, <1>3, <1>5
    <2>2. CASE ~(k <= c)
      <3>1. k - c \in 1..m
        BY <2>0, <2>2
      <3>2. u[k] = v[k - c]
        BY <2>2, <1>5
      <3>3. v[k - c] = d[(j + (k - c) - 1) % N]
        BY Zenon, <3>1, <1>4
      <3>4. (j + (k - c) - 1) % N = (i + k - 1) % N
        <4>1. CASE i + c = j
          <5>1. j + (k - c) - 1 = i + k - 1
            BY <4>1, <1>1
          <5> QED BY <5>1
        <4>2. CASE i + c = j + U
          <5>1. j + (k - c) - 1 \in Int /\ j + (k - c) - 1 + U = i + k - 1
            BY <4>2, <1>1
          <5> QED BY Zenon, <5>1, WrapKeepsPosition
        <4> QED BY <4>1, <4>2, <1>1
      <3> QED BY Zenon, <3>2, <3>3, <3>4, <1>2
    <2> QED BY <2>1, <2>2
  <1>7. s = u
    BY <1>2, <1>5, <1>6, SeqEqual
  <1> QED BY <1>7 DEF s, t, v, u, c
=============================================================================
