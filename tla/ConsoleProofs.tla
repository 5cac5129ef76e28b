---------------------------- MODULE ConsoleProofs ----------------------------
(***************************************************************************)
(* Proofs about Console, for every size of the buffer, every width of its   *)
(* indices that is a multiple of it, and any number of readers: the ring    *)
(* with three wrapping indices implements LineInput, no wakeup is lost, and *)
(* an end of file is given to a read that returns nothing.                  *)
(***************************************************************************)
EXTENDS Console, SequenceTheorems, TLAPS

\* The default provers, with a second try for a leaf that was cut short.
USE SMTT(20), SMTT(30), Zenon

USE ConsoleAssumption

\* What can be typed.
Input == Chars \cup {NL, EOF}

\* The ring of cons.buf, indexed by the wrapping r, w and e.
INSTANCE RingLemmas WITH N <- INPUT_BUF_SIZE, U <- WORD, Elem <- Input

\* INPUT_BUF_SIZE and the width of the indices fit each other.
LEMMA Sizes == RingSizes
  BY DEF RingSizes

USE Sizes

Readers == [pc : {"idle", "loop", "tosleep", "sleep", "woken"},
            n : 0..MaxN, target : 0..MaxN, killed : BOOLEAN]

\* The readers: the one inside the loop has cons.lock.
RdInv ==
  /\ rd \in [Procs -> Readers] /\ lock \in Procs \cup {NoProc}
  /\ \A p \in Procs : rd[p].n <= rd[p].target
  /\ \A p \in Procs : rd[p].pc \in {"loop", "tosleep"} <=> lock = p

\* The ring: the indices are in order, a full buffer is finished, and what is
\* not finished has no newline.
RingInv ==
  /\ buf \in [0..(INPUT_BUF_SIZE - 1) -> Input]
  /\ r \in 0..(WORD - 1) /\ w \in 0..(WORD - 1) /\ e \in 0..(WORD - 1)
  /\ Count(r, w) <= Count(r, e) /\ Count(r, e) <= INPUT_BUF_SIZE
  /\ Count(r, e) = INPUT_BUF_SIZE => r # w
  /\ \A k \in 1..Count(w, e) : Ring(buf, w, Count(w, e))[k] # NL

\* Who is about to sleep, or sleeps, does so for want of finished input.
SleepInv == \A p \in Procs : rd[p].pc \in {"tosleep", "sleep"} => r = w

ConsoleInv == RdInv /\ RingInv /\ SleepInv
-----------------------------------------------------------------------------
\* The index arithmetic of the code.
LEMMA IndexFacts ==
  ASSUME NEW i \in 0..(WORD - 1), NEW j \in 0..(WORD - 1)
  PROVE  /\ Minus(i, j) = Count(j, i) /\ Up(i) = Succ(i) /\ Down(i) = Pred(i)
         /\ Succ(i) \in 0..(WORD - 1) /\ Pred(i) \in 0..(WORD - 1)
         /\ Count(j, i) \in 0..(WORD - 1) /\ (Count(j, i) = 0 <=> i = j)
  <1>1. (i + WORD - j) % WORD = Count(j, i) /\ (i + WORD - 1) % WORD = Pred(i) /\ Pred(i) \in 0..(WORD - 1)
    BY MinusFacts
  <1>2. (i + 1) % WORD = Succ(i) /\ Succ(i) \in 0..(WORD - 1)
    BY CounterFacts
  <1>3. Count(j, i) \in 0..(WORD - 1) /\ (j = i <=> Count(j, i) = 0)
    BY CounterFacts
  <1> QED BY <1>1, <1>2, <1>3 DEF Minus, Up, Down

\* TypeOK and FullIsReadable are in the invariant.
LEMMA InvGives == ConsoleInv => TypeOK /\ ReaderSleepJustified /\ FullIsReadable
  <1> SUFFICES ASSUME ConsoleInv PROVE TypeOK /\ ReaderSleepJustified /\ FullIsReadable
    OBVIOUS
  <1>0. RdInv /\ RingInv /\ SleepInv
    BY DEF ConsoleInv
  <1>1. Minus(w, r) = Count(r, w) /\ Minus(e, r) = Count(r, e)
    BY <1>0, IndexFacts DEF RingInv
  <1>2. TypeOK
    BY <1>0, <1>1 DEF TypeOK, RingInv, RdInv, Readers, Input
  <1>3. ReaderSleepJustified
    BY <1>0 DEF SleepInv, ReaderSleepJustified
  <1>4. FullIsReadable
    BY <1>0, <1>1 DEF RingInv, FullIsReadable
  <1> QED BY <1>2, <1>3, <1>4

\* One reader changes, with the lock or to or from it.
LEMMA ReaderStep ==
  ASSUME RdInv, NEW p \in Procs, NEW v \in Readers, v.n <= v.target,
         rd' = [rd EXCEPT ![p] = v], lock' \in Procs \cup {NoProc},
         v.pc \in {"loop", "tosleep"} <=> lock' = p,
         \A q \in Procs : q # p => (lock' = q <=> lock = q)
  PROVE  RdInv' /\ rd'[p] = v /\ \A q \in Procs : q # p => rd'[q] = rd[q]
  <1>0. rd \in [Procs -> Readers]
    BY DEF RdInv
  <1>1. rd'[p] = v /\ \A q \in Procs : q # p => rd'[q] = rd[q]
    BY <1>0
  <1>2. rd' \in [Procs -> Readers]
    BY <1>0
  <1>3. \A q \in Procs : rd'[q].n <= rd'[q].target
    BY <1>1 DEF RdInv
  <1>4. ASSUME NEW q \in Procs PROVE rd'[q].pc \in {"loop", "tosleep"} <=> lock' = q
    BY <1>1 DEF RdInv
  <1> QED BY <1>1, <1>2, <1>3, <1>4 DEF RdInv

\* Fields of a reader.
LEMMA Fields ==
  ASSUME NEW v \in Readers
  PROVE  /\ v.pc \in {"idle", "loop", "tosleep", "sleep", "woken"}
         /\ v.n \in 0..MaxN /\ v.target \in 0..MaxN /\ v.killed \in BOOLEAN
  BY Zenon DEF Readers

\* A reader moves on.
LEMMA Changes ==
  ASSUME NEW v \in Readers, NEW x \in {"idle", "loop", "tosleep", "sleep", "woken"}
  PROVE  /\ [v EXCEPT !.pc = x] \in Readers
         /\ [v EXCEPT !.pc = x].pc = x /\ [v EXCEPT !.pc = x].n = v.n
         /\ [v EXCEPT !.pc = x].target = v.target
  BY Zenon DEF Readers

\* One character less to read.
LEMMA OneLess ==
  ASSUME NEW v \in Readers, NEW n \in 0..MaxN
  PROVE  /\ [v EXCEPT !.n = n] \in Readers
         /\ [v EXCEPT !.n = n].pc = v.pc /\ [v EXCEPT !.n = n].n = n
         /\ [v EXCEPT !.n = n].target = v.target
  BY Zenon DEF Readers

\* The end of a read.
LEMMA Idles ==
  ASSUME NEW k \in BOOLEAN
  PROVE  Idle(k) \in Readers /\ Idle(k).pc = "idle" /\ Idle(k).n = 0 /\ Idle(k).target = 0
  <1>1. 0 \in 0..MaxN
    OBVIOUS
  <1> QED BY <1>1, Zenon DEF Readers, Idle

\* wakeup() moves the sleepers on and touches nothing else.
LEMMA WokenFacts ==
  ASSUME RdInv, rd' = Woken(rd), lock' = lock
  PROVE  RdInv' /\ \A p \in Procs : rd'[p].pc = IF rd[p].pc = "sleep" THEN "woken" ELSE rd[p].pc
  <1>0. rd \in [Procs -> Readers]
    BY DEF RdInv
  <1>1. ASSUME NEW p \in Procs
        PROVE  /\ rd'[p] \in Readers /\ rd'[p].n = rd[p].n /\ rd'[p].target = rd[p].target
               /\ rd'[p].pc = IF rd[p].pc = "sleep" THEN "woken" ELSE rd[p].pc
    <2>1. rd[p] \in Readers /\ rd'[p] = IF rd[p].pc = "sleep" THEN [rd[p] EXCEPT !.pc = "woken"] ELSE rd[p]
      BY <1>0 DEF Woken
    <2>2. PICK v \in Readers : v = rd[p]
      BY <2>1
    <2>3. /\ [v EXCEPT !.pc = "woken"] \in Readers /\ [v EXCEPT !.pc = "woken"].pc = "woken"
          /\ [v EXCEPT !.pc = "woken"].n = v.n /\ [v EXCEPT !.pc = "woken"].target = v.target
      BY Zenon, Changes
    <2> QED BY <2>1, <2>2, <2>3, Zenon
  <1>2. rd' \in [Procs -> Readers]
    BY <1>1 DEF Woken
  <1>3. \A p \in Procs : rd'[p].n <= rd'[p].target
    BY <1>1 DEF RdInv
  <1>4. \A p \in Procs : rd'[p].pc \in {"loop", "tosleep"} <=> lock' = p
    BY <1>1 DEF RdInv
  <1> QED BY <1>1, <1>2, <1>3, <1>4 DEF RdInv
-----------------------------------------------------------------------------
\* The ring does not change.
LEMMA RingSame == ASSUME RingInv, UNCHANGED cons PROVE RingInv'
  BY DEF RingInv, cons, Ring, Count

\* What the invariant says about the distances.
LEMMA Distances ==
  ASSUME RingInv
  PROVE  /\ Count(r, w) \in 0..INPUT_BUF_SIZE /\ Count(w, e) \in 0..INPUT_BUF_SIZE
         /\ Count(r, e) = Count(r, w) + Count(w, e)
         /\ (r = w <=> Count(r, w) = 0) /\ (e = w <=> Count(w, e) = 0)
         /\ Minus(w, r) = Count(r, w) /\ Minus(e, r) = Count(r, e) /\ Minus(e, w) = Count(w, e)
         /\ Up(r) = Succ(r) /\ Up(e) = Succ(e) /\ Down(e) = Pred(e)
         /\ Succ(r) \in 0..(WORD - 1) /\ Succ(e) \in 0..(WORD - 1) /\ Pred(e) \in 0..(WORD - 1)
  <1>0. /\ r \in 0..(WORD - 1) /\ w \in 0..(WORD - 1) /\ e \in 0..(WORD - 1)
        /\ Count(r, w) <= Count(r, e) /\ Count(r, e) <= INPUT_BUF_SIZE
    BY DEF RingInv
  <1>1. Count(r, e) = Count(r, w) + Count(w, e)
    BY <1>0, CountSplit
  <1>2. /\ Minus(w, r) = Count(r, w) /\ Count(r, w) \in 0..(WORD - 1) /\ (Count(r, w) = 0 <=> w = r)
        /\ Minus(e, w) = Count(w, e) /\ Count(w, e) \in 0..(WORD - 1) /\ (Count(w, e) = 0 <=> e = w)
        /\ Minus(e, r) = Count(r, e)
        /\ Up(r) = Succ(r) /\ Up(e) = Succ(e) /\ Down(e) = Pred(e)
        /\ Succ(r) \in 0..(WORD - 1) /\ Succ(e) \in 0..(WORD - 1) /\ Pred(e) \in 0..(WORD - 1)
    BY <1>0, IndexFacts
  <1>3. Count(r, w) \in 0..INPUT_BUF_SIZE /\ Count(w, e) \in 0..INPUT_BUF_SIZE
    BY <1>0, <1>1, <1>2
  <1> QED BY <1>1, <1>2, <1>3

\* A character is taken.
LEMMA RingTake ==
  ASSUME RingInv, r # w, r' = Up(r), UNCHANGED <<buf, w, e>>
  PROVE  /\ RingInv' /\ Count(r', w') = Count(r, w) - 1
  <1>0. /\ r \in 0..(WORD - 1) /\ w \in 0..(WORD - 1) /\ e \in 0..(WORD - 1)
        /\ Count(r, w) <= Count(r, e) /\ Count(r, e) <= INPUT_BUF_SIZE
    BY DEF RingInv
  <1>1. Count(r, w) > 0 /\ Count(r, e) > 0 /\ Count(r, w) \in Nat /\ Count(r, e) \in Nat
    BY <1>0, Distances
  <1>2. r' = Succ(r) /\ r' \in 0..(WORD - 1)
    BY Distances
  <1>3. Count(r', w) = Count(r, w) - 1
    BY <1>0, <1>1, <1>2, CountSteps
  <1>4. Count(r', e) = Count(r, e) - 1
    BY <1>0, <1>1, <1>2, CountSteps
  <1>5. buf' = buf /\ w' = w /\ e' = e
    OBVIOUS
  <1>6. Count(r', w') = Count(r, w) - 1 /\ Count(r', e') = Count(r, e) - 1
    BY <1>3, <1>4, <1>5
  <1>7. /\ Count(r', w') <= Count(r', e') /\ Count(r', e') <= INPUT_BUF_SIZE
        /\ Count(r', e') # INPUT_BUF_SIZE
    BY <1>6, <1>0, <1>1
  <1>8. \A k \in 1..Count(w', e') : Ring(buf', w', Count(w', e'))[k] # NL
    BY <1>5 DEF RingInv
  <1>9. buf' \in [0..(INPUT_BUF_SIZE - 1) -> Input]
    BY <1>5 DEF RingInv
  <1> QED BY <1>0, <1>2, <1>5, <1>6, <1>7, <1>8, <1>9 DEF RingInv

\* A character is erased.
LEMMA RingErase ==
  ASSUME RingInv, e # w, e' = Down(e), UNCHANGED <<buf, r, w>>
  PROVE  RingInv' /\ Count(w', e') = Count(w, e) - 1
  <1>0. /\ r \in 0..(WORD - 1) /\ w \in 0..(WORD - 1) /\ e \in 0..(WORD - 1)
        /\ Count(r, w) <= Count(r, e) /\ Count(r, e) <= INPUT_BUF_SIZE
        /\ buf \in [0..(INPUT_BUF_SIZE - 1) -> Input]
    BY DEF RingInv
  <1>1. /\ Count(w, e) > 0 /\ Count(r, e) > 0 /\ Count(w, e) \in Nat /\ Count(r, w) \in Nat
        /\ Count(r, e) = Count(r, w) + Count(w, e)
    BY <1>0, Distances
  <1>2. e' = Pred(e) /\ e' \in 0..(WORD - 1) /\ buf' = buf /\ r' = r /\ w' = w
    BY Distances
  <1>3. Count(w, Pred(e)) = Count(w, e) - 1
    BY <1>0, <1>1, MinusFacts
  <1>4. Count(r, Pred(e)) = Count(r, e) - 1
    BY <1>0, <1>1, MinusFacts
  <1>5. Count(w', e') = Count(w, e) - 1 /\ Count(r', e') = Count(r, e) - 1 /\ Count(r', w') = Count(r, w)
    BY <1>2, <1>3, <1>4
  <1>6. ASSUME NEW k \in 1..Count(w', e') PROVE Ring(buf', w', Count(w', e'))[k] # NL
    <2>1. PICK m \in Nat : m = Count(w, e) /\ m > 0
      BY <1>1
    <2>2. m - 1 \in Nat /\ k \in 1..(m - 1) /\ k \in 1..m
      BY <2>1, <1>5
    <2>3. RingFacts(buf, w, m) /\ RingFacts(buf, w, m - 1)
      BY <1>0, <2>2, RingSeq
    <2>4. Ring(buf, w, m - 1)[k] = Ring(buf, w, m)[k]
      BY Zenon, <2>2, <2>3 DEF RingFacts
    <2>5. Ring(buf, w, m)[k] # NL
      BY <2>1, <2>2 DEF RingInv
    <2> QED BY <2>1, <2>4, <2>5, <1>2, <1>5
  <1>7. /\ Count(r', w') <= Count(r', e') /\ Count(r', e') <= INPUT_BUF_SIZE
        /\ Count(r', e') # INPUT_BUF_SIZE
    BY <1>5, <1>0, <1>1
  <1> QED BY <1>0, <1>2, <1>5, <1>6, <1>7 DEF RingInv

\* Going back i characters from e inside the line.
LEMMA LineAt ==
  ASSUME RingInv, NEW m \in Nat, m = Count(w, e), NEW i \in 1..m
  PROVE  buf[Slot(Minus(e, i))] # NL
  <1>0. /\ w \in 0..(WORD - 1) /\ e \in 0..(WORD - 1) /\ m <= INPUT_BUF_SIZE
        /\ buf \in [0..(INPUT_BUF_SIZE - 1) -> Input]
    BY Distances DEF RingInv
  <1>1. i \in 0..(WORD - 1) /\ m - i + 1 \in 1..m
    BY <1>0
  <1>2. Minus(e, i) = Count(i, e)
    BY <1>0, <1>1, IndexFacts
  <1>3. PICK x \in Int : x = Count(i, e)
    BY <1>0, <1>1, IndexFacts
  <1>4. w + m - i = x \/ w + m - i = x + WORD
    BY <1>0, <1>1, <1>3 DEF Count
  <1>5. (w + m - i) % INPUT_BUF_SIZE = x % INPUT_BUF_SIZE
    <2>1. (x + WORD) % INPUT_BUF_SIZE = x % INPUT_BUF_SIZE
      BY Zenon, WrapKeepsPosition
    <2> QED BY <2>1, <1>4
  <1>6. RingFacts(buf, w, m)
    BY <1>0, RingSeq
  <1>7. PICK k \in 1..m : k = m - i + 1
    BY <1>1
  <1>8. Ring(buf, w, m)[k] = buf[(w + k - 1) % INPUT_BUF_SIZE]
    BY <1>6 DEF RingFacts
  <1>9. w + k - 1 = w + m - i
    BY <1>0, <1>7
  <1>10. Ring(buf, w, m)[k] # NL
    BY <1>7 DEF RingInv
  <1> QED BY <1>2, <1>3, <1>5, <1>8, <1>9, <1>10 DEF Slot

\* Control-U goes back to w, since there is no newline in the line.
LEMMA KillsLine ==
  ASSUME RingInv, intr_kill
  PROVE  e' = w
  <1>0. w \in 0..(WORD - 1) /\ e \in 0..(WORD - 1)
    BY DEF RingInv
  <1>1. PICK m \in Nat : m = Count(w, e) /\ m <= INPUT_BUF_SIZE /\ Minus(e, w) = m
    BY Distances
  <1> DEFINE P(k) == /\ \A i \in 1..k : buf[Slot(Minus(e, i))] # NL
                     /\ k = m \/ buf[Slot(Minus(e, k + 1))] = NL
  <1>2. \A i \in 1..m : buf[Slot(Minus(e, i))] # NL
    BY <1>1, LineAt
  <1>3. P(m)
    BY <1>2
  <1>4. ASSUME NEW k \in 0..m, P(k) PROVE k = m
    <2>1. ASSUME k # m PROVE FALSE
      <3>1. k + 1 \in 1..m
        BY <2>1
      <3> QED BY <3>1, <1>2, <1>4, <2>1
    <2> QED BY <2>1
  <1> DEFINE back == CHOOSE k \in 0..m : P(k)
  <1>5. e' = Minus(e, back)
    BY <1>1 DEF intr_kill
  <1>6. back = m
    <2>1. m \in 0..m
      OBVIOUS
    <2> HIDE DEF P
    <2> QED BY <1>3, <1>4, <2>1
  <1>7. m \in 0..(WORD - 1)
    BY <1>1
  <1>8. Minus(e, m) = Count(m, e)
    BY <1>0, <1>7, IndexFacts
  <1>9. Count(m, e) = w
    BY <1>0, <1>1 DEF Count
  <1> HIDE DEF back
  <1> QED BY <1>5, <1>6, <1>8, <1>9

\* A line is killed.
LEMMA RingKill ==
  ASSUME RingInv, e' = w, UNCHANGED <<buf, r, w>>
  PROVE  RingInv' /\ Count(w', e') = 0
  <1>0. /\ r \in 0..(WORD - 1) /\ w \in 0..(WORD - 1)
        /\ buf \in [0..(INPUT_BUF_SIZE - 1) -> Input]
    BY DEF RingInv
  <1>1. buf' = buf /\ r' = r /\ w' = w /\ e' = w
    OBVIOUS
  <1>2. Count(w, w) = 0
    BY <1>0, IndexFacts
  <1>3. Count(r, w) \in 0..INPUT_BUF_SIZE /\ (r = w => Count(r, w) = 0)
    BY Distances
  <1>4. Count(w', e') = 0 /\ Count(r', e') = Count(r, w) /\ Count(r', w') = Count(r, w)
    BY <1>1, <1>2
  <1>5. Count(r', w') <= Count(r', e') /\ Count(r', e') <= INPUT_BUF_SIZE
    BY <1>3, <1>4
  <1>6. Count(r', e') = INPUT_BUF_SIZE => r' # w'
    BY <1>3, <1>4, <1>1
  <1>7. \A k \in 1..Count(w', e') : Ring(buf', w', Count(w', e'))[k] # NL
    BY <1>4
  <1> QED BY <1>0, <1>1, <1>4, <1>5, <1>6, <1>7 DEF RingInv

\* A character that finishes the line.
Ends(c) == c = NL \/ c = EOF \/ Count(r, e) + 1 = INPUT_BUF_SIZE

\* What an interrupt with a character does, without the arithmetic.
LEMMA TypeFacts ==
  ASSUME RingInv, NEW c \in Input, intr_char(c)
  PROVE  /\ Count(r, e) < INPUT_BUF_SIZE /\ Count(w, e) < INPUT_BUF_SIZE
         /\ buf' = [buf EXCEPT ![e % INPUT_BUF_SIZE] = c]
         /\ buf' \in [0..(INPUT_BUF_SIZE - 1) -> Input]
         /\ e' = Succ(e) /\ e' \in 0..(WORD - 1) /\ r' = r /\ lock' = lock
         /\ Count(r, e') = Count(r, e) + 1 /\ Count(w, e') = Count(w, e) + 1
         /\ Ends(c) => w' = e' /\ rd' = Woken(rd)
         /\ ~Ends(c) => w' = w /\ rd' = rd
  <1>0. /\ r \in 0..(WORD - 1) /\ w \in 0..(WORD - 1) /\ e \in 0..(WORD - 1)
        /\ buf \in [0..(INPUT_BUF_SIZE - 1) -> Input]
    BY DEF RingInv
  <1>1. /\ Count(r, w) \in Nat /\ Count(w, e) \in Nat /\ Count(r, e) = Count(r, w) + Count(w, e)
        /\ Minus(e, r) = Count(r, e)
    BY Distances
  <1>2. Count(r, e) < INPUT_BUF_SIZE /\ Count(w, e) < INPUT_BUF_SIZE
    BY <1>1 DEF intr_char, Room
  <1>3. buf' = [buf EXCEPT ![e % INPUT_BUF_SIZE] = c] /\ e' = Up(e) /\ r' = r /\ lock' = lock
    BY DEF intr_char, Slot
  <1>4. e' = Succ(e) /\ e' \in 0..(WORD - 1)
    BY <1>3, Distances
  <1>5. Count(r, e) < WORD - 1 /\ Count(w, e) < WORD - 1
    BY <1>1, <1>2
  <1>6. Count(r, e') = Count(r, e) + 1
    BY <1>0, <1>4, <1>5, CountSteps
  <1>7. Count(w, e') = Count(w, e) + 1
    BY <1>0, <1>4, <1>5, CountSteps
  <1>8. Minus(e', r) = Count(r, e')
    BY <1>0, <1>4, IndexFacts
  <1>9. Finished(c, e') <=> Ends(c)
    BY <1>6, <1>8 DEF Finished, Ends
  <1>10. /\ Ends(c) => w' = e' /\ rd' = Woken(rd)
         /\ ~Ends(c) => w' = w /\ rd' = rd
    BY <1>9 DEF intr_char, LineWakes
  <1>11. buf' \in [0..(INPUT_BUF_SIZE - 1) -> Input]
    BY <1>0, <1>3
  <1> QED BY <1>2, <1>3, <1>4, <1>6, <1>7, <1>10, <1>11

\* A character is typed.
LEMMA RingType ==
  ASSUME RingInv, NEW c \in Input, intr_char(c)
  PROVE  RingInv'
  <1>0. /\ r \in 0..(WORD - 1) /\ w \in 0..(WORD - 1) /\ e \in 0..(WORD - 1)
        /\ buf \in [0..(INPUT_BUF_SIZE - 1) -> Input]
        /\ \A k \in 1..Count(w, e) : Ring(buf, w, Count(w, e))[k] # NL
    BY DEF RingInv
  <1>1. /\ Count(r, w) \in Nat /\ Count(w, e) \in Nat /\ Count(r, e) = Count(r, w) + Count(w, e)
    BY Distances
  <1>2. /\ Count(r, e) < INPUT_BUF_SIZE /\ Count(w, e) < INPUT_BUF_SIZE
        /\ buf' = [buf EXCEPT ![e % INPUT_BUF_SIZE] = c]
        /\ buf' \in [0..(INPUT_BUF_SIZE - 1) -> Input]
        /\ e' \in 0..(WORD - 1) /\ r' = r
        /\ Count(r, e') = Count(r, e) + 1 /\ Count(w, e') = Count(w, e) + 1
    BY TypeFacts
  <1>3. CASE Ends(c)
    <2>1. w' = e'
      BY <1>3, TypeFacts
    <2>2. Count(e', e') = 0 /\ Count(e', e') \in Nat
      BY <1>2, IndexFacts
    <2>3. Count(w', e') = 0 /\ Count(r', w') = Count(r, e) + 1 /\ Count(r', e') = Count(r, e) + 1
      BY <2>1, <2>2, <1>2
    <2>4. Count(r', w') <= Count(r', e') /\ Count(r', e') <= INPUT_BUF_SIZE
      BY <2>3, <1>1, <1>2
    <2>5. r' # w'
      <3>1. Count(r', w') # 0
        BY <2>3, <1>1
      <3> QED BY <3>1, <2>1, <1>2, <1>0, IndexFacts
    <2>6. \A k \in 1..Count(w', e') : Ring(buf', w', Count(w', e'))[k] # NL
      BY <2>3
    <2> QED BY Zenon, <1>0, <1>2, <2>1, <2>4, <2>5, <2>6 DEF RingInv
  <1>4. CASE ~Ends(c)
    <2>1. w' = w /\ c # NL /\ Count(r, e) + 1 # INPUT_BUF_SIZE
      BY <1>4, TypeFacts DEF Ends
    <2>2. /\ Count(w', e') = Count(w, e) + 1 /\ Count(r', w') = Count(r, w)
          /\ Count(r', e') = Count(r, e) + 1
      BY <2>1, <1>2
    <2>3. /\ Count(r', w') <= Count(r', e') /\ Count(r', e') <= INPUT_BUF_SIZE
          /\ Count(r', e') # INPUT_BUF_SIZE
      BY <2>1, <2>2, <1>1, <1>2
    <2>4. PICK m \in Nat : m = Count(w, e)
      BY <1>1
    <2>5. Ring(buf', w, m + 1) = Append(Ring(buf, w, m), c)
      <3>1. Ring([buf EXCEPT ![e % INPUT_BUF_SIZE] = c], w, Count(w, e) + 1)
              = Append(Ring(buf, w, Count(w, e)), c)
        <4>1. /\ Count(w, e) < INPUT_BUF_SIZE /\ w \in 0..(WORD - 1) /\ e \in 0..(WORD - 1)
              /\ buf \in [0..(INPUT_BUF_SIZE - 1) -> Input] /\ c \in Input
          BY <1>0, <1>2
        <4> HIDE ConsoleAssumption
        <4> QED BY Zenon, <4>1, RingPut
      <3> QED BY Zenon, <3>1, <1>2, <2>4
    <2>6. RingFacts(buf, w, m)
      BY <1>0, RingSeq
    <2>7. PICK s \in Seq(Input) : s = Ring(buf, w, m) /\ Len(s) = m
      BY <2>6 DEF RingFacts
    <2>8. \A k \in 1..m : s[k] # NL
      BY <1>0, <2>4, <2>7
    <2>9. \A k \in 1..(m + 1) : Append(s, c)[k] # NL
      BY <2>1, <2>7, <2>8
    <2>10. Count(w', e') = m + 1 /\ Ring(buf', w', m + 1) = Append(s, c)
      BY <2>1, <2>2, <2>4, <2>5, <2>7
    <2>11. \A k \in 1..Count(w', e') : Ring(buf', w', Count(w', e'))[k] # NL
      BY Zenon, <2>9, <2>10
    <2> QED BY Zenon, <1>0, <1>2, <2>1, <2>3, <2>11 DEF RingInv
  <1> QED BY <1>3, <1>4
-----------------------------------------------------------------------------
\* The invariant holds at the start.
LEMMA InitInv == Init => ConsoleInv
  <1> SUFFICES ASSUME Init PROVE ConsoleInv
    OBVIOUS
  <1>1. /\ buf = [i \in 0..(INPUT_BUF_SIZE - 1) |-> NL] /\ r = 0 /\ w = 0 /\ e = 0
        /\ lock = NoProc /\ rd = [p \in Procs |-> Idle(FALSE)]
    BY DEF Init
  <1>2. Idle(FALSE) \in Readers /\ Idle(FALSE).pc = "idle" /\ Idle(FALSE).n = 0 /\ Idle(FALSE).target = 0
    BY Zenon, Idles
  <1>3. RdInv
    <2>1. \A p \in Procs : rd[p] = Idle(FALSE) /\ lock # p
      BY Zenon, <1>1
    <2>2. rd \in [Procs -> Readers] /\ lock \in Procs \cup {NoProc}
      BY Zenon, <1>1, <1>2
    <2>3. PICK v : v = Idle(FALSE) /\ v.pc = "idle" /\ v.n = 0 /\ v.target = 0
      BY Zenon, <1>2
    <2>4. ASSUME NEW p \in Procs PROVE rd[p].n <= rd[p].target /\ ~(rd[p].pc \in {"loop", "tosleep"})
      <3>1. rd[p] = v
        BY Zenon, <2>1, <2>3
      <3>2. rd[p].pc = "idle" /\ rd[p].n = 0 /\ rd[p].target = 0
        BY Zenon, <3>1, <2>3
      <3> QED BY <3>2
    <2> QED BY Zenon, <2>1, <2>2, <2>4 DEF RdInv
  <1>4. 0 \in 0..(WORD - 1) /\ Count(0, 0) = 0
    BY DEF Count
  <1>5. RingInv
    BY <1>1, <1>4 DEF RingInv, Input
  <1>6. SleepInv
    BY <1>1 DEF SleepInv
  <1> QED BY <1>3, <1>5, <1>6 DEF ConsoleInv

\* An interrupt with a character wakes every sleeper when there is input.
LEMMA CharInv ==
  ASSUME ConsoleInv, NEW c \in Input, intr_char(c)
  PROVE  ConsoleInv'
  <1>0. RdInv /\ RingInv /\ SleepInv
    BY DEF ConsoleInv
  <1>1. RingInv'
    BY <1>0, RingType
  <1>2. /\ lock' = lock /\ r' = r /\ (Ends(c) => rd' = Woken(rd)) /\ (~Ends(c) => w' = w /\ rd' = rd)
    BY <1>0, TypeFacts
  <1>3. \A p \in Procs : rd[p].pc # "tosleep"
    BY <1>0 DEF intr_char, RdInv
  <1>4. CASE Ends(c)
    <2>1. RdInv' /\ \A p \in Procs : rd'[p].pc = IF rd[p].pc = "sleep" THEN "woken" ELSE rd[p].pc
      BY <1>0, <1>2, <1>4, WokenFacts
    <2>2. \A p \in Procs : rd'[p].pc \notin {"tosleep", "sleep"}
      BY <2>1, <1>3
    <2> QED BY <1>1, <2>1, <2>2 DEF ConsoleInv, SleepInv
  <1>5. CASE ~Ends(c)
    BY <1>0, <1>1, <1>2, <1>5 DEF ConsoleInv, SleepInv, RdInv
  <1> QED BY <1>4, <1>5

\* A step of a reader that leaves the ring alone.
LEMMA ReaderKeeps ==
  ASSUME ConsoleInv, NEW p \in Procs, NEW v \in Readers, v.n <= v.target,
         rd' = [rd EXCEPT ![p] = v], lock' \in Procs \cup {NoProc},
         v.pc \in {"loop", "tosleep"} <=> lock' = p,
         \A q \in Procs : q # p => (lock' = q <=> lock = q),
         v.pc \in {"tosleep", "sleep"} => r = w, UNCHANGED cons
  PROVE  ConsoleInv'
  <1>0. RdInv /\ RingInv /\ SleepInv /\ r' = r /\ w' = w
    BY DEF ConsoleInv, cons
  <1>1. RdInv' /\ rd'[p] = v /\ \A q \in Procs : q # p => rd'[q] = rd[q]
    BY Zenon, <1>0, ReaderStep
  <1>2. RingInv'
    BY <1>0, RingSame
  <1>3. SleepInv'
    BY <1>0, <1>1 DEF SleepInv
  <1> QED BY <1>1, <1>2, <1>3 DEF ConsoleInv

\* A step of a reader that takes a character, or ends the read at one.
LEMMA ReaderTakes ==
  ASSUME ConsoleInv, NEW p \in Procs, NEW v \in Readers, v.n <= v.target,
         rd' = [rd EXCEPT ![p] = v], lock = p, r # w, r' \in {r, Up(r)}, UNCHANGED <<buf, w, e>>,
         \/ v.pc = "idle" /\ lock' = NoProc
         \/ v.pc = "loop" /\ lock' = lock
  PROVE  ConsoleInv'
  <1>0. RdInv /\ RingInv /\ SleepInv
    BY DEF ConsoleInv
  <1>1. RdInv' /\ rd'[p] = v /\ \A q \in Procs : q # p => rd'[q] = rd[q]
    <2>1. lock' \in Procs \cup {NoProc} /\ (v.pc \in {"loop", "tosleep"} <=> lock' = p)
      OBVIOUS
    <2>2. \A q \in Procs : q # p => (lock' = q <=> lock = q)
      OBVIOUS
    <2> QED BY Zenon, <1>0, <2>1, <2>2, ReaderStep
  <1>2. RingInv'
    <2>1. CASE r' = r
      <3>1. UNCHANGED cons
        BY <2>1 DEF cons
      <3> QED BY <1>0, <3>1, RingSame
    <2>2. CASE r' = Up(r)
      BY <1>0, <2>2, RingTake
    <2> QED BY <2>1, <2>2
  <1>3. \A q \in Procs : rd[q].pc \notin {"tosleep", "sleep"}
    BY <1>0 DEF SleepInv
  <1>4. SleepInv'
    BY <1>1, <1>3 DEF SleepInv
  <1> QED BY <1>1, <1>2, <1>4 DEF ConsoleInv

\* Every step keeps the invariant.
LEMMA NextInv == ConsoleInv /\ [Next]_vars => ConsoleInv'
  <1> SUFFICES ASSUME ConsoleInv, [Next]_vars PROVE ConsoleInv'
    OBVIOUS
  <1>0. RdInv /\ RingInv /\ SleepInv
    BY DEF ConsoleInv
  <1>00. ASSUME NEW p \in Procs
         PROVE  /\ rd[p] \in Readers /\ rd[p].n <= rd[p].target /\ NoProc # p
                /\ rd[p].pc \in {"loop", "tosleep"} <=> lock = p
    BY <1>0 DEF RdInv
  <1>1. CASE \E c \in Input : intr_char(c)
    BY <1>1, CharInv
  <1>2. CASE intr_erase
    <2>1. e # w /\ e' = Down(e) /\ UNCHANGED <<buf, r, w, lock, rd>>
      BY <1>2 DEF intr_erase, Erasable
    <2>2. RingInv'
      BY <1>0, <2>1, RingErase
    <2> QED BY <1>0, <2>1, <2>2 DEF ConsoleInv, RdInv, SleepInv
  <1>3. CASE intr_kill
    <2>1. e' = w
      BY <1>0, <1>3, KillsLine
    <2>2. UNCHANGED <<buf, r, w, lock, rd>>
      BY <1>3 DEF intr_kill
    <2>3. RingInv'
      BY <1>0, <2>1, <2>2, RingKill
    <2> QED BY <1>0, <2>2, <2>3 DEF ConsoleInv, RdInv, SleepInv
  <1>4. ASSUME NEW p \in Procs, NEW n \in 1..MaxN, read(p, n) PROVE ConsoleInv'
    <2>1. PICK v : v = [rd[p] EXCEPT !.pc = "loop", !.n = n, !.target = n]
      OBVIOUS
    <2>2. lock = NoProc /\ lock' = p /\ rd' = [rd EXCEPT ![p] = v] /\ UNCHANGED cons
      BY <1>4, <2>1 DEF read
    <2>3. n \in 0..MaxN /\ n <= n
      OBVIOUS
    <2>4. v \in Readers /\ v.pc = "loop" /\ v.n = n /\ v.target = n
      <3>1. PICK y \in Readers : y = rd[p]
        BY <1>00
      <3>2. v = [y EXCEPT !.pc = "loop", !.n = n, !.target = n]
        BY <2>1, <3>1, Zenon
      <3> QED BY <2>3, <3>2, Zenon DEF Readers
    <2>5. \A q \in Procs : q # p => (lock' = q <=> lock = q)
      BY <2>2
    <2> QED BY Zenon, <2>2, <2>3, <2>4, <2>5, ReaderKeeps
  <1>5. ASSUME NEW p \in Procs, read_woken(p) PROVE ConsoleInv'
    <2>1. PICK v : v = [rd[p] EXCEPT !.pc = "loop"]
      BY Zenon
    <2>2. lock = NoProc /\ lock' = p /\ rd' = [rd EXCEPT ![p] = v] /\ UNCHANGED cons
      BY <1>5, <2>1 DEF read_woken
    <2>3. v \in Readers /\ v.pc = "loop" /\ v.n = rd[p].n /\ v.target = rd[p].target
      BY Zenon, <2>1, <1>00, Changes
    <2>4. v.n <= v.target
      BY <2>3, <1>00
    <2>5. \A q \in Procs : q # p => (lock' = q <=> lock = q)
      BY <2>2
    <2> QED BY Zenon, <2>2, <2>3, <2>4, <2>5, ReaderKeeps
  <1>6. ASSUME NEW p \in Procs, read_empty(p) PROVE ConsoleInv'
    <2>1. lock = p /\ r = w /\ UNCHANGED cons
      BY <1>6, <1>00 DEF read_empty
    <2>2. CASE rd[p].killed
      <3>1. PICK v : v = Idle(TRUE)
        BY Zenon
      <3>2. lock' = NoProc /\ rd' = [rd EXCEPT ![p] = v]
        BY Zenon, <1>6, <2>2, <3>1 DEF read_empty
      <3>3. v \in Readers /\ v.pc = "idle" /\ v.n = 0 /\ v.target = 0
        BY <3>1, Idles, Zenon
      <3>5. v.n <= v.target
        BY <3>3
      <3>4. \A q \in Procs : q # p => (lock' = q <=> lock = q)
        BY <2>1, <3>2
      <3> QED BY Zenon, <2>1, <3>2, <3>3, <3>4, <3>5, ReaderKeeps
    <2>3. CASE ~rd[p].killed
      <3>1. PICK v : v = [rd[p] EXCEPT !.pc = "tosleep"]
        BY Zenon
      <3>2. lock' = lock /\ rd' = [rd EXCEPT ![p] = v]
        BY <1>6, <2>3, <3>1 DEF read_empty
      <3>3. v \in Readers /\ v.pc = "tosleep" /\ v.n = rd[p].n /\ v.target = rd[p].target
        BY Zenon, <3>1, <1>00, Changes
      <3>4. v.n <= v.target
        BY <3>3, <1>00
      <3> QED BY Zenon, <2>1, <3>2, <3>3, <3>4, ReaderKeeps
    <2> QED BY <2>2, <2>3
  <1>7. ASSUME NEW p \in Procs, read_sleep(p) PROVE ConsoleInv'
    <2>1. PICK v : v = [rd[p] EXCEPT !.pc = "sleep"]
      BY Zenon
    <2>2. lock = p /\ r = w
      BY <1>7, <1>0, <1>00 DEF read_sleep, SleepInv
    <2>3. lock' = NoProc /\ rd' = [rd EXCEPT ![p] = v] /\ UNCHANGED cons
      BY <1>7, <2>1 DEF read_sleep
    <2>4. v \in Readers /\ v.pc = "sleep" /\ v.n = rd[p].n /\ v.target = rd[p].target
      BY Zenon, <2>1, <1>00, Changes
    <2>5. v.n <= v.target
      BY <2>4, <1>00
    <2>6. \A q \in Procs : q # p => (lock' = q <=> lock = q)
      BY <2>2, <2>3
    <2> QED BY Zenon, <2>2, <2>3, <2>4, <2>5, <2>6, ReaderKeeps
  <1>8. ASSUME NEW p \in Procs, read_eof(p) PROVE ConsoleInv'
    <2>1. PICK v : v = Idle(rd[p].killed)
      OBVIOUS
    <2>2. lock = p /\ r # w /\ lock' = NoProc /\ UNCHANGED <<buf, w, e>>
      BY <1>8, <1>00 DEF read_eof
    <2>3. rd' = [rd EXCEPT ![p] = v] /\ r' \in {r, Up(r)}
      BY <1>8, <2>1 DEF read_eof, AfterEof
    <2>4. rd[p].killed \in BOOLEAN
      BY <1>00, Fields
    <2>5. v \in Readers /\ v.pc = "idle" /\ v.n <= v.target
      BY <2>1, <2>4, Idles
    <2> QED BY Zenon, <2>2, <2>3, <2>5, ReaderTakes
  <1>9. ASSUME NEW p \in Procs, read_char(p) PROVE ConsoleInv'
    <2>1. lock = p /\ r # w /\ r' = Up(r) /\ UNCHANGED <<buf, w, e>> /\ rd[p].pc = "loop"
      BY <1>9, <1>00 DEF read_char
    <2>2. CASE /\ rd[p].n > 1 /\ rd' = [rd EXCEPT ![p].n = @ - 1] /\ UNCHANGED lock
      <3>1. PICK n : n = rd[p].n - 1
        OBVIOUS
      <3>2. PICK v : v = [rd[p] EXCEPT !.n = n]
        BY Zenon
      <3>3. rd' = [rd EXCEPT ![p] = v] /\ lock' = lock
        BY <2>2, <3>1, <3>2
      <3>4. rd[p].n \in 0..MaxN /\ rd[p].target \in 0..MaxN
        BY <1>00, Fields
      <3>5. n \in 0..MaxN /\ n <= rd[p].target
        BY <3>1, <3>4, <2>2, <1>00
      <3>6. v \in Readers /\ v.pc = rd[p].pc /\ v.n = n /\ v.target = rd[p].target
        BY <3>2, <3>5, <1>00, OneLess
      <3> QED BY Zenon, <2>1, <3>3, <3>5, <3>6, ReaderTakes
    <2>3. CASE lock' = NoProc /\ rd' = [rd EXCEPT ![p] = Idle(@.killed)]
      <3>1. PICK v : v = Idle(rd[p].killed)
        OBVIOUS
      <3>2. rd' = [rd EXCEPT ![p] = v]
        BY <2>3, <3>1
      <3>3. rd[p].killed \in BOOLEAN
        BY <1>00, Fields
      <3>4. v \in Readers /\ v.pc = "idle" /\ v.n <= v.target
        BY <3>1, <3>3, Idles
      <3> QED BY Zenon, <2>1, <2>3, <3>2, <3>4, ReaderTakes
    <2> QED BY <1>9, <2>2, <2>3 DEF read_char
  <1>10. ASSUME NEW p \in Procs, kill(p) PROVE ConsoleInv'
    <2>1. PICK x : x = Kicked(rd[p].pc)
      OBVIOUS
    <2>2. PICK v : v = [rd[p] EXCEPT !.killed = TRUE, !.pc = x]
      OBVIOUS
    <2>0. rd \in [Procs -> Readers]
      BY <1>0 DEF RdInv
    <2>3. rd' = [rd EXCEPT ![p] = v] /\ UNCHANGED lock /\ UNCHANGED cons
      BY <1>10, <2>1, <2>2 DEF kill, cons
    <2>4. /\ x \in {"idle", "loop", "tosleep", "sleep", "woken"}
          /\ x \in {"loop", "tosleep"} <=> rd[p].pc \in {"loop", "tosleep"}
          /\ x \in {"tosleep", "sleep"} => rd[p].pc \in {"tosleep", "sleep"}
      BY <2>1, <1>00, Fields DEF Kicked
    <2>5. v \in Readers /\ v.pc = x /\ v.n = rd[p].n /\ v.target = rd[p].target
      <3>1. PICK y \in Readers : y = rd[p]
        BY <2>0
      <3>2. v = [y EXCEPT !.killed = TRUE, !.pc = x]
        BY <2>2, <3>1, Zenon
      <3>3. v \in Readers /\ v.pc = x /\ v.n = y.n /\ v.target = y.target
        BY <2>4, <3>2, Zenon DEF Readers
      <3> QED BY <3>1, <3>3, Zenon
    <2>6. v.n <= v.target /\ lock' \in Procs \cup {NoProc} /\ (v.pc \in {"loop", "tosleep"} <=> lock' = p)
      BY <2>3, <2>4, <2>5, <1>0, <1>00 DEF RdInv
    <2>7. v.pc \in {"tosleep", "sleep"} => r = w
      BY <2>4, <2>5, <1>0 DEF SleepInv
    <2> QED BY Zenon, <2>3, <2>5, <2>6, <2>7, ReaderKeeps
  <1>11. CASE UNCHANGED vars
    BY <1>0, <1>11, RingSame DEF vars, cons, ConsoleInv, RdInv, SleepInv
  <1> QED BY <1>1, <1>2, <1>3, <1>4, <1>5, <1>6, <1>7, <1>8, <1>9, <1>10, <1>11 DEF Next, Reader, Input

\* The invariant holds in every reachable state.
THEOREM Invariant == Spec => []ConsoleInv
  BY InitInv, NextInv, PTL DEF Spec

\* consoleread() sleeps only while nothing is finished, whatever interrupts,
\* other readers and kill() do between its test and its sleep.
THEOREM ReaderSleepJustifiedHolds == Spec => []ReaderSleepJustified
  BY Invariant, InvGives, PTL

\* A buffer that consoleintr() filled can be read.
THEOREM FullIsReadableHolds == Spec => []FullIsReadable
  BY Invariant, InvGives, PTL
-----------------------------------------------------------------------------
(***************************************************************************)
(* The ring with its three indices implements LineInput.                    *)
(***************************************************************************)
Ready == Part(r, w)
Line  == Part(w, e)

\* Finished input and the line are parts of the ring.
LEMMA PartsAreRings ==
  ASSUME RingInv
  PROVE  /\ Ready = Ring(buf, r, Count(r, w)) /\ Ready \in Seq(Input) /\ Len(Ready) = Count(r, w)
         /\ Line = Ring(buf, w, Count(w, e)) /\ Line \in Seq(Input) /\ Len(Line) = Count(w, e)
  <1>1. /\ Minus(w, r) = Count(r, w) /\ Minus(e, w) = Count(w, e)
        /\ Count(r, w) \in Nat /\ Count(w, e) \in Nat
    BY Distances
  <1>2. Ready = Ring(buf, r, Count(r, w)) /\ Line = Ring(buf, w, Count(w, e))
    BY <1>1 DEF Ready, Line, Part, Ring, Slot
  <1>3. /\ r \in 0..(WORD - 1) /\ w \in 0..(WORD - 1)
        /\ buf \in [0..(INPUT_BUF_SIZE - 1) -> Input]
    BY DEF RingInv
  <1>4. RingFacts(buf, r, Count(r, w)) /\ RingFacts(buf, w, Count(w, e))
    BY <1>1, <1>3, RingSeq
  <1> QED BY <1>2, <1>4 DEF RingFacts

\* The same after a step.
LEMMA PartsAreRingsNext ==
  ASSUME RingInv'
  PROVE  /\ Ready' = Ring(buf', r', Count(r', w'))
         /\ Line' = Ring(buf', w', Count(w', e'))
  <1>1. r' \in 0..(WORD - 1) /\ w' \in 0..(WORD - 1) /\ e' \in 0..(WORD - 1)
    BY DEF RingInv
  <1>2. Minus(w', r') = Count(r', w') /\ Minus(e', w') = Count(w', e')
    BY <1>1, IndexFacts
  <1> QED BY <1>2 DEF Ready, Line, Part, Ring, Slot

\* The ring of no elements.
LEMMA RingNone == ASSUME NEW d, NEW i PROVE Ring(d, i, 0) = <<>>
  BY DEF Ring

\* A typed character.
LEMMA TypeStep ==
  ASSUME RingInv, RingInv', NEW c \in Input, intr_char(c)
  PROVE  Abstract!Type(c)
  <1>0. /\ r \in 0..(WORD - 1) /\ w \in 0..(WORD - 1) /\ e \in 0..(WORD - 1)
        /\ buf \in [0..(INPUT_BUF_SIZE - 1) -> Input]
    BY DEF RingInv
  <1>1. /\ Ready = Ring(buf, r, Count(r, w)) /\ Ready \in Seq(Input) /\ Len(Ready) = Count(r, w)
        /\ Line = Ring(buf, w, Count(w, e)) /\ Line \in Seq(Input) /\ Len(Line) = Count(w, e)
        /\ Ready' = Ring(buf', r', Count(r', w')) /\ Line' = Ring(buf', w', Count(w', e'))
    BY PartsAreRings, PartsAreRingsNext
  <1>2. Count(r, w) \in Nat /\ Count(w, e) \in Nat /\ Count(r, e) = Count(r, w) + Count(w, e)
    BY Distances
  <1>3. /\ Count(r, e) < INPUT_BUF_SIZE /\ Count(w, e) < INPUT_BUF_SIZE
        /\ buf' = [buf EXCEPT ![e % INPUT_BUF_SIZE] = c]
        /\ e' \in 0..(WORD - 1) /\ r' = r
        /\ Count(r, e') = Count(r, e) + 1 /\ Count(w, e') = Count(w, e) + 1
        /\ Ends(c) => w' = e'
        /\ ~Ends(c) => w' = w
    BY TypeFacts
  <1>4. Len(Ready) + Len(Line) < INPUT_BUF_SIZE
    BY <1>1, <1>2, <1>3
  <1>5. Abstract!Finishes(c) <=> Ends(c)
    <2>1. Len(Ready) + Len(Line) + 1 = Count(r, e) + 1
      BY <1>1, <1>2
    <2> QED BY <2>1 DEF Abstract!Finishes, Ends, Ready, Line
  <1>6. CASE Ends(c)
    <2>1. w' = e'
      BY <1>3, <1>6
    <2>2. Line' = <<>>
      <3>1. Count(w', e') = 0
        BY <2>1, <1>3, IndexFacts
      <3> QED BY <3>1, <1>1, RingNone
    <2>3. Ready' = Ring([buf EXCEPT ![e % INPUT_BUF_SIZE] = c], r, Count(r, e) + 1)
      BY <1>1, <1>3, <2>1
    <2>4. Ring([buf EXCEPT ![e % INPUT_BUF_SIZE] = c], r, Count(r, e) + 1)
            = Append(Ring(buf, r, Count(r, e)), c)
      <3>1. Count(r, e) < INPUT_BUF_SIZE
        BY <1>3
      <3> HIDE ConsoleAssumption
      <3> QED BY Zenon, <3>1, <1>0, RingPut
    <2>5. Ring(buf, r, Count(r, w) + Count(w, e)) = Ring(buf, r, Count(r, w)) \o Ring(buf, w, Count(w, e))
      <3> HIDE ConsoleAssumption
      <3> QED BY Zenon, <1>0, <1>2, RingConcat
    <2>6. Ring(buf, r, Count(r, e)) = Ready \o Line
      BY <2>5, <1>1, <1>2
    <2>7. Append(Ready \o Line, c) = Ready \o Append(Line, c)
      BY <1>1
    <2>8. Ready' = Ready \o Append(Line, c)
      BY Zenon, <2>3, <2>4, <2>6, <2>7
    <2> QED BY <1>4, <1>5, <1>6, <2>2, <2>8 DEF Abstract!Type, Ready, Line
  <1>7. CASE ~Ends(c)
    <2>1. w' = w
      BY <1>3, <1>7
    <2>2. Line' = Append(Line, c)
      <3>1. Ring([buf EXCEPT ![e % INPUT_BUF_SIZE] = c], w, Count(w, e) + 1)
              = Append(Ring(buf, w, Count(w, e)), c)
        <4>1. Count(w, e) < INPUT_BUF_SIZE
          BY <1>3
        <4> HIDE ConsoleAssumption
        <4> QED BY Zenon, <4>1, <1>0, RingPut
      <3> QED BY Zenon, <3>1, <2>1, <1>1, <1>3
    <2>3. Ready' = Ready
      <3>1. Ring([buf EXCEPT ![e % INPUT_BUF_SIZE] = c], r, Count(r, w)) = Ring(buf, r, Count(r, w))
        <4>1. Count(r, w) <= Count(r, e) /\ Count(r, e) < INPUT_BUF_SIZE
          BY <1>2, <1>3
        <4> HIDE ConsoleAssumption
        <4> QED BY ZenonT(30), <4>1, <1>0, <1>2, RingKeep
      <3> QED BY <3>1, <2>1, <1>1, <1>3
    <2> QED BY <1>4, <1>5, <1>7, <2>2, <2>3 DEF Abstract!Type, Ready, Line
  <1> QED BY <1>6, <1>7

\* Backspace.
LEMMA EraseStep ==
  ASSUME RingInv, RingInv', intr_erase
  PROVE  Abstract!Erase
  <1>1. e # w /\ e' = Down(e) /\ UNCHANGED <<buf, r, w>>
    BY DEF intr_erase, Erasable
  <1>2. Count(w', e') = Count(w, e) - 1
    BY <1>1, RingErase
  <1>3. PICK m \in Nat : m = Count(w, e) /\ m > 0
    BY <1>1, Distances
  <1>4. /\ w \in 0..(WORD - 1) /\ buf \in [0..(INPUT_BUF_SIZE - 1) -> Input]
    BY DEF RingInv
  <1>5. Ring(buf, w, m - 1) = SubSeq(Ring(buf, w, m), 1, m - 1)
    <2> HIDE ConsoleAssumption
    <2> QED BY <1>3, <1>4, RingDrop
  <1>6. /\ Ready = Ring(buf, r, Count(r, w))
        /\ Line = Ring(buf, w, m) /\ Line \in Seq(Input) /\ Len(Line) = m
        /\ Ready' = Ring(buf', r', Count(r', w')) /\ Line' = Ring(buf', w', m - 1)
    BY <1>2, <1>3, PartsAreRings, PartsAreRingsNext
  <1>7. Line' = SubSeq(Line, 1, Len(Line) - 1) /\ Ready' = Ready
    BY <1>1, <1>5, <1>6
  <1>8. Line # <<>>
    BY <1>3, <1>6
  <1> QED BY <1>7, <1>8 DEF Abstract!Erase, Ready, Line

\* Control-U.
LEMMA KillStep ==
  ASSUME RingInv, RingInv', intr_kill
  PROVE  Abstract!Kill
  <1>1. e' = w /\ UNCHANGED <<buf, r, w>>
    BY KillsLine DEF intr_kill
  <1>2. Count(w', e') = 0
    BY <1>1, RingKill
  <1>3. /\ Ready = Ring(buf, r, Count(r, w)) /\ Ready' = Ring(buf', r', Count(r', w'))
        /\ Line' = Ring(buf', w', 0)
    BY <1>2, PartsAreRings, PartsAreRingsNext
  <1>4. Line' = <<>> /\ Ready' = Ready
    BY <1>1, <1>3, RingNone
  <1> QED BY <1>4 DEF Abstract!Kill, Ready, Line

\* A character leaves the ring.
LEMMA ReadStep ==
  ASSUME RingInv, RingInv', r # w, r' = Up(r), UNCHANGED <<buf, w, e>>
  PROVE  Abstract!Read
  <1>1. Count(r', w') = Count(r, w) - 1
    BY RingTake
  <1>2. PICK m \in Nat : m = Count(r, w) /\ m > 0
    BY Distances
  <1>3. r \in 0..(WORD - 1) /\ buf \in [0..(INPUT_BUF_SIZE - 1) -> Input] /\ r' = Succ(r)
    BY Distances DEF RingInv
  <1>4. Ring(buf, Succ(r), m - 1) = Tail(Ring(buf, r, m))
    <2> HIDE ConsoleAssumption
    <2> QED BY <1>2, <1>3, RingGet
  <1>5. /\ Ready = Ring(buf, r, m) /\ Ready \in Seq(Input) /\ Len(Ready) = m
        /\ Ready' = Ring(buf', r', m - 1)
        /\ Line = Ring(buf, w, Count(w, e)) /\ Line' = Ring(buf', w', Count(w', e'))
    BY <1>1, <1>2, PartsAreRings, PartsAreRingsNext
  <1>6. Ready' = Tail(Ready) /\ Line' = Line
    BY <1>3, <1>4, <1>5
  <1>7. Ready # <<>>
    BY <1>2, <1>5
  <1> QED BY <1>6, <1>7 DEF Abstract!Read, Ready, Line

\* Every step is one of LineInput, or stutters.
LEMMA LineInputNext ==
  ConsoleInv /\ ConsoleInv' /\ [Next]_vars => [Abstract!Next]_<<Part(r, w), Part(w, e)>>
  <1> SUFFICES ASSUME ConsoleInv, ConsoleInv', [Next]_vars
               PROVE  Abstract!Next \/ (Part(r, w)' = Part(r, w) /\ Part(w, e)' = Part(w, e))
    OBVIOUS
  <1>0. RingInv /\ RingInv'
    BY DEF ConsoleInv
  <1>1. CASE \E c \in Input : intr_char(c)
    <2>1. PICK c \in Input : intr_char(c)
      BY <1>1
    <2>2. Abstract!Type(c)
      BY <1>0, <2>1, TypeStep
    <2> QED BY <2>2 DEF Abstract!Next, Input
  <1>2. CASE intr_erase
    BY <1>0, <1>2, EraseStep DEF Abstract!Next
  <1>3. CASE intr_kill
    BY <1>0, <1>3, KillStep DEF Abstract!Next
  <1>4. CASE r # w /\ r' = Up(r) /\ UNCHANGED <<buf, w, e>>
    BY <1>0, <1>4, ReadStep DEF Abstract!Next
  <1>5. CASE UNCHANGED cons
    BY <1>5 DEF cons, Part
  <1>6. ASSUME NEW p \in Procs, read_eof(p) \/ read_char(p)
        PROVE  (r # w /\ r' = Up(r) /\ UNCHANGED <<buf, w, e>>) \/ UNCHANGED cons
    BY <1>6 DEF read_eof, read_char, AfterEof, cons
  <1>7. ASSUME NEW p \in Procs,
               \/ read_woken(p) \/ read_empty(p) \/ read_sleep(p) \/ kill(p)
               \/ \E n \in 1..MaxN : read(p, n)
        PROVE  UNCHANGED cons
    BY Zenon, <1>7 DEF read_woken, read_empty, read_sleep, kill, read, cons
  <1>8. CASE UNCHANGED vars
    BY <1>5, <1>8 DEF vars, cons
  <1> QED BY <1>1, <1>2, <1>3, <1>4, <1>5, <1>6, <1>7, <1>8 DEF Next, Reader, Input

\* A new console is empty.
LEMMA LineInputInit == Init => Abstract!Init
  <1> SUFFICES ASSUME Init PROVE Part(r, w) = <<>> /\ Part(w, e) = <<>>
    BY DEF Abstract!Init
  <1>1. r = 0 /\ w = 0 /\ e = 0
    BY DEF Init
  <1>2. 0 \in 0..(WORD - 1)
    OBVIOUS
  <1>3. Minus(0, 0) = 0
    BY <1>2, IndexFacts
  <1> QED BY <1>1, <1>3 DEF Part

\* consoleintr() and consoleread() implement a line editor in front of a queue,
\* for every size of the ring and every range of its indices that it divides.
THEOREM ImplementsLineInput == Spec => LineInputSpec
  BY Invariant, LineInputInit, LineInputNext, PTL DEF Spec, LineInputSpec, Abstract!Spec
-----------------------------------------------------------------------------
\* An end of file is taken from the ring only by a read that has nothing else to
\* return: every other read leaves it to the next one.
THEOREM EofGivesEmptyReadHolds == Spec => EofGivesEmptyRead
  <1>1. ASSUME ConsoleInv, NEW p \in Procs, read_eof(p), r' # r
        PROVE  rd[p].n = rd[p].target
    <2>1. ~(rd[p].n < rd[p].target)
      BY <1>1 DEF read_eof, AfterEof
    <2>2. rd[p].n <= rd[p].target /\ rd[p] \in Readers
      BY <1>1 DEF ConsoleInv, RdInv
    <2>3. rd[p].n \in 0..MaxN /\ rd[p].target \in 0..MaxN
      BY <2>2, Fields
    <2> QED BY <2>1, <2>2, <2>3
  <1>2. ConsoleInv => [\A p \in Procs : read_eof(p) /\ r' # r => rd[p].n = rd[p].target]_vars
    BY <1>1
  <1> QED BY <1>2, Invariant, PTL DEF EofGivesEmptyRead
=============================================================================
