------------------------------ MODULE Console ------------------------------
(***************************************************************************)
(* Console input: consoleintr(), the line discipline run by the UART's      *)
(* interrupt, and consoleread(), run by any number of processes             *)
(* (kernel/console.c), with kill().                                         *)
(*                                                                         *)
(* A step is one turn of consoleread's loop, or one interrupt; cons.lock is *)
(* held through a read's turns until it sleeps or returns, and an interrupt *)
(* needs it.  sleep() releases the lock and marks the process in one step   *)
(* (Proc shows why).  The indices are uints that wrap at WORD.  Echoing is  *)
(* output only and left out, as is control-P.                               *)
(***************************************************************************)
EXTENDS Naturals, Sequences

CONSTANTS Procs,           \* reading processes
          Chars,           \* ordinary characters
          NL, EOF,         \* newline and control-D
          INPUT_BUF_SIZE,  \* room in the buffer
          WORD,            \* 2^32, the range of a uint
          MaxN,            \* the largest count a read asks for
          NoProc           \* the owner of a free lock

ASSUME ConsoleAssumption ==
  /\ INPUT_BUF_SIZE \in Nat \ {0} /\ WORD \in Nat
  /\ WORD % INPUT_BUF_SIZE = 0 /\ WORD > INPUT_BUF_SIZE
  /\ MaxN \in Nat /\ NoProc \notin Procs

VARIABLES
  buf, r, w, e,   \* cons: the ring, and the read, write and edit indices
  lock,           \* who holds cons.lock between steps
  rd              \* readers: where they are, n, target, killed

cons == <<buf, r, w, e>>
vars == <<buf, r, w, e, lock, rd>>

Idle(killed) == [pc |-> "idle", n |-> 0, target |-> 0, killed |-> killed]

Init ==
  /\ buf = [i \in 0..(INPUT_BUF_SIZE - 1) |-> NL]
  /\ r = 0 /\ w = 0 /\ e = 0
  /\ lock = NoProc
  /\ rd = [p \in Procs |-> Idle(FALSE)]

Slot(i) == i % INPUT_BUF_SIZE
Up(i)   == (i + 1) % WORD
Down(i) == (i + WORD - 1) % WORD
Minus(i, j) == (i + WORD - j) % WORD    \* unsigned subtraction

\* wakeup(&cons.r).
Woken(q) == [p \in Procs |-> IF q[p].pc = "sleep" THEN [q[p] EXCEPT !.pc = "woken"] ELSE q[p]]

-----------------------------------------------------------------------------
(***************************************************************************)
(* consoleintr().                                                           *)
(***************************************************************************)

\* Mutant: one character more than there is room for.
Room_late(i, j) == Minus(i, j) <= INPUT_BUF_SIZE

Room(i, j) == Minus(i, j) < INPUT_BUF_SIZE

\* Mutant: a full buffer does not finish the line.
Finished_full(c, i) == c = NL \/ c = EOF

\* The line is finished by c, with the edit index i behind it.
Finished(c, i) == c = NL \/ c = EOF \/ Minus(i, r) = INPUT_BUF_SIZE

\* Mutant: nobody is woken.
LineWakes_not(q) == q

LineWakes(q) == Woken(q)

\* An ordinary character, newline or control-D; it is dropped without room.
intr_char(c) ==
  /\ lock = NoProc
  /\ Room(e, r)
  /\ buf' = [buf EXCEPT ![Slot(e)] = c]
  /\ e' = Up(e)
  /\ IF Finished(c, e') THEN w' = e' /\ rd' = LineWakes(rd) ELSE UNCHANGED <<w, rd>>
  /\ UNCHANGED <<r, lock>>

\* Mutant: finished lines can be erased.
Erasable_all == e # r

\* There is something to erase.
Erasable == e # w

\* Backspace and delete.
intr_erase ==
  /\ lock = NoProc
  /\ Erasable
  /\ e' = Down(e)
  /\ UNCHANGED <<buf, r, w, lock, rd>>

\* Control-U: back to the last newline, or to what was handed over.
intr_kill ==
  /\ lock = NoProc
  /\ LET back == CHOOSE k \in 0..Minus(e, w) :
                   /\ \A i \in 1..k : buf[Slot(Minus(e, i))] # NL
                   /\ k = Minus(e, w) \/ buf[Slot(Minus(e, k + 1))] = NL
     IN e' = Minus(e, back)
  /\ UNCHANGED <<buf, r, w, lock, rd>>

-----------------------------------------------------------------------------
(***************************************************************************)
(* consoleread().                                                           *)
(***************************************************************************)

read(p, n) ==
  /\ rd[p].pc = "idle" /\ lock = NoProc
  /\ lock' = p
  /\ rd' = [rd EXCEPT ![p] = [@ EXCEPT !.pc = "loop", !.n = n, !.target = n]]
  /\ UNCHANGED cons

\* sleep() returns with the lock.
read_woken(p) ==
  /\ rd[p].pc = "woken" /\ lock = NoProc
  /\ lock' = p
  /\ rd' = [rd EXCEPT ![p].pc = "loop"]
  /\ UNCHANGED cons

\* Nothing is finished: give up when killed, else go to sleep.
read_empty(p) ==
  /\ rd[p].pc = "loop" /\ rd[p].n > 0 /\ r = w
  /\ IF rd[p].killed THEN lock' = NoProc /\ rd' = [rd EXCEPT ![p] = Idle(TRUE)]
                     ELSE rd' = [rd EXCEPT ![p].pc = "tosleep"] /\ UNCHANGED lock
  /\ UNCHANGED cons

\* sleep(&cons.r, &cons.lock); kill() may have come since the test.
read_sleep(p) ==
  /\ rd[p].pc = "tosleep"
  /\ lock' = NoProc
  /\ rd' = [rd EXCEPT ![p].pc = "sleep"]
  /\ UNCHANGED cons

\* Mutant: the end of file is not put back.
AfterEof_used(v) == Up(r)

\* r after an end of file: it stays for the next read if this one has bytes.
AfterEof(v) == IF v.n < v.target THEN r ELSE Up(r)

read_eof(p) ==
  /\ rd[p].pc = "loop" /\ rd[p].n > 0 /\ r # w
  /\ buf[Slot(r)] = EOF
  /\ r' = AfterEof(rd[p])
  /\ lock' = NoProc
  /\ rd' = [rd EXCEPT ![p] = Idle(@.killed)]
  /\ UNCHANGED <<buf, w, e>>

\* A character is copied out; the read ends with a newline, when enough was
\* read, or because the copy failed (the character is then gone).
read_char(p) ==
  LET c == buf[Slot(r)] IN
  /\ rd[p].pc = "loop" /\ rd[p].n > 0 /\ r # w
  /\ c # EOF
  /\ r' = Up(r)
  /\ \/ /\ c # NL /\ rd[p].n > 1
        /\ rd' = [rd EXCEPT ![p].n = @ - 1]
        /\ UNCHANGED lock
     \/ /\ lock' = NoProc
        /\ rd' = [rd EXCEPT ![p] = Idle(@.killed)]
  /\ UNCHANGED <<buf, w, e>>

\* kill() wakes the process if it sleeps.
Kicked(pc) == IF pc = "sleep" THEN "woken" ELSE pc

kill(p) ==
  /\ ~rd[p].killed
  /\ rd' = [rd EXCEPT ![p] = [rd[p] EXCEPT !.killed = TRUE, !.pc = Kicked(rd[p].pc)]]
  /\ UNCHANGED <<buf, r, w, e, lock>>

Reader(p) == read_woken(p) \/ read_empty(p) \/ read_sleep(p) \/ read_eof(p) \/ read_char(p)

Next ==
  \/ \E c \in Chars \cup {NL, EOF} : intr_char(c)
  \/ intr_erase \/ intr_kill
  \/ \E p \in Procs : Reader(p) \/ kill(p) \/ \E n \in 1..MaxN : read(p, n)

Spec == Init /\ [][Next]_vars

\* A process in the kernel runs again once it is runnable, and a reader that was
\* woken gets cons.lock at last although interrupts and other readers take it.
LiveSpec ==
  /\ Spec
  /\ \A p \in Procs :
       /\ WF_vars(read_empty(p) \/ read_sleep(p) \/ read_eof(p) \/ read_char(p))
       /\ SF_vars(read_woken(p))

-----------------------------------------------------------------------------
(***************************************************************************)
(* Properties.                                                              *)
(***************************************************************************)

\* The shape of the state; the three indices stay in order, within one buffer.
TypeOK ==
  /\ buf \in [0..(INPUT_BUF_SIZE - 1) -> Chars \cup {NL, EOF}]
  /\ {r, w, e} \subseteq 0..(WORD - 1)
  /\ Minus(w, r) <= Minus(e, r) /\ Minus(e, r) <= INPUT_BUF_SIZE
  /\ lock \in Procs \cup {NoProc}
  /\ rd \in [Procs -> [pc : {"idle", "loop", "tosleep", "sleep", "woken"},
                       n : 0..MaxN, target : 0..MaxN, killed : BOOLEAN]]

\* The characters of the ring from index i up to, not including, j.
Part(i, j) == [k \in 1..Minus(j, i) |-> buf[Slot(i + k - 1)]]

Abstract == INSTANCE LineInput WITH
  SIZE <- INPUT_BUF_SIZE, ready <- Part(r, w), line <- Part(w, e)

\* The ring with its three wrapping indices is a line editor in front of a
\* queue: characters are read once and in order, finished input is not edited,
\* and erasing or killing a line touches only the line.
LineInputSpec == Abstract!Spec

\* A reader sleeps only while nothing is finished: no wakeup is lost between the
\* test and the sleep, and none goes to a reader that leaves input behind.
ReaderSleepJustified ==
  \A p \in Procs : rd[p].pc = "sleep" => r = w

\* "Save ^D for next time, to make sure caller gets a 0-byte result": an end of
\* file is consumed only by a read that returns nothing.
EofGivesEmptyRead ==
  [][\A p \in Procs :
       read_eof(p) /\ r' # r => rd[p].n = rd[p].target]_vars

\* A full buffer is readable, so a line too long for it cannot block the console.
FullIsReadable == Minus(e, r) = INPUT_BUF_SIZE => r # w

\* Finished input is taken: a reader in consoleread leaves it, unless other
\* readers take the input first.
InputIsRead ==
  \A p \in Procs : rd[p].pc # "idle" /\ r # w ~> rd[p].pc = "idle" \/ r = w
=============================================================================
