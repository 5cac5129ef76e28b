-------------------------------- MODULE Uart --------------------------------
(***************************************************************************)
(* The transmitting half of the UART driver: uartputc(), uartputc_sync(),   *)
(* uartstart() and the transmit side of uartintr() (kernel/uart.c), with    *)
(* consolewrite()'s loop (kernel/console.c) above them and a model of the   *)
(* 16550's transmitter, which is external, below.                           *)
(*                                                                         *)
(* Writers are processes in uartputc(); printers are CPUs in                *)
(* uartputc_sync(), which takes no lock; the handler is the CPU that serves *)
(* the interrupt.  Reading LSR and writing THR are separate steps.  The     *)
(* device sets THR-empty when its FIFO runs empty, raises an interrupt      *)
(* then, and drops the interrupt when ISR is read or THR is written.        *)
(***************************************************************************)
EXTENDS Naturals, Sequences, FiniteSets

CONSTANTS Writers,           \* processes that write
          Printers,          \* CPUs that print
          Handler,           \* the CPU that serves the interrupt
          UART_TX_BUF_SIZE,  \* slots of the ring
          FIFO,              \* characters the device's FIFO holds
          MaxChars,          \* characters each writer or printer sends (a bound)
          NoOne              \* the holder of a free lock

UartAssumption ==
  /\ UART_TX_BUF_SIZE \in Nat \ {0} /\ MaxChars \in Nat
  /\ FIFO \in Nat /\ FIFO > Cardinality(Printers)   \* 16, and NCPU is 8

VARIABLES
  ring, tx_r, tx_w, \* uart_tx_buf and its indices
  lock,             \* who holds uart_tx_lock between steps
  pc,               \* where each writer, printer and the handler is
  left,             \* the characters each has still to send
  fifo, irq,        \* the device: FIFO, interrupt request
  taken, sent,      \* history: characters taken by uartputc, sent by the device
  overrun           \* a character was written to a full FIFO

vars == <<ring, tx_r, tx_w, lock, pc, left, fifo, irq, taken, sent, overrun>>
buffer == <<ring, tx_r, tx_w, taken>>
device == <<fifo, irq, sent, overrun>>

Actors == Writers \cup Printers \cup {Handler}

Init ==
  /\ ring = [i \in 0..(UART_TX_BUF_SIZE - 1) |-> <<NoOne, 0>>]
  /\ tx_r = 0 /\ tx_w = 0
  /\ lock = NoOne
  /\ pc = [a \in Actors |-> "idle"]
  /\ left = [a \in Actors |-> MaxChars]
  /\ fifo = <<>> /\ irq = FALSE
  /\ taken = <<>> /\ sent = <<>> /\ overrun = FALSE

Char(a) == <<a, MaxChars - left[a] + 1>>     \* the next character of a
Go(a, to) == pc' = [pc EXCEPT ![a] = to]

-----------------------------------------------------------------------------
(***************************************************************************)
(* The device.                                                              *)
(***************************************************************************)

\* Mutant: uartinit leaves the FIFO off.
Depth_one == 1

\* The FIFO is enabled by uartinit.
Depth == FIFO

TxIdle == fifo = <<>>

\* WriteReg(THR, c).
WriteTHR(c) ==
  /\ overrun' = (overrun \/ Len(fifo) = Depth)
  /\ fifo' = IF Len(fifo) = Depth THEN fifo ELSE Append(fifo, c)
  /\ irq' = FALSE
  /\ UNCHANGED sent

Transmit ==
  /\ fifo # <<>>
  /\ fifo' = Tail(fifo)
  /\ sent' = Append(sent, Head(fifo))
  /\ irq' = (irq \/ Tail(fifo) = <<>>)
  /\ UNCHANGED <<ring, tx_r, tx_w, taken, lock, pc, left, overrun>>

-----------------------------------------------------------------------------
(***************************************************************************)
(* uartputc(), called by consolewrite() for each character.                 *)
(***************************************************************************)

\* Mutant: the last slot is not told from none.
Full_late == tx_w = tx_r + UART_TX_BUF_SIZE + 1

Full == tx_w = tx_r + UART_TX_BUF_SIZE

uartputc(a) ==
  /\ pc[a] \in {"idle", "woken"} /\ left[a] > 0
  /\ lock = NoOne
  /\ IF Full
     THEN /\ Go(a, "sleep")
          /\ UNCHANGED <<buffer, lock, left>>
     ELSE /\ ring' = [ring EXCEPT ![tx_w % UART_TX_BUF_SIZE] = Char(a)]
          /\ tx_w' = tx_w + 1
          /\ taken' = Append(taken, Char(a))
          /\ left' = [left EXCEPT ![a] = @ - 1]
          /\ lock' = a
          /\ Go(a, "start")
          /\ UNCHANGED tx_r
  /\ UNCHANGED device

-----------------------------------------------------------------------------
(***************************************************************************)
(* uartstart(), with uart_tx_lock held by a.                                *)
(***************************************************************************)

\* The return of uartstart and the release of the lock.
start_return(a) ==
  /\ lock' = NoOne
  /\ Go(a, "idle")

\* The buffer is empty: read ISR.
start_empty(a) ==
  /\ pc[a] = "start" /\ tx_w = tx_r
  /\ irq' = FALSE
  /\ start_return(a)
  /\ UNCHANGED <<buffer, left, fifo, sent, overrun>>

\* The device is busy: it will interrupt.
start_busy(a) ==
  /\ pc[a] = "start" /\ tx_w # tx_r /\ ~TxIdle
  /\ start_return(a)
  /\ UNCHANGED <<buffer, left, device>>

\* Mutant: nobody is woken.
Woken_not(q) == q

\* wakeup(&uart_tx_r).
Woken(q) == [a \in Actors |-> IF q[a] = "sleep" THEN "woken" ELSE q[a]]

\* A character is taken from the ring, with the device seen idle...
start_take(a) ==
  /\ pc[a] = "start" /\ tx_w # tx_r /\ TxIdle
  /\ tx_r' = tx_r + 1
  /\ pc' = [Woken(pc) EXCEPT ![a] = "write"]
  /\ UNCHANGED <<ring, tx_w, taken, lock, left, device>>

\* ... and written to it.
start_write(a) ==
  /\ pc[a] = "write" /\ a \notin Printers
  /\ WriteTHR(ring[(tx_r - 1) % UART_TX_BUF_SIZE])
  /\ Go(a, "start")
  /\ UNCHANGED <<buffer, lock, left>>

-----------------------------------------------------------------------------
(***************************************************************************)
(* uartputc_sync() and the interrupt.                                       *)
(***************************************************************************)

sync_poll(a) ==
  /\ pc[a] = "idle" /\ left[a] > 0 /\ TxIdle
  /\ Go(a, "write")
  /\ UNCHANGED <<buffer, lock, left, device>>

sync_write(a) ==
  /\ pc[a] = "write"
  /\ WriteTHR(Char(a))
  /\ left' = [left EXCEPT ![a] = @ - 1]
  /\ Go(a, "idle")
  /\ UNCHANGED <<buffer, lock>>

\* Mutant: the interrupt is served for input only.
Serves_input == "idle"

\* What uartintr does after the input: send buffered characters.
Serves == "intr"

\* The PLIC gives the interrupt to a CPU, which serves one at a time.
uartintr ==
  /\ irq /\ pc[Handler] = "idle"
  /\ Go(Handler, Serves)
  /\ irq' = (irq /\ Serves = "intr")
  /\ UNCHANGED <<buffer, lock, left, fifo, sent, overrun>>

uartintr_start ==
  /\ pc[Handler] = "intr" /\ lock = NoOne
  /\ lock' = Handler
  /\ Go(Handler, "start")
  /\ UNCHANGED <<buffer, left, device>>

-----------------------------------------------------------------------------
Start(a) == start_empty(a) \/ start_busy(a) \/ start_take(a) \/ start_write(a)

\* Everything is sent and everyone is back.
Done == /\ \A a \in Actors : pc[a] = "idle"
        /\ \A a \in Writers \cup Printers : left[a] = 0
        /\ fifo = <<>> /\ ~irq
        /\ UNCHANGED vars

Next ==
  \/ \E a \in Writers : uartputc(a)
  \/ \E a \in Writers \cup {Handler} : Start(a)
  \/ \E a \in Printers : sync_poll(a) \/ sync_write(a)
  \/ uartintr \/ uartintr_start
  \/ Transmit
  \/ Done

Spec == Init /\ [][Next]_vars

\* The device goes on sending, its interrupt is taken, and processes and
\* printing CPUs run; a spin lock and a polled register that become free over
\* and over are won at last.
LiveSpec ==
  /\ Spec
  /\ WF_vars(Transmit) /\ WF_vars(uartintr) /\ SF_vars(uartintr_start)
  /\ \A a \in Writers \cup {Handler} : WF_vars(Start(a))
  /\ \A a \in Writers : SF_vars(uartputc(a))
  /\ \A a \in Printers : SF_vars(sync_poll(a)) /\ WF_vars(sync_write(a))

-----------------------------------------------------------------------------
(***************************************************************************)
(* Properties.                                                              *)
(***************************************************************************)

\* The shape of the state; the ring never holds more than it has slots.
TypeOK ==
  /\ tx_w - tx_r \in 0..UART_TX_BUF_SIZE /\ tx_r <= tx_w
  /\ lock \in Actors \cup {NoOne}
  /\ pc \in [Actors -> {"idle", "start", "write", "sleep", "woken", "intr"}]

\* uartputc_sync takes no lock, so a printing CPU and uartstart can both see the
\* transmitter idle and both write: the device's FIFO has room for all of them.
NoOverrun == ~overrun

\* What the device has sent for writers, in the order they handed it over.
FromWriters(s) == SelectSeq(s, LAMBDA c : c[1] \in Writers)

\* Characters of write() are sent once, in the order uartputc took them,
\* whoever moves them to the device and whatever is printed in between.
SentInOrder ==
  /\ Len(FromWriters(sent)) <= Len(taken)
  /\ FromWriters(sent) = SubSeq(taken, 1, Len(FromWriters(sent)))

\* Buffered characters always have somebody to move them: the device is busy and
\* will interrupt, has interrupted, or somebody is in uartstart.
NeverStalled ==
  tx_w # tx_r => \/ fifo # <<>> \/ irq
                 \/ \E a \in Writers \cup {Handler} : pc[a] \in {"start", "write", "intr"}
                 \/ \E a \in Printers : pc[a] = "write"

\* A writer sleeps only while the ring is full.
WriterSleepJustified == \A a \in Writers : pc[a] = "sleep" => Full

\* Everything that is written or printed is sent.
AllSent == <>(Len(sent) = MaxChars * Cardinality(Writers \cup Printers))
=============================================================================
