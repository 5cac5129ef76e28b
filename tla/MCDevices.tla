----------------------------- MODULE MCDevices -----------------------------
(***************************************************************************)
(* The device drivers, for TLC: console input, the transmitter of the UART *)
(* and the disk.                                                           *)
(*                                                                         *)
(* They share no variable, so a product of them would have no behaviour    *)
(* that matters to a property and that one of them alone has not.  One of  *)
(* them moves in a behaviour, the others stay in their initial states.     *)
(* The disk comes twice: with descriptors for two requests and one more,   *)
(* and with descriptors for one request and one more.                      *)
(***************************************************************************)
EXTENDS Console, TLC

CONSTANTS Writers, Printers, Handler, UART_TX_BUF_SIZE, FIFO, MaxChars, NoOne,
          Blocks, Val, NUM, IDX, FEW  \* descriptors, range of an index; few descriptors

VARIABLES
  part,  \* the driver that moves
  ring, tx_r, tx_w, tx_lock, tx_pc, left, fifo, irq, taken, sent, overrun,
  free, next, ops, addr, info, availring, availidx, usedring, usedidx, used_idx, lastavail, fetched, moved,
  unraised, line, intr, pc, head, req, data, busy, disk, panicked

U == INSTANCE Uart WITH lock <- tx_lock, pc <- tx_pc
V == INSTANCE Virtio
F == INSTANCE Virtio WITH NUM <- FEW, IDX <- FEW

ASSUME DevicesAssumption == U!UartAssumption /\ V!VirtioAssumption /\ F!VirtioAssumption

uart == <<ring, tx_r, tx_w, tx_lock, tx_pc, left, fifo, irq, taken, sent, overrun>>
virtio == <<free, next, ops, addr, info, availring, availidx, usedring, usedidx, used_idx, lastavail, fetched, moved,
            unraised, line, intr, pc, head, req, data, busy, disk, panicked>>

\* The disk of a driver that is at rest.
Blank == [b \in Blocks |-> CHOOSE v \in Val : TRUE]

MCInit ==
  /\ part \in {"console", "uart", "virtio", "few"}
  /\ Init /\ U!Init
  /\ IF part = "few" THEN F!Init ELSE V!Init
  /\ part \notin {"virtio", "few"} => disk = Blank

MCNext ==
  /\ UNCHANGED part
  /\ \/ part = "console" /\ Next /\ UNCHANGED <<uart, virtio>>
     \/ part = "uart" /\ U!Next /\ UNCHANGED <<vars, virtio>>
     \/ part = "virtio" /\ V!Next /\ UNCHANGED <<vars, uart>>
     \/ part = "few" /\ F!Next /\ UNCHANGED <<vars, uart>>

MCSpec == MCInit /\ [][MCNext]_<<part, vars, uart, virtio>>

Symmetry == Permutations(Procs)

-----------------------------------------------------------------------------
\* What write() hands to the UART is sent once and in order, and buffered output
\* always has somebody to move it on (see Uart).
OutputRight == U!SentInOrder /\ U!NeverStalled

\* The disk driver serves each call once, between call and return (see Virtio).
DeviceSpec ==
  /\ V!Dev!DInit
  /\ [][/\ part = "virtio" => [V!Dev!DNext]_<<disk, [p \in Procs |-> V!DevRequest(p)]>>
        /\ part = "few" => [F!Dev!DNext]_<<disk, [p \in Procs |-> F!DevRequest(p)]>>]_virtio

\* No finished disk request goes unnoticed, and nobody sleeps for descriptors
\* while there are enough (see Virtio).
CompletionsNoticed ==
  /\ part = "virtio" => V!CompletionsNoticed
  /\ part = "few" => F!CompletionsNoticed /\ F!DescSleepJustified /\ F!DescOwned
=============================================================================
