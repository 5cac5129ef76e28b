------------------------------ MODULE PipeFifo ------------------------------
(***************************************************************************)
(* What a pipe promises (kernel/pipe.c): a bounded first-in first-out      *)
(* queue of bytes that accepts a byte only while its read end is open, and *)
(* whose two ends close once and for all.                                  *)
(***************************************************************************)
EXTENDS Naturals, Sequences

CONSTANTS Byte, PIPESIZE

VARIABLES q,       \* bytes written and not yet read
          ropen,   \* the read end is open
          wopen    \* the write end is open

fvars == <<q, ropen, wopen>>

FInit == q = <<>> /\ ropen = TRUE /\ wopen = TRUE

Put(b) == /\ ropen /\ wopen
          /\ Len(q) < PIPESIZE
          /\ q' = Append(q, b)
          /\ UNCHANGED <<ropen, wopen>>

Get == /\ ropen
       /\ q # <<>>
       /\ q' = Tail(q)
       /\ UNCHANGED <<ropen, wopen>>

CloseRead == ropen /\ ropen' = FALSE /\ UNCHANGED <<q, wopen>>

CloseWrite == wopen /\ wopen' = FALSE /\ UNCHANGED <<q, ropen>>

FNext == (\E b \in Byte : Put(b)) \/ Get \/ CloseRead \/ CloseWrite

FSpec == FInit /\ [][FNext]_fvars
=============================================================================
