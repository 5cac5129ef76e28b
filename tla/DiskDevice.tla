----------------------------- MODULE DiskDevice -----------------------------
(***************************************************************************)
(* What virtio_disk_rw() promises the buffer cache: between the call and   *)
(* the return the block is transferred exactly once, in one step.          *)
(***************************************************************************)
CONSTANTS Procs, Blocks, Val

VARIABLES disk,    \* contents of every block
          request  \* of each process: its call, and whether it was served

Idle == [write |-> FALSE, block |-> CHOOSE b \in Blocks : TRUE,
         data |-> CHOOSE v \in Val : TRUE, state |-> "idle"]

DInit == disk \in [Blocks -> Val] /\ request = [p \in Procs |-> Idle]

Call(p, w, b, v) ==
  /\ request[p].state = "idle"
  /\ request' = [request EXCEPT ![p] =
                   [write |-> w, block |-> b, data |-> v, state |-> "called"]]
  /\ UNCHANGED disk

Transfer(p) ==
  LET r == request[p] IN
  /\ r.state = "called"
  /\ disk' = IF r.write THEN [disk EXCEPT ![r.block] = r.data] ELSE disk
  /\ request' = [request EXCEPT ![p].state = "served",
                   ![p].data = IF r.write THEN @ ELSE disk[r.block]]

Return(p) ==
  /\ request[p].state = "served"
  /\ request' = [request EXCEPT ![p] = Idle]
  /\ UNCHANGED disk

DNext ==
  \E p \in Procs :
    \/ \E w \in BOOLEAN, b \in Blocks, v \in Val : Call(p, w, b, v)
    \/ Transfer(p) \/ Return(p)

DSpec == DInit /\ [][DNext]_<<disk, request>>
=============================================================================
