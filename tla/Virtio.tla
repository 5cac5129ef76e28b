------------------------------- MODULE Virtio -------------------------------
(***************************************************************************)
(* The disk driver of kernel/virtio_disk.c, the device it shares its rings *)
(* with (external: modelled from what the driver relies on), and the claim *)
(* and completion of its interrupt in trap.c and plic.c.                   *)
(*                                                                         *)
(* What virtio_disk_rw() does under vdisk_lock is one step between two     *)
(* sleeps: the device sees nothing of it before the store to avail->idx.   *)
(* virtio_disk_intr() holds the lock too, but the device works on between  *)
(* any two of its accesses.  The caller holds the sleep-lock of the buffer,*)
(* so no two requests in progress are for the same block.  Ring slots that *)
(* were read and headers of freed chains are dead; the model clears them.  *)
(***************************************************************************)
EXTENDS Integers, FiniteSets, FiniteSetsExt

CONSTANTS Procs, Blocks, Val,
          NUM,   \* descriptors, and entries of each ring
          IDX,   \* avail->idx, used->idx and used_idx count modulo IDX (2^16)
          NoProc \* no buffer

VirtioAssumption == /\ NUM \in Nat \ {0}
                           /\ IDX \in Nat \ {0} /\ IDX % NUM = 0
                           /\ NoProc \notin Procs

Desc == 0..NUM - 1
None == NUM   \* a descriptor without VRING_DESC_F_NEXT

VARIABLES
  free, next,          \* disk.free, and next/flags of the descriptors
  ops, addr,           \* request in each header; buffer of a data descriptor
  info,                \* disk.info: b and status
  availring, availidx, usedring, usedidx,  \* memory shared with the device
  used_idx,            \* the driver's position in the used ring
  lastavail, fetched, moved, unraised,  \* inside the device: its position in
                       \* the avail ring, requests it works on, those whose
                       \* data it has moved, and an interrupt to raise
  line,                \* the device asserts its interrupt
  intr,                \* virtio_disk_intr(): "off", "ack" or "loop"
  pc, head, req, data, busy,  \* of each call: where it is, idx[0], what it is
                       \* to do, b->data and b->disk
  disk, panicked

drv == <<free, next, ops, addr, info, availring, availidx>>
dev == <<lastavail, fetched, moved, unraised, usedring, usedidx, disk>>
call == <<pc, head, req, data, busy>>
vars == <<drv, dev, call, used_idx, line, intr, panicked>>

NoReq == [write |-> FALSE, block |-> CHOOSE b \in Blocks : TRUE]
NoData == CHOOSE v \in Val : TRUE

\* virtio_disk_init()
Init ==
  /\ free = Desc
  /\ next = [i \in Desc |-> None]
  /\ ops = [i \in Desc |-> NoReq]
  /\ addr = [i \in Desc |-> NoProc]
  /\ info = [i \in Desc |-> [b |-> NoProc, status |-> 0]]
  /\ availring = [i \in Desc |-> 0] /\ availidx = 0
  /\ usedring = [i \in Desc |-> 0] /\ usedidx = 0 /\ used_idx = 0
  /\ lastavail = 0 /\ fetched = {} /\ moved = {} /\ unraised = FALSE
  /\ line = FALSE /\ intr = "off"
  /\ pc = [p \in Procs |-> "idle"]
  /\ head = [p \in Procs |-> None]
  /\ req = [p \in Procs |-> NoReq]
  /\ data = [p \in Procs |-> NoData]
  /\ busy = [p \in Procs |-> FALSE]
  /\ disk \in [Blocks -> Val]
  /\ panicked = FALSE

\* Mutant: an index that does not wrap around.
Bump_wide(i) == i + 1

Bump(i) == (i + 1) % IDX

\* A process can run the driver: it gets vdisk_lock.
Runs(p, where) == pc[p] = where /\ intr = "off" /\ ~panicked

(***************************************************************************)
(* virtio_disk_rw()                                                        *)
(***************************************************************************)
\* bread() and bwrite() call with a locked buffer; what a buffer that is to
\* be read holds before does not matter.
Call(p, w, b, v) ==
  /\ pc[p] = "idle" /\ ~panicked
  /\ \A q \in Procs : pc[q] # "idle" => req[q].block # b
  /\ w \/ v = NoData
  /\ pc' = [pc EXCEPT ![p] = "alloc"]
  /\ req' = [req EXCEPT ![p] = [write |-> w, block |-> b]]
  /\ data' = [data EXCEPT ![p] = v]
  /\ UNCHANGED <<drv, dev, head, busy, used_idx, line, intr, panicked>>

\* Mutant: nobody is told of the descriptors.
wakeup_desc_lost(s) == s

\* wakeup(&disk.free[0]) of free_desc()
wakeup_desc(s) == [p \in Procs |-> IF s[p] = "nodesc" THEN "alloc" ELSE s[p]]

\* Mutant: descriptors of a failed attempt are kept.
Undone_not(got) == free \ got

\* free_desc() of what alloc3_desc() got before it failed.
Undone(got) == free

\* alloc3_desc() fails: those it got are given back, and that wakes the
\* other waiters; then sleep().
alloc3_fail(p) ==
  /\ Runs(p, "alloc") /\ Cardinality(free) < 3
  /\ free' = Undone(free)
  /\ pc' = IF free = {} THEN [pc EXCEPT ![p] = "nodesc"]
           ELSE [wakeup_desc(pc) EXCEPT ![p] = "nodesc"]
  /\ UNCHANGED <<next, ops, addr, info, availring, availidx, dev, head, req,
                 data, busy, used_idx, line, intr, panicked>>

\* alloc_desc() three times: the lowest free descriptors.
alloc3_desc == LET a == Min(free)
                   b == Min(free \ {a}) IN
               <<a, b, Min(free \ {a, b})>>

\* Descriptors, header, info and avail ring, up to the first test of b->disk.
submit(p) ==
  LET idx == alloc3_desc IN
  /\ Runs(p, "alloc") /\ Cardinality(free) >= 3
  /\ free' = free \ {idx[1], idx[2], idx[3]}
  /\ next' = [next EXCEPT ![idx[1]] = idx[2], ![idx[2]] = idx[3],
                          ![idx[3]] = None]
  /\ ops' = [ops EXCEPT ![idx[1]] = req[p]]
  /\ addr' = [addr EXCEPT ![idx[2]] = p]
  /\ info' = [info EXCEPT ![idx[1]] = [b |-> p, status |-> 255]]
  /\ busy' = [busy EXCEPT ![p] = TRUE]
  /\ head' = [head EXCEPT ![p] = idx[1]]
  /\ availring' = [availring EXCEPT ![availidx % NUM] = idx[1]]
  /\ availidx' = Bump(availidx)
  /\ pc' = [pc EXCEPT ![p] = "wait"]
  /\ UNCHANGED <<dev, req, data, used_idx, line, intr, panicked>>

\* while(b->disk == 1) sleep(b, ...)
wait(p) ==
  /\ Runs(p, "wait") /\ busy[p]
  /\ pc' = [pc EXCEPT ![p] = "asleep"]
  /\ UNCHANGED <<drv, dev, head, req, data, busy, used_idx, line, intr,
                 panicked>>

\* Mutant: a request is over when its process is woken up.
Finished_woken(p) == TRUE

Finished(p) == ~busy[p]

\* Mutant: only the head of the chain is freed.
Chain_head(h) == {h}

\* The descriptors free_chain() visits.
Chain(h) == {h, next[h], next[next[h]]}

\* The end: info.b = 0, free_chain() with its wakeups, return.
finish(p) ==
  LET h == head[p] IN
  /\ Runs(p, "wait") /\ Finished(p)
  /\ panicked' = (Chain(h) \intersect free # {})
  /\ info' = [info EXCEPT ![h] = [b |-> NoProc, status |-> 0]]
  /\ ops' = [ops EXCEPT ![h] = NoReq]
  /\ free' = free \union Chain(h)
  /\ next' = [i \in Desc |-> IF i \in Chain(h) THEN None ELSE next[i]]
  /\ addr' = [i \in Desc |-> IF i \in Chain(h) THEN NoProc ELSE addr[i]]
  /\ pc' = [wakeup_desc(pc) EXCEPT ![p] = "idle"]
  /\ head' = [head EXCEPT ![p] = None]
  /\ req' = [req EXCEPT ![p] = NoReq]
  /\ data' = [data EXCEPT ![p] = NoData]
  /\ UNCHANGED <<availring, availidx, dev, busy, used_idx, line, intr>>

\* kill() makes a sleeper look at its condition once more.
kill(p) ==
  /\ pc[p] \in {"nodesc", "asleep"} /\ ~panicked
  /\ pc' = [pc EXCEPT ![p] = IF @ = "nodesc" THEN "alloc" ELSE "wait"]
  /\ UNCHANGED <<drv, dev, head, req, data, busy, used_idx, line, intr,
                 panicked>>

(***************************************************************************)
(* The device: it fetches requests in order and serves them in any order.  *)
(***************************************************************************)
Fetch ==
  /\ lastavail # availidx
  /\ fetched' = fetched \union {availring[lastavail % NUM]}
  /\ lastavail' = Bump(lastavail)
  /\ availring' = [availring EXCEPT ![lastavail % NUM] = 0]
  /\ UNCHANGED <<free, next, ops, addr, info, availidx, moved, unraised, usedring,
                 usedidx, disk, call, used_idx, line, intr, panicked>>

\* A chain the driver took back under the device moves nothing.
Move(h) ==
  LET p == IF next[h] = None THEN NoProc ELSE addr[next[h]]
      r == ops[h] IN
  /\ h \in fetched \ moved
  /\ moved' = moved \union {h}
  /\ disk' = IF r.write /\ p # NoProc
             THEN [disk EXCEPT ![r.block] = data[p]] ELSE disk
  /\ data' = IF ~r.write /\ p # NoProc
             THEN [data EXCEPT ![p] = disk[r.block]] ELSE data
  /\ info' = [info EXCEPT ![h].status = 0]
  /\ UNCHANGED <<free, next, ops, addr, availring, availidx, lastavail,
                 fetched, unraised, usedring, usedidx, pc, head, req, busy,
                 used_idx, line, intr, panicked>>

Use(h) ==
  /\ h \in moved
  /\ usedring' = [usedring EXCEPT ![usedidx % NUM] = h]
  /\ usedidx' = Bump(usedidx)
  /\ fetched' = fetched \ {h} /\ moved' = moved \ {h}
  /\ unraised' = TRUE
  /\ UNCHANGED <<drv, lastavail, disk, call, used_idx, line, intr, panicked>>

Raise ==
  /\ unraised
  /\ unraised' = FALSE /\ line' = TRUE
  /\ UNCHANGED <<drv, lastavail, fetched, moved, usedring, usedidx, disk, call,
                 used_idx, intr, panicked>>

Device == Fetch \/ Raise \/ \E h \in Desc : Move(h) \/ Use(h)

(***************************************************************************)
(* virtio_disk_intr()                                                      *)
(***************************************************************************)
\* devintr(): plic_claim() returns VIRTIO0_IRQ to one CPU, which takes the
\* lock.  Nobody can claim it again before plic_complete().
plic_claim ==
  /\ line /\ intr = "off" /\ ~panicked
  /\ intr' = "ack"
  /\ UNCHANGED <<drv, dev, call, used_idx, line, panicked>>

interrupt_ack ==
  /\ intr = "ack"
  /\ line' = FALSE /\ intr' = "loop"
  /\ UNCHANGED <<drv, dev, call, used_idx, panicked>>

\* Mutant: wakeup() of the wrong channel.
wakeup_buf_lost(p) == pc

wakeup_buf(p) == IF pc[p] = "asleep" THEN [pc EXCEPT ![p] = "wait"] ELSE pc

\* Mutant: one entry too many.
MoreUsed_one == used_idx # Bump(usedidx)

MoreUsed == used_idx # usedidx

\* One turn of the loop over the used ring.
completion ==
  LET id == usedring[used_idx % NUM]
      p == info[id].b IN
  /\ intr = "loop" /\ MoreUsed /\ ~panicked
  /\ IF info[id].status # 0 \/ p = NoProc
     THEN panicked' = TRUE /\ UNCHANGED <<busy, pc>>
     ELSE /\ busy' = [busy EXCEPT ![p] = FALSE]
          /\ pc' = wakeup_buf(p)
          /\ UNCHANGED panicked
  /\ used_idx' = Bump(used_idx)
  /\ usedring' = [usedring EXCEPT ![used_idx % NUM] = 0]
  /\ UNCHANGED <<drv, lastavail, fetched, moved, unraised, usedidx, disk, head,
                 req, data, line, intr>>

\* The loop ends: release, plic_complete().
plic_complete ==
  /\ intr = "loop" /\ ~MoreUsed
  /\ intr' = "off"
  /\ UNCHANGED <<drv, dev, call, used_idx, line, panicked>>

\* Mutant: the interrupt is acknowledged after the ring was read.
virtio_disk_intr_late ==
  \/ plic_claim \/ completion
  \/ intr = "ack" /\ intr' = "loop"
     /\ UNCHANGED <<drv, dev, call, used_idx, line, panicked>>
  \/ intr = "loop" /\ used_idx = usedidx /\ intr' = "done"
     /\ UNCHANGED <<drv, dev, call, used_idx, line, panicked>>
  \/ intr = "done" /\ intr' = "off" /\ line' = FALSE
     /\ UNCHANGED <<drv, dev, call, used_idx, panicked>>

virtio_disk_intr == plic_claim \/ interrupt_ack \/ completion \/ plic_complete

virtio_disk_rw(p) == alloc3_fail(p) \/ submit(p) \/ wait(p) \/ finish(p)

Halted == panicked /\ UNCHANGED vars

Next ==
  \/ Halted \/ Device \/ virtio_disk_intr
  \/ \E p \in Procs : \/ virtio_disk_rw(p) \/ kill(p)
                      \/ \E w \in BOOLEAN, b \in Blocks, v \in Val :
                           Call(p, w, b, v)

Spec == Init /\ [][Next]_vars

\* The device works and interrupts, CPUs take the interrupt, and a process
\* that is runnable gets to run.
Fairness ==
  /\ WF_vars(Fetch) /\ WF_vars(Raise)
  /\ \A h \in Desc : WF_vars(Move(h)) /\ WF_vars(Use(h))
  /\ WF_vars(virtio_disk_intr)
  /\ \A p \in Procs : SF_vars(wait(p)) /\ SF_vars(finish(p))

LiveSpec == Spec /\ Fairness
-----------------------------------------------------------------------------
(***************************************************************************)
(* Properties.                                                             *)
(***************************************************************************)
\* Type invariant.
TypeOK ==
  /\ free \subseteq Desc
  /\ next \in [Desc -> Desc \union {None}]
  /\ ops \in [Desc -> [write : BOOLEAN, block : Blocks]]
  /\ addr \in [Desc -> Procs \union {NoProc}]
  /\ info \in [Desc -> [b : Procs \union {NoProc}, status : {0, 255}]]
  /\ availring \in [Desc -> Desc] /\ usedring \in [Desc -> Desc]
  /\ {availidx, usedidx, used_idx, lastavail} \subseteq 0..IDX - 1
  /\ moved \subseteq fetched /\ fetched \subseteq Desc
  /\ unraised \in BOOLEAN /\ line \in BOOLEAN /\ panicked \in BOOLEAN
  /\ intr \in {"off", "ack", "loop"}
  /\ pc \in [Procs -> {"idle", "alloc", "nodesc", "wait", "asleep"}]
  /\ head \in [Procs -> Desc \union {None}]
  /\ req \in [Procs -> [write : BOOLEAN, block : Blocks]]
  /\ data \in [Procs -> Val] /\ disk \in [Blocks -> Val]
  /\ busy \in [Procs -> BOOLEAN]

Submitted == {p \in Procs : pc[p] \in {"wait", "asleep"}}
ChainOf(p) == {head[p], next[head[p]], next[next[head[p]]]}

\* Every descriptor is free or in the chain of exactly one request: failed
\* attempts of alloc3_desc() leak none, and no completion frees another's.
DescOwned ==
  /\ free = Desc \ UNION {ChainOf(p) : p \in Submitted}
  /\ \A p \in Submitted : Cardinality(ChainOf(p)) = 3
  /\ \A p, q \in Submitted : p # q => ChainOf(p) \intersect ChainOf(q) = {}

\* No panic of the driver, and no completion for a request nobody waits for,
\* even when the three 16-bit indices wrap around.
NoPanic == ~panicked

\* No lost wakeup on the descriptors: who sleeps for some could not go on.
DescSleepJustified ==
  (\E p \in Procs : pc[p] = "nodesc") => Cardinality(free) < 3

\* What the device still has to do to a request, or the driver to hear of it.
DevRequest(p) ==
  IF pc[p] = "idle" THEN [write |-> FALSE, block |-> NoReq.block,
                          data |-> NoData, state |-> "idle"]
  ELSE [write |-> req[p].write, block |-> req[p].block, data |-> data[p],
        state |-> IF pc[p] \in {"wait", "asleep"} /\ info[head[p]].status = 0
                  THEN "served" ELSE "called"]
Dev == INSTANCE DiskDevice WITH request <- [p \in Procs |-> DevRequest(p)]

\* The driver, its rings and interrupts implement a device that serves each
\* call once, between call and return: virtio_disk_rw() does not return
\* early, does not take another's completion for its own, and moves the
\* right buffer, in whatever order the device serves its requests.
DeviceSpec == Dev!DSpec

\* A finished request does not go unnoticed: while entries of the used ring are
\* unread an interrupt is about to be raised, pending or being served, also when
\* the device finishes one between the acknowledgement and the end of the scan;
\* and nobody sleeps for a request that was reported.
CompletionsNoticed ==
  /\ used_idx # usedidx => unraised \/ line \/ intr # "off"
  /\ \A p \in Procs : pc[p] = "asleep" => busy[p]
=============================================================================
