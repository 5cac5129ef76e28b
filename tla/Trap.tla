-------------------------------- MODULE Trap --------------------------------
(***************************************************************************)
(* Entering and leaving the kernel: trampoline.S, usertrap, usertrapret and *)
(* kerneltrap (kernel/trap.c), kernelvec.S, and the switches between kernel *)
(* threads and schedulers (swtch.S, sched, yield, scheduler of proc.c).     *)
(*                                                                         *)
(* A hart has the control registers a trap and sret use, the page table,    *)
(* tp, and the registers of user code: a program counter and regs, which    *)
(* stands for all the others.  A thread is at a label of its kernel code.   *)
(* A trap may come wherever the hardware allows one.  What a system call    *)
(* does is abstracted to: run with interrupts on, perhaps give up the hart, *)
(* return another value than a0 had.  Locks are in Spinlock, the states of  *)
(* processes in Proc; the fsinit() of the first forkret() is left out.      *)
(***************************************************************************)
EXTENDS Integers, Sequences

CONSTANTS Harts,    \* numbers, from 1
          Threads,  \* numbers, from 1
          Kernel    \* satp of the kernel's page table, and no thread: 0

TrapAssumption == Harts \subseteq Nat \ {0} /\ Threads \subseteq Nat \ {0} /\ Kernel = 0

VARIABLES h,      \* the registers of each hart, and the thread that runs on it
          k,      \* each thread: label, trapframe, saved frame of kerneltrap, intena
          sfr,    \* the frame of kerneltrap on each scheduler's stack
          expect, \* history: what each user program should find when it runs
          panic   \* panicked, or ran the wrong trap vector

vars == <<h, k, sfr, expect, panic>>

\* User program counters: the code of a process goes round.
After(pc) == IF pc = "u0" THEN "u1" ELSE "u0"

Regs(t, n) == [who |-> t, n |-> n]
NoFrame == [at |-> "none", spp |-> "S", spie |-> FALSE, tp |-> 0]

\* main() has set stvec (trapinithart) and every hart is in its scheduler; each
\* thread is new and starts in forkret().
Init ==
  /\ h = [c \in Harts |-> [mode |-> "S", sie |-> TRUE, spp |-> "S", spie |-> FALSE, stvec |-> "kernel",
                           sepc |-> "none", cause |-> "none", satp |-> Kernel, tp |-> c, on |-> Kernel,
                           pc |-> "none", regs |-> Regs(0, 0)]]
  /\ k = [t \in Threads |-> [at |-> "forkret", ready |-> TRUE, intena |-> FALSE, frame |-> NoFrame,
                             epc |-> "u0", regs |-> Regs(t, 0), hartid |-> 0]]
  /\ sfr = [c \in Harts |-> NoFrame]
  /\ expect = [t \in Threads |-> [pc |-> "u0", n |-> 0]]
  /\ panic = FALSE

-----------------------------------------------------------------------------
(* The hardware. *)

\* The registers after a trap with this cause taken at this place.
Trapped(r, cause, at) ==
  [r EXCEPT !.mode = "S", !.sie = FALSE, !.spie = (r.mode = "U") \/ r.sie, !.spp = r.mode,
            !.sepc = at, !.cause = cause]

\* sret.
Sret(r) == [r EXCEPT !.mode = r.spp, !.sie = r.spie, !.spp = "U", !.spie = TRUE]

\* User code runs: its registers and program counter change.
user_step(c) ==
  /\ h[c].mode = "U"
  /\ LET t == h[c].on IN
     /\ h' = [h EXCEPT ![c].pc = After(@), ![c].regs.n = 1 - @]
     /\ expect' = [expect EXCEPT ![t] = [pc |-> After(@.pc), n |-> 1 - @.n]]
  /\ UNCHANGED <<k, sfr, panic>>

\* A system call, an interrupt or a fault in user code.
trap_user(c, cause) ==
  /\ h[c].mode = "U"
  /\ panic' = (panic \/ h[c].stvec # "user")
  /\ h' = [h EXCEPT ![c] = Trapped(@, cause, h[c].pc)]
  /\ k' = [k EXCEPT ![h[c].on].at = "uservec"]
  /\ UNCHANGED <<sfr, expect>>

\* An interrupt in the kernel, of a thread or of the scheduler.
trap_kernel(c, cause) ==
  /\ h[c].mode = "S" /\ h[c].sie
  /\ panic' = (panic \/ h[c].stvec # "kernel")
  /\ LET t == h[c].on IN
     IF t # Kernel
     THEN /\ h' = [h EXCEPT ![c] = Trapped(@, cause, k[t].at)]
          /\ k' = [k EXCEPT ![t].at = "kerneltrap"]
          /\ UNCHANGED sfr
     ELSE /\ h' = [h EXCEPT ![c] = Trapped(@, cause, "sched")]
          /\ sfr' = [sfr EXCEPT ![c].at = "kerneltrap"]
          /\ UNCHANGED k
  /\ UNCHANGED expect

-----------------------------------------------------------------------------
(* From user space. *)

On(c, label) == h[c].on # Kernel /\ k[h[c].on].at = label

\* trampoline.S uservec: registers go to the trapframe of the current page table;
\* tp and satp come from it.
uservec(c) ==
  /\ On(c, "uservec")
  /\ LET t == h[c].satp IN
     /\ k' = [k EXCEPT ![t].regs = h[c].regs, ![h[c].on].at = "usertrap"]
     /\ h' = [h EXCEPT ![c].tp = k[t].hartid, ![c].satp = Kernel, ![c].regs = Regs(0, 0), ![c].pc = "none"]
  /\ UNCHANGED <<sfr, expect, panic>>

\* myproc(): the process of the hart that tp names.
myproc(c) == h[h[c].tp].on

\* epc += 4.
Resume(pc) == After(pc)

\* Mutant: interrupts are enabled as soon as stvec is set.
InKernel_on(r) == [r EXCEPT !.stvec = "kernel", !.sie = TRUE]

\* w_stvec(kernelvec); interrupts stay off.
InKernel(r) == [r EXCEPT !.stvec = "kernel"]

\* usertrap(): the trap came from user mode; further traps go to kernelvec.
usertrap(c) ==
  /\ On(c, "usertrap")
  /\ panic' = (panic \/ h[c].spp # "U")
  /\ h' = [h EXCEPT ![c] = InKernel(@)]
  /\ k' = [k EXCEPT ![h[c].on].at = "usertrap_epc"]
  /\ UNCHANGED <<sfr, expect>>

\* sepc is saved, then the cause decides; interrupts are enabled for a system call
\* only.  A process that has been killed, or that faults, exits.
usertrap_cause(c) ==
  /\ On(c, "usertrap_epc")
  /\ LET t == myproc(c)
         cause == h[c].cause
         call == cause = "ecall"
     IN  \E killed \in BOOLEAN :
           /\ h' = [h EXCEPT ![c].sie = @ \/ (call /\ ~killed), ![c].cause = "none"]
           /\ k' = [k EXCEPT ![t].epc = IF call /\ ~killed THEN Resume(h[c].sepc) ELSE h[c].sepc,
                             ![t].at = CASE killed \/ cause = "fault" -> "exit"
                                         [] call -> "syscall"
                                         [] cause = "timer" -> "yield"
                                         [] OTHER -> "ret"]
  /\ UNCHANGED <<sfr, expect, panic>>

\* syscall(): the value returned goes to the trapframe; the user program continues
\* after its ecall, or exits when it was killed meanwhile.
syscall(c) ==
  /\ On(c, "syscall")
  /\ LET t == myproc(c) IN
     \E next \in {"ret", "exit"} :
       /\ k' = [k EXCEPT ![t].regs.n = 1 - @, ![t].at = next]
       /\ expect' = [expect EXCEPT ![t] = [pc |-> After(@.pc), n |-> 1 - @.n]]
  /\ UNCHANGED <<h, sfr, panic>>

\* exit(): the process gives up the hart for good.
exit(c) ==
  /\ On(c, "exit") \/ On(c, "syscall")
  /\ k' = [k EXCEPT ![h[c].on].at = "exited"]
  /\ h' = [h EXCEPT ![c].on = Kernel]
  /\ UNCHANGED <<sfr, expect, panic>>

-----------------------------------------------------------------------------
(* To user space: usertrapret() and userret. *)

\* Mutant: interrupts stay as they are.
IntrOff_not(r) == r

\* intr_off().
IntrOff(r) == [r EXCEPT !.sie = FALSE]

ret_off(c) ==
  /\ On(c, "ret") \/ On(c, "forkret")
  /\ h' = [h EXCEPT ![c] = IntrOff(@)]
  /\ k' = [k EXCEPT ![h[c].on].at = "ret_vec"]
  /\ UNCHANGED <<sfr, expect, panic>>

\* stvec, and the values uservec will need.
ret_vec(c) ==
  /\ On(c, "ret_vec")
  /\ h' = [h EXCEPT ![c].stvec = "user"]
  /\ k' = [k EXCEPT ![myproc(c)].hartid = h[c].tp, ![h[c].on].at = "ret_csr"]
  /\ UNCHANGED <<sfr, expect, panic>>

\* sstatus and sepc.
ret_csr(c) ==
  /\ On(c, "ret_csr")
  /\ h' = [h EXCEPT ![c].spp = "U", ![c].spie = TRUE, ![c].sepc = k[myproc(c)].epc]
  /\ k' = [k EXCEPT ![h[c].on].at = "userret"]
  /\ UNCHANGED <<sfr, expect, panic>>

\* trampoline.S userret: the user's page table, its registers, sret.
userret(c) ==
  /\ On(c, "userret")
  /\ LET t == h[c].on IN
     /\ h' = [h EXCEPT ![c] = [Sret(@) EXCEPT !.satp = t, !.regs = k[t].regs, !.pc = h[c].sepc, !.tp = 0]]
     /\ k' = [k EXCEPT ![t].at = "user"]
  /\ UNCHANGED <<sfr, expect, panic>>

-----------------------------------------------------------------------------
(* Interrupts in the kernel: kernelvec.S and kerneltrap(). *)

Frame(r) == [at |-> r.sepc, spp |-> r.spp, spie |-> r.spie, tp |-> r.tp]

\* kernelvec saves the registers, kerneltrap() sepc and sstatus, then devintr().
kerneltrap(c) ==
  /\ On(c, "kerneltrap")
  /\ panic' = (panic \/ h[c].spp # "S" \/ h[c].sie)
  /\ k' = [k EXCEPT ![h[c].on].frame = Frame(h[c]),
                    ![h[c].on].at = IF h[c].cause = "timer" /\ myproc(c) # Kernel THEN "kyield" ELSE "kerneltrap_end"]
  /\ h' = [h EXCEPT ![c].cause = "none"]
  /\ UNCHANGED <<sfr, expect>>

\* Mutant: sepc and sstatus are left as the yield() left them.
Restored_not(r, f) == r

\* w_sepc() and w_sstatus().
Restored(r, f) == [r EXCEPT !.sepc = f.at, !.spp = f.spp, !.spie = f.spie]

\* Mutant: kernelvec restores tp too.
RestoredTp_saved(r, f) == f.tp

\* kernelvec restores every register but tp.
RestoredTp(r, f) == r.tp

kerneltrap_end(c) ==
  /\ On(c, "kerneltrap_end")
  /\ LET t == h[c].on
         f == k[t].frame
         r == Restored(h[c], f)
     IN  /\ h' = [h EXCEPT ![c] = [Sret(r) EXCEPT !.tp = RestoredTp(r, f)]]
         /\ k' = [k EXCEPT ![t].at = r.sepc, ![t].frame = NoFrame]
  /\ UNCHANGED <<sfr, expect, panic>>

\* The same in the scheduler, which does not yield.
kerneltrap_sched(c) ==
  /\ h[c].on = Kernel /\ sfr[c].at = "kerneltrap"
  /\ panic' = (panic \/ h[c].spp # "S" \/ h[c].sie)
  /\ h' = [h EXCEPT ![c] = [Sret(@) EXCEPT !.cause = "none"]]
  /\ sfr' = [sfr EXCEPT ![c] = NoFrame]
  /\ UNCHANGED <<k, expect>>

-----------------------------------------------------------------------------
(* Switches. *)

\* yield() after a timer interrupt, or a sleep in a system call or in exit():
\* swtch() to the scheduler of this hart, which releases the lock of the process
\* and so leaves interrupts as the thread had them.
sched(c) ==
  /\ On(c, "yield") \/ On(c, "kyield") \/ On(c, "syscall") \/ On(c, "exit")
  /\ LET t == h[c].on IN
     /\ k' = [k EXCEPT ![t].ready = TRUE, ![t].intena = h[c].sie,
                       ![t].at = CASE @ = "yield" -> "ret"
                                   [] @ = "kyield" -> "kerneltrap_end"
                                   [] OTHER -> @]
     /\ h' = [h EXCEPT ![c].on = Kernel]
  /\ UNCHANGED <<sfr, expect, panic>>

\* scheduler(): the next round of the loop enables interrupts.
scheduler_loop(c) ==
  /\ h[c].on = Kernel /\ sfr[c].at = "none" /\ ~h[c].sie
  /\ h' = [h EXCEPT ![c].sie = TRUE]
  /\ UNCHANGED <<k, sfr, expect, panic>>

\* scheduler(): a thread that is ready is switched to and releases its lock.  One
\* that comes back from sched() has its intena; a new one has the scheduler's.
scheduler(c) ==
  /\ h[c].on = Kernel /\ sfr[c].at = "none"
  /\ \E t \in Threads :
       /\ k[t].ready
       /\ k' = [k EXCEPT ![t].ready = FALSE, ![t].intena = FALSE]
       /\ h' = [h EXCEPT ![c].on = t, ![c].sie = IF k[t].at = "forkret" THEN @ ELSE k[t].intena]
  /\ UNCHANGED <<sfr, expect, panic>>

User(c) == user_step(c) \/ (\E cause \in {"ecall", "timer", "device", "fault"} : trap_user(c, cause))
Enter(c) == uservec(c) \/ usertrap(c) \/ usertrap_cause(c) \/ syscall(c) \/ exit(c)
Leave(c) == ret_off(c) \/ ret_vec(c) \/ ret_csr(c) \/ userret(c)
Nested(c) ==
  \/ \E cause \in {"timer", "device"} : trap_kernel(c, cause)
  \/ kerneltrap(c) \/ kerneltrap_end(c) \/ kerneltrap_sched(c)

Switch(c) == sched(c) \/ scheduler_loop(c) \/ scheduler(c)

Step(c) == User(c) \/ Enter(c) \/ Leave(c) \/ Nested(c) \/ Switch(c)

Next == (~panic /\ \E c \in Harts : Step(c))

Spec == Init /\ [][Next]_vars

-----------------------------------------------------------------------------
Labels == {"forkret", "user", "uservec", "usertrap", "usertrap_epc", "syscall", "yield", "exit", "exited", "ret",
           "ret_vec", "ret_csr", "userret", "kerneltrap", "kyield", "kerneltrap_end"}

\* The shape of the state; a thread is at a place of its own code.
TypeOK ==
  /\ \A c \in Harts : h[c].on \in Threads \cup {Kernel} /\ h[c].tp \in Harts \cup {0} /\ h[c].mode \in {"U", "S"}
  /\ \A t \in Threads : k[t].hartid \in Harts \cup {0} /\ k[t].regs.n \in {0, 1} /\ k[t].at \in Labels

\* A user program finds exactly the registers and program counter it had, or the
\* ones its system call gave it, in its own page table, whatever traps, switches
\* and other harts came between.
UserStateKept ==
  \A c \in Harts : h[c].mode = "U" =>
    LET t == h[c].on IN
    /\ h[c].satp = t /\ h[c].pc = expect[t].pc /\ h[c].regs = Regs(t, expect[t].n)

\* Traps go to the vector that fits the mode they are taken in, and the checks on
\* SPP and on interrupts in usertrap() and kerneltrap() never fail.
RightVector == ~panic

\* In the kernel tp is the number of the hart, also after a thread has moved: it
\* is what myproc() and mycpu() go by.
TpIsHart ==
  \A c \in Harts : h[c].mode = "S" /\ ~On(c, "uservec") => h[c].tp = c

\* Kernel code that was interrupted goes on where it was, in supervisor mode and
\* with interrupts on, even when kerneltrap() gave up the hart in between and
\* other traps have used the registers.
InterruptInvisible ==
  [][\A c \in Harts : On(c, "kerneltrap_end") /\ h'[c] # h[c]
        => LET t == h[c].on IN
           /\ k'[t].at = k[t].frame.at /\ k'[t].at \in {"forkret", "syscall", "exit", "ret"}
           /\ h'[c].mode = "S" /\ h'[c].sie /\ h'[c].on = t]_vars
=============================================================================
