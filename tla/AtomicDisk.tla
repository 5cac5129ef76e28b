----------------------------- MODULE AtomicDisk -----------------------------
(***************************************************************************)
(* What the logging layer promises to file-system calls (kernel/log.c,     *)
(* lines 10-31): reads see the newest contents of every block, updates     *)
(* reach stable storage all together, only while no call is in progress,   *)
(* and a crash takes the volatile contents back to the stable ones.        *)
(***************************************************************************)
EXTENDS Naturals

CONSTANTS Blocks,   \* block numbers of the home area
          Val       \* block contents

VARIABLES mem,      \* what bread() of each block returns
          stable,   \* what a reboot would find
          nops      \* file-system calls in progress

avars == <<mem, stable, nops>>

AInit == /\ mem \in [Blocks -> Val]
         /\ stable = mem
         /\ nops = 0

Begin == nops' = nops + 1 /\ UNCHANGED <<mem, stable>>

WriteBlock(b, v) == /\ nops > 0
                    /\ mem' = [mem EXCEPT ![b] = v]
                    /\ UNCHANGED <<stable, nops>>

End == /\ nops > 0
       /\ nops' = nops - 1
       /\ UNCHANGED <<mem, stable>>

Commit == /\ nops = 0
          /\ stable' = mem
          /\ UNCHANGED <<mem, nops>>

CrashRestart == /\ mem' = stable
                /\ nops' = 0
                /\ UNCHANGED stable

ANext == \/ Begin \/ End \/ Commit \/ CrashRestart
         \/ \E b \in Blocks, v \in Val : WriteBlock(b, v)

ASpec == AInit /\ [][ANext]_avars
=============================================================================
