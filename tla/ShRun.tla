------------------------------- MODULE ShRun -------------------------------
(***************************************************************************)
(* Running commands: runcmd() and main() of the shell (user/sh.c) and       *)
(* init (user/init.c), on top of fork, exit, wait, pipe, dup and close.     *)
(*                                                                         *)
(* A step is a system call; the descriptor shuffle of a pipeline's child    *)
(* changes only its own table and is one step.  The kernel's calls do what  *)
(* Proc, Pipe and Ftable say they do.  A slot number stands for a pid.      *)
(* Programs: "writer" writes Items bytes to fd 1, "reader" reads fd 0 until *)
(* end of file, "quick" does neither, "missing" cannot be executed.         *)
(***************************************************************************)
EXTENDS Integers, FiniteSets, FiniteSetsExt, Sequences

CONSTANTS Procs,      \* process slots, 1 is init
          Pipes,      \* pipes there can be
          Commands,   \* what is typed, parsed
          Items,      \* bytes a writer writes
          PIPESIZE,   \* bytes a pipe holds
          MaxLines    \* bound: lines typed

ShRunAssumption ==
  /\ Procs \subseteq Nat /\ 1 \in Procs
  /\ \A n \in {Items, PIPESIZE, MaxLines} : n \in Nat

VARIABLES proc,   \* slot -> state, parent, program, pc, command, descriptors
          held,   \* pipe -> bytes in it
          typed,  \* lines typed
          dead    \* init has exited: the kernel panics

vars == <<proc, held, typed, dead>>

\* Descriptors 0, 1, 3 and 4; 2 is always the console.
NoFd == [end |-> "none", pipe |-> 0]
Console == [end |-> "console", pipe |-> 0]
File == [end |-> "file", pipe |-> 0]
Fds == {0, 1, 3, 4}
StdFds == [f \in Fds |-> IF f < 3 THEN Console ELSE NoFd]

NoCmd == [type |-> "none"]
Unused == [state |-> "UNUSED", parent |-> 0, prog |-> "none", pc |-> "none", cmd |-> NoCmd,
           fd |-> [f \in Fds |-> NoFd], left |-> 0]

Init ==
  /\ proc = [p \in Procs |-> IF p # 1 THEN Unused
                             ELSE [Unused EXCEPT !.state = "RUN", !.prog = "init", !.pc = "start", !.fd = StdFds]]
  /\ held = [i \in Pipes |-> 0]
  /\ typed = 0 /\ dead = FALSE

-----------------------------------------------------------------------------
(* System calls. *)

Running(p, prog, pc) == proc[p].state = "RUN" /\ proc[p].prog = prog /\ proc[p].pc = pc
Children(p) == {q \in Procs : proc[q].state # "UNUSED" /\ proc[q].parent = p}
Zombies(p) == {q \in Children(p) : proc[q].state = "ZOMBIE"}
Slots == {q \in Procs : proc[q].state = "UNUSED"}
HasEnd(end, i) == \E p \in Procs, f \in Fds : proc[p].fd[f] = [end |-> end, pipe |-> i]

\* Mutant: children stay with the parent that exits.
reparent_not(p) == p

\* reparent(): who gets the children of p.
reparent(p) == 1

\* exit() closes the descriptors and gives the children to init.
Exits(p) ==
  /\ proc' = [q \in Procs |->
                IF q = p THEN [Unused EXCEPT !.state = "ZOMBIE", !.parent = proc[p].parent]
                ELSE IF proc[q].parent = p THEN [proc[q] EXCEPT !.parent = reparent(p)] ELSE proc[q]]
  /\ dead' = (p = 1)
  /\ UNCHANGED held
Exit(p) == Exits(p) /\ UNCHANGED typed

\* fork(): the child runs the program from pc with cmd, the parent goes on at next.
Forks(p, prog, pc, cmd, next) ==
  /\ Slots # {}
  /\ proc' = [proc EXCEPT ![Min(Slots)] = [proc[p] EXCEPT !.parent = p, !.prog = prog, !.pc = pc, !.cmd = cmd],
                          ![p].pc = next]
  /\ UNCHANGED <<held, dead>>

\* fork1() panics when fork() fails: exit(1).
Fork1(p, pc, cmd, next) == (Forks(p, "run", pc, cmd, next) \/ (Slots = {} /\ Exits(p))) /\ UNCHANGED typed

\* wait(0): a zombie child is freed, or there is no child; P is the process after.
Wait(p, next) ==
  /\ \/ \E q \in Zombies(p) : proc' = [proc EXCEPT ![q] = Unused, ![p] = next]
     \/ Children(p) = {} /\ proc' = [proc EXCEPT ![p] = next]
  /\ UNCHANGED <<held, typed, dead>>

Becomes(p, r) == proc' = [proc EXCEPT ![p] = r] /\ UNCHANGED <<held, typed, dead>>

-----------------------------------------------------------------------------
(* init *)

\* fork() and, in the child, exec("sh").
init_start(p) ==
  /\ Running(p, "init", "start")
  /\ \/ Slots # {} /\ proc' = [proc EXCEPT ![Min(Slots)] = [proc[p] EXCEPT !.parent = p, !.prog = "sh", !.pc = "prompt"],
                                           ![p].pc = "wait", ![p].left = Min(Slots)]
                   /\ UNCHANGED <<held, typed, dead>>
     \/ Slots = {} /\ Exit(p)

\* Mutant: the shell is not told from an orphan.
IsShell_never(p, q) == FALSE

\* wpid == pid.
IsShell(p, q) == q = proc[p].left

init_wait(p) ==
  /\ Running(p, "init", "wait")
  /\ \/ \E q \in Zombies(p) :
          /\ proc' = [proc EXCEPT ![q] = Unused, ![p].pc = IF IsShell(p, q) THEN "start" ELSE "wait",
                                  ![p].left = IF IsShell(p, q) THEN 0 ELSE @]
          /\ UNCHANGED <<held, typed, dead>>
     \/ Children(p) = {} /\ Exit(p)

-----------------------------------------------------------------------------
(* The shell's main loop. *)

\* A line is read and a child runs it; end of file ends the shell.
main_line(p) ==
  /\ Running(p, "sh", "prompt") /\ typed < MaxLines
  /\ typed' = typed + 1
  /\ \/ \E cmd \in Commands : Forks(p, "run", "cmd", cmd, "wait")
     \/ Slots = {} /\ Exits(p)
main_eof(p) ==
  /\ Running(p, "sh", "prompt") /\ typed < MaxLines
  /\ typed' = typed + 1
  /\ Exits(p)

\* Mutant: the shell does not wait.
MainWait_not(p) == Becomes(p, [proc[p] EXCEPT !.pc = "prompt"])

MainWait(p) == Wait(p, [proc[p] EXCEPT !.pc = "prompt"])

main_wait(p) == Running(p, "sh", "wait") /\ MainWait(p)

-----------------------------------------------------------------------------
(* runcmd(cmd) *)

At(p, pc, type) == Running(p, "run", pc) /\ proc[p].cmd.type = type

\* Nothing to execute, or the exec() fails: exit.
run_exec(p) ==
  /\ At(p, "cmd", "EXEC")
  /\ IF proc[p].cmd.prog = "missing" THEN Exit(p)
     ELSE Becomes(p, [proc[p] EXCEPT !.prog = proc[p].cmd.prog, !.pc = "go", !.cmd = NoCmd,
                                     !.left = IF proc[p].cmd.prog = "writer" THEN Items ELSE 0])

\* close(fd), open(file): the lowest free descriptor is fd again.
run_redir(p) ==
  /\ At(p, "cmd", "REDIR")
  /\ \/ Becomes(p, [proc[p] EXCEPT !.fd[proc[p].cmd.fd] = File, !.cmd = proc[p].cmd.cmd])
     \/ Exit(p)

run_list(p) == At(p, "cmd", "LIST") /\ Fork1(p, "cmd", proc[p].cmd.left, "list_wait")
run_list_wait(p) ==
  /\ At(p, "list_wait", "LIST")
  /\ Wait(p, [proc[p] EXCEPT !.pc = "cmd", !.cmd = proc[p].cmd.right])

\* pipe(p): fails when there is no pipe left.
FreePipes == {i \in Pipes : ~HasEnd("r", i) /\ ~HasEnd("w", i)}
run_pipe(p) ==
  /\ At(p, "cmd", "PIPE")
  /\ IF FreePipes = {} THEN Exit(p)
     ELSE LET i == Min(FreePipes) IN
          /\ proc' = [proc EXCEPT ![p].pc = "pipe1", ![p].fd[3] = [end |-> "r", pipe |-> i],
                                  ![p].fd[4] = [end |-> "w", pipe |-> i]]
          /\ held' = [held EXCEPT ![i] = 0]
          /\ UNCHANGED <<typed, dead>>

run_pipe1(p) == At(p, "pipe1", "PIPE") /\ Fork1(p, "left", proc[p].cmd, "pipe2")
run_pipe2(p) == At(p, "pipe2", "PIPE") /\ Fork1(p, "right", proc[p].cmd, "pipe3")

\* Mutant: the child keeps its descriptors of the pipe.
Shut_not(fd) == fd

\* close(p[0]) and close(p[1]).
Shut(fd) == [fd EXCEPT ![3] = NoFd, ![4] = NoFd]

\* The children: p[1] becomes 1 on the left, p[0] becomes 0 on the right.
run_left(p) ==
  /\ At(p, "left", "PIPE")
  /\ Becomes(p, [proc[p] EXCEPT !.pc = "cmd", !.cmd = proc[p].cmd.left,
                                !.fd = Shut([proc[p].fd EXCEPT ![1] = proc[p].fd[4]])])
run_right(p) ==
  /\ At(p, "right", "PIPE")
  /\ Becomes(p, [proc[p] EXCEPT !.pc = "cmd", !.cmd = proc[p].cmd.right,
                                !.fd = Shut([proc[p].fd EXCEPT ![0] = proc[p].fd[3]])])

\* Mutant: the parent keeps its ends while it waits.
ParentShut_not(fd) == fd

ParentShut(fd) == Shut(fd)

run_pipe3(p) == At(p, "pipe3", "PIPE") /\ Becomes(p, [proc[p] EXCEPT !.pc = "pipe_wait1", !.fd = ParentShut(@)])
run_pipe_wait1(p) == At(p, "pipe_wait1", "PIPE") /\ Wait(p, [proc[p] EXCEPT !.pc = "pipe_wait2"])

run_pipe_wait2(p) == At(p, "pipe_wait2", "PIPE") /\ Wait(p, [proc[p] EXCEPT !.pc = "exit"])

run_back(p) == At(p, "cmd", "BACK") /\ Fork1(p, "cmd", proc[p].cmd.cmd, "exit")
run_exit(p) == Running(p, "run", "exit") /\ Exit(p)

-----------------------------------------------------------------------------
(* The programs. *)

program_write(p) ==
  /\ Running(p, "writer", "go")
  /\ LET f == proc[p].fd[1] IN
     IF proc[p].left = 0 \/ f.end # "w" \/ ~HasEnd("r", f.pipe) THEN Exit(p)
     ELSE /\ held[f.pipe] < PIPESIZE
          /\ held' = [held EXCEPT ![f.pipe] = @ + 1]
          /\ proc' = [proc EXCEPT ![p].left = @ - 1]
          /\ UNCHANGED <<typed, dead>>

program_read(p) ==
  /\ Running(p, "reader", "go")
  /\ LET f == proc[p].fd[0] IN
     IF f.end # "r" THEN Exit(p)
     ELSE IF held[f.pipe] > 0 THEN held' = [held EXCEPT ![f.pipe] = @ - 1] /\ UNCHANGED <<proc, typed, dead>>
     ELSE ~HasEnd("w", f.pipe) /\ Exit(p)

program_quick(p) == Running(p, "quick", "go") /\ Exit(p)

Step(p) ==
  \/ init_start(p) \/ init_wait(p) \/ main_line(p) \/ main_eof(p) \/ main_wait(p)
  \/ run_exec(p) \/ run_redir(p) \/ run_list(p) \/ run_list_wait(p)
  \/ run_pipe(p) \/ run_pipe1(p) \/ run_pipe2(p) \/ run_left(p) \/ run_right(p)
  \/ run_pipe3(p) \/ run_pipe_wait1(p) \/ run_pipe_wait2(p) \/ run_back(p) \/ run_exit(p)
  \/ program_write(p) \/ program_read(p) \/ program_quick(p)

Panicked == dead /\ UNCHANGED vars

\* Only init and a shell that waits for input that does not come are left.
Quiet ==
  /\ typed = MaxLines /\ \E p \in Procs : Running(p, "sh", "prompt") /\ Slots = Procs \ {1, p}
  /\ UNCHANGED vars

Next == (~dead /\ \E p \in Procs : Step(p)) \/ Panicked \/ Quiet

Spec == Init /\ [][Next]_vars

\* Every process runs when it can.
LiveSpec == Spec /\ \A p \in Procs : WF_vars(~dead /\ Step(p))

-----------------------------------------------------------------------------
\* The shell prompts only when everything it ran in the foreground is over and
\* reaped: what is left is not its child.
NoChildAtPrompt == \A p \in Procs : Running(p, "sh", "prompt") => Children(p) = {}

\* A program has the ends of pipes only as its standard input and output: one end
\* more, here or in a waiting shell, and a reader never sees end of file.
OnlyOwnEnds ==
  \A p \in Procs : proc[p].state = "RUN" /\ (proc[p].pc \in {"go", "pipe_wait1", "pipe_wait2"}) =>
    /\ proc[p].fd[3] = NoFd /\ proc[p].fd[4] = NoFd
    /\ proc[p].fd[0].end # "w" /\ proc[p].fd[1].end # "r"

\* init never waits without a child: wait() does not return an error to it, as its
\* loop assumes.
InitHasChild == Running(1, "init", "wait") => Children(1) # {}

\* Every command line ends, and the shell prompts again or is replaced; unless
\* init dies, because background processes have taken every slot.
LineEnds == (\E p \in Procs : Running(p, "sh", "wait")) ~> (dead \/ ~\E p \in Procs : Running(p, "sh", "wait"))

\* Everything that exits is reaped, orphans by init.
ZombiesReaped ==
  (\E p \in Procs : proc[p].state = "ZOMBIE") ~> (dead \/ \A p \in Procs : proc[p].state # "ZOMBIE")
=============================================================================
