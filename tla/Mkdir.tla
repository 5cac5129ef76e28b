------------------------------- MODULE Mkdir -------------------------------
(***************************************************************************)
(* mkdir (user/mkdir.c): mkdir -p makes each directory of a path in turn    *)
(* and goes into it, while another process makes directories too.           *)
(*                                                                         *)
(* A directory is the sequence of names from the root.  A step is a system  *)
(* call; the calls are taken from how mkdir uses them (FsCalls models what  *)
(* they do inside).  A path is its names, and whether it begins with a      *)
(* slash; empty names between slashes are skipped by the code and are not   *)
(* modelled, nor is a malloc() that fails.                                  *)
(***************************************************************************)
EXTENDS Naturals, Sequences, FiniteSets, SequencesExt

CONSTANTS Argvs,     \* arguments: sequences of [abs, names]
          Home,      \* the directory mkdir is started in
          Dirs0,     \* directories that exist
          Files0,    \* files that exist
          NFD,       \* free file descriptors
          MaxDirs,   \* directories that fit the disk
          OtherDirs  \* directories that the other process may make

Root == << >>

MkdirAssumption == NFD \in Nat /\ MaxDirs \in Nat /\ Root \in Dirs0 /\ Home \in Dirs0

VARIABLES argv, dirs, cwd, fds,
          pc,     \* the system call that is next
          i,      \* the argument
          start,  \* names of the argument done so far
          count,  \* directory_count, and how many ".." are still to come
          hist    \* history: where each argument began and the outcome

vars == <<argv, dirs, cwd, fds, pc, i, start, count, hist>>

\* Where a name leads from a directory; "." and ".." are entries of it.
Target(d, name) ==
  CASE name = "." -> d
    [] name = ".." -> IF d = Root THEN Root ELSE Front(d)
    [] OTHER -> Append(d, name)

Exists(d) == d \in dirs \/ d \in Files0

Init ==
  /\ argv \in Argvs
  /\ dirs = Dirs0 /\ cwd = Home /\ fds = 0
  /\ pc = "arg" /\ i = 1 /\ start = 0 /\ count = 0
  /\ hist = << >>

Arg == argv[i]
Name == Arg.names[start + 1]

\* mkdir_p() begins; a path from the root makes the root the current directory.
mkdir_p ==
  /\ pc = "arg" /\ i <= Len(argv)
  /\ hist' = Append(hist, [from |-> cwd, result |-> "running", raced |-> FALSE])
  /\ cwd' = IF Arg.abs THEN Root ELSE cwd
  /\ pc' = IF Arg.names = << >> THEN "back" ELSE "open"
  /\ start' = 0 /\ count' = 0
  /\ UNCHANGED <<argv, dirs, fds, i>>

Fail == pc' = "exit" /\ hist' = [hist EXCEPT ![i].result = "failed"]

\* Mutant: opened for writing, which fails for a directory.
Opens_rdwr(d) == d \in Files0 /\ fds < NFD

\* open(O_RDONLY) succeeds.
Opens(d) == Exists(d) /\ fds < NFD

\* open(): succeeds for what exists, while there is a descriptor; it is never closed.
open ==
  /\ pc = "open"
  /\ IF Opens(Target(cwd, Name))
     THEN fds' = fds + 1 /\ pc' = "chdir"
     ELSE pc' = "mkdir" /\ UNCHANGED fds
  /\ UNCHANGED <<argv, dirs, cwd, i, start, count, hist>>

\* mkdir(): fails if the name is there by now, or the disk is full.
mkdir ==
  /\ pc = "mkdir"
  /\ LET d == Target(cwd, Name) IN
     IF Exists(d) \/ Cardinality(dirs) >= MaxDirs
     THEN Fail /\ UNCHANGED dirs
     ELSE dirs' = dirs \cup {d} /\ pc' = "chdir" /\ UNCHANGED hist
  /\ UNCHANGED <<argv, cwd, fds, i, start, count>>

\* Mutant: mkdir stays where it is.
Enter_same(d) == cwd

\* chdir() goes to the directory.
Enter(d) == d

\* chdir(): fails for a file.  After the last name the way back begins.
chdir ==
  /\ pc = "chdir"
  /\ LET d == Target(cwd, Name) IN
     IF d \notin dirs THEN Fail /\ UNCHANGED <<cwd, start, count>>
     ELSE /\ cwd' = Enter(d) /\ count' = count + 1 /\ start' = start + 1
          /\ pc' = IF start + 1 = Len(Arg.names) THEN "back" ELSE "open"
          /\ UNCHANGED hist
  /\ UNCHANGED <<argv, dirs, fds, i>>

\* Mutant: one ".." too few.
Rounds_short(n) == IF n = 0 THEN 0 ELSE n - 1

\* i < directory_count.
Rounds(n) == n

\* chdir(".."), as often as a directory was entered; then the next argument.
back ==
  /\ pc = "back"
  /\ IF Rounds(count) > 0
     THEN cwd' = Target(cwd, "..") /\ count' = count - 1 /\ UNCHANGED <<pc, i, hist>>
     ELSE /\ pc' = "arg" /\ i' = i + 1 /\ count' = 0
          /\ hist' = [hist EXCEPT ![i].result = "made"]
          /\ UNCHANGED cwd
  /\ UNCHANGED <<argv, dirs, fds, start>>

\* exit() after the last argument.
done ==
  /\ pc = "arg" /\ i > Len(argv)
  /\ pc' = "exit"
  /\ UNCHANGED <<argv, dirs, cwd, fds, i, start, count, hist>>

\* Another process makes a directory, perhaps the one that mkdir is about to make.
other ==
  /\ pc # "exit"
  /\ \E d \in OtherDirs :
       /\ ~Exists(d) /\ Front(d) \in dirs /\ Cardinality(dirs) < MaxDirs
       /\ dirs' = dirs \cup {d}
       /\ hist' = IF pc = "mkdir" /\ d = Target(cwd, Name) THEN [hist EXCEPT ![i].raced = TRUE] ELSE hist
  /\ UNCHANGED <<argv, cwd, fds, pc, i, start, count>>

Exited == pc = "exit" /\ UNCHANGED vars

Next == mkdir_p \/ open \/ mkdir \/ chdir \/ back \/ done \/ other \/ Exited

Spec == Init /\ [][Next]_vars

-----------------------------------------------------------------------------
\* The directories on the way of argument n, from where it begins.
From(n) == IF argv[n].abs THEN Root ELSE hist[n].from
Way(n, k) == FoldLeft(Target, From(n), SubSeq(argv[n].names, 1, k))
WayOf(n) == {Way(n, k) : k \in 0..Len(argv[n].names)}

\* An argument that is reported as made has all its directories, and the program
\* made none but those on the way of its arguments.
MakesPath ==
  /\ \A n \in 1..Len(hist) : hist[n].result = "made" => WayOf(n) \subseteq dirs
  /\ dirs \subseteq Dirs0 \cup OtherDirs \cup UNION {WayOf(n) : n \in 1..Len(hist)}

\* A relative path of plain names ends where it began, so that the next argument
\* means what it would alone.
PlainComesBack ==
  pc = "arg" /\ i > 1 =>
    LET a == argv[i - 1] IN
    ~a.abs /\ (\A k \in 1..Len(a.names) : a.names[k] \notin {".", ".."}) => cwd = hist[i - 1].from

\* mkdir -p fails only for a reason: a file in the way, a full disk, another process
\* that made the directory between open() and mkdir(), or no descriptor left, which
\* the open() calls for directories that exist use up.
FailsForReason ==
  \A n \in 1..Len(hist) : hist[n].result = "failed" =>
    \/ WayOf(n) \cap Files0 # {}
    \/ Cardinality(dirs) >= MaxDirs
    \/ hist[n].raced
    \/ fds = NFD

\* After an argument the program is back in its original directory, as the message
\* "mkdir: failed to go back to original directory" (user/mkdir.c:73) says it goes.
BackInOriginal == pc = "arg" /\ i > 1 => cwd = hist[i - 1].from
=============================================================================
