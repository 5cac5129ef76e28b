-------------------------------- MODULE MCFs --------------------------------
(***************************************************************************)
(* The file system's names and inodes, for TLC: the calls that make and     *)
(* remove names, the inode table under them, and path lookup.               *)
(*                                                                         *)
(* FsCalls takes an inode's reference count and lock as given, Itable takes *)
(* directories as counts of entries, Path takes calls one at a time on the  *)
(* bytes of names; they share no variable.  One of them moves in a          *)
(* behaviour, the others stay in an initial state.                          *)
(***************************************************************************)
EXTENDS Naturals, TLC

CONSTANTS Procs, NoProc,
          NINODES, Names, OpenMax, MaxLinks,                          \* of FsCalls
          CallPaths, Calls,               \* FsCalls as "names": paths and calls
          LinkPaths, LinkCalls,       \* FsCalls as "links"
          Lookers, InodeNumbers, NINODE, MAXLINK,                              \* of Itable
          DIRSIZ, Letters, MaxInodes, MaxCreate, MaxLookup, MaxOps,   \* of Path
          Parts                       \* the modules that move, one in a behaviour

VARIABLES
  part,
  ino, pr, panic, late,
  dinode, entries, itable, lock, pc, ip, panicked,
  inode, tree, res, ops

F == INSTANCE FsCalls WITH panicked <- panic, Paths <- CallPaths
G == INSTANCE FsCalls WITH panicked <- panic, Paths <- LinkPaths, Calls <- LinkCalls
I == INSTANCE Itable WITH Procs <- Lookers, Inums <- InodeNumbers, Nobody <- NoProc
N == INSTANCE Path

ASSUME FsAssumption == F!FsAssumption /\ G!FsAssumption /\ I!ItableAssumption /\ N!PathAssumption

calls == <<ino, pr, panic, late>>
inodes == <<dinode, entries, itable, lock, pc, ip, panicked>>
paths == <<inode, tree, res, ops>>

Init ==
  /\ part \in Parts
  /\ F!Init /\ I!Init /\ N!Init
  /\ part # "itable" => dinode[1].used

Next ==
  /\ UNCHANGED part
  /\ \/ part = "names" /\ F!Next /\ UNCHANGED <<inodes, paths>>
     \/ part = "links" /\ G!Next /\ UNCHANGED <<inodes, paths>>
     \/ part = "itable" /\ I!Next /\ UNCHANGED <<calls, paths>>
     \/ part = "path" /\ N!Next /\ UNCHANGED <<calls, inodes>>

Spec == Init /\ [][Next]_<<part, calls, inodes, paths>>

Symmetry == Permutations(Procs)

\* Relative to a process's current directory: one level, two levels, and up.
MCPaths == {<<"x">>, <<"x", "y">>, <<"..", "x">>}
UpPaths == {<<"x">>, <<"y">>, <<"x", "y">>, <<"..", "x">>, <<"..">>}
DownPaths == {<<"x">>, <<"y">>, <<"x", "y">>}

-----------------------------------------------------------------------------
\* Link counts are exact, and directories form a tree (see FsCalls).
LinksExact == F!LinksExact /\ F!DirectoryTree

\* No processes wait for each other's inodes (see FsCalls).
NoLockCycle == F!NoLockCycle

\* A path never leads to a free inode, as ilock() asserts (see FsCalls).
NoTypePanic == F!NoTypePanic

\* A slot's reference count is exact, and no inode has two slots (see Itable).
RefExact == I!RefExact

\* A path leads where its elements lead (see Path).
PathRight == N!PathRight
=============================================================================
