------------------------------ MODULE FsCalls ------------------------------
(***************************************************************************)
(* The name layer and the calls on it: namex(), dirlookup(), dirlink()      *)
(* (kernel/fs.c) and sys_link, sys_unlink, create, sys_open, sys_mkdir,     *)
(* sys_chdir and the close of a file (kernel/sysfile.c, kernel/file.c), run *)
(* concurrently by processes, with crashes.                                 *)
(*                                                                         *)
(* A step runs from one point where the code may wait for an inode's        *)
(* sleep-lock to the next; "locked" is what a process holds at such a       *)
(* point, which is only ever the parent (and then the child) in sys_unlink. *)
(* iunlock followed by iput is one step, and so is iput: Itable has their   *)
(* finer interleavings.  A call is one transaction of the log (Log): what   *)
(* is on disk after a crash is the image at some moment when no call was    *)
(* outstanding, so a crash at such a moment stands for every crash.         *)
(* Directory contents are functions from names to inode numbers, 0 for a    *)
(* name that is not there; out-of-space failures are nondeterministic.      *)
(***************************************************************************)
EXTENDS Naturals, Sequences, FiniteSets, SequencesExt, FiniteSetsExt

CONSTANTS Procs,     \* processes
          NINODES,   \* inodes on the disk, 1..NINODES
          Names,     \* names other than "." and ".."
          Paths,     \* path names the calls use, as sequences of names
          Calls,     \* the calls that are made
          OpenMax,   \* open files in the whole system (bounds the table)
          MaxLinks,  \* no link() starts once a file has this many links
          NoProc     \* the owner of a free sleep-lock

FsAssumption ==
  /\ NINODES \in Nat \ {0}
  /\ \A path \in Paths : path \in Seq(Names \cup {".", ".."}) /\ path # <<>>
  /\ Calls \subseteq {"open", "creat", "mkdir", "link", "unlink", "chdir", "close"}

VARIABLES
  ino,      \* inodes: type, nlink and ents are the disk's, ref, valid and lock the table's
  pr,       \* processes: the call in progress and its local variables, cwd, open file
  panicked, \* "" or the message of a panic
  late      \* history: an entry was made in a directory that had been removed

vars == <<ino, pr, panicked, late>>

ROOTINO == 1
Inums   == 1..NINODES
AllNames == Names \cup {".", ".."}
NoEnts  == [n \in AllNames |-> 0]

Free == [type |-> "none", nlink |-> 0, ents |-> NoEnts,
         ref |-> 0, valid |-> FALSE, lock |-> NoProc]

\* The local variables of a process outside a call.
Idle(cwd, file) == [pc |-> "idle", call |-> "none", path |-> <<>>, path2 |-> <<>>,
                    ip |-> 0, dp |-> 0, cwd |-> cwd, file |-> file]

\* mkfs writes a root directory whose "." and ".." are itself, with one link;
\* every process starts in it.
Init ==
  /\ ino = [i \in Inums |->
              IF i = ROOTINO
              THEN [Free EXCEPT !.type = "dir", !.nlink = 1, !.valid = TRUE,
                                !.ents = [NoEnts EXCEPT !["."] = 1, ![".."] = 1],
                                !.ref = Cardinality(Procs)]
              ELSE Free]
  /\ pr = [p \in Procs |-> Idle(ROOTINO, 0)]
  /\ panicked = ""
  /\ late = FALSE

-----------------------------------------------------------------------------
(***************************************************************************)
(* Operations on the inodes I that the calls are composed of.               *)
(***************************************************************************)

\* iget(): a reference; an entry that had none holds no valid copy.
iget(I, i) == [I EXCEPT ![i].ref = @ + 1]

\* Mutant: the link count is not looked at.
iput_links(I, i) ==
  IF I[i].ref = 1 /\ I[i].valid THEN [I EXCEPT ![i] = Free]
  ELSE [I EXCEPT ![i].ref = @ - 1]

\* Mutant: the reference count is not looked at.
iput_ref(I, i) ==
  IF I[i].valid /\ I[i].nlink = 0
  THEN [I EXCEPT ![i] = [Free EXCEPT !.ref = I[i].ref - 1]]
  ELSE [I EXCEPT ![i].ref = @ - 1, ![i].valid = @ /\ I[i].ref > 1]

\* iput(): the last reference to an inode without links frees it and its content;
\* a copy that nothing refers to is not used again.
iput(I, i) ==
  IF I[i].ref = 1 /\ I[i].valid /\ I[i].nlink = 0
  THEN [I EXCEPT ![i] = Free]
  ELSE [I EXCEPT ![i].ref = @ - 1, ![i].valid = @ /\ I[i].ref > 1]

\* ilock() of i can return, with a valid copy.
CanLock(i) == ino[i].lock = NoProc
ilock(i) == [ino EXCEPT ![i].valid = TRUE]

\* ilock() panics when the inode it read is free.
NoType(i) == ino[i].type = "none"
Panic(msg) == panicked' = msg /\ UNCHANGED <<ino, pr, late>>

\* dirlink(): the name, which is not there, is entered.
dirlink(I, d, n, i) == [I EXCEPT ![d].ents[n] = i]

\* The process is done with its call: end_op() and the return.
Return(p, I) == /\ ino' = I
                /\ pr' = [pr EXCEPT ![p] = Idle(@.cwd, @.file)]
                /\ UNCHANGED <<panicked, late>>

\* The process goes on, with the inodes I and the fields f of its locals.
Continue(p, I, locals) == /\ ino' = I
                          /\ pr' = [pr EXCEPT ![p] = locals]
                          /\ UNCHANGED <<panicked, late>>

-----------------------------------------------------------------------------
(***************************************************************************)
(* namex().                                                                 *)
(***************************************************************************)

NameiParent(call) == call \in {"creat", "mkdir", "unlink", "link2"}
OpenFiles == Cardinality({p \in Procs : pr[p].file # 0})

\* The start of a call: begin_op(), and idup of the current directory.
Begin(p, call, path, path2) ==
  /\ pr[p].pc = "idle"
  /\ Continue(p, iget(ino, pr[p].cwd),
              [pr[p] EXCEPT !.pc = "walk", !.call = call, !.path = path,
                            !.path2 = path2, !.ip = pr[p].cwd])

Begins(p) ==
  \/ \E call \in Calls \ {"link", "close"}, path \in Paths :
       /\ call \in {"open", "creat"} => pr[p].file = 0 /\ OpenFiles < OpenMax
       /\ Begin(p, call, path, <<>>)
  \/ \E path, path2 \in Paths :
       /\ "link" \in Calls
       /\ \A i \in Inums : ino[i].type = "file" => ino[i].nlink < MaxLinks   \* the bound
       /\ Begin(p, "link", path, path2)

\* Mutant: the next element is used without a reference.
NextElement_noref(I, d, i) == iput(I, d)

\* The references while a path element is passed: next is gained, then ip let go.
NextElement(I, d, i) == iput(iget(I, i), d)

\* namex() returns 0: the call fails, sys_link after undoing its count.
NotFound(p, I) ==
  IF pr[p].call = "link2"
  THEN Continue(p, I, [pr[p] EXCEPT !.pc = "link_bad", !.ip = pr[p].dp, !.path = <<>>])
  ELSE Return(p, I)

\* One round of namex's loop, or what follows it.
walk(p) ==
  LET v == pr[p]
      d == v.ip
      last == NameiParent(v.call) /\ Len(v.path) = 1
      found == ino[d].ents[Head(v.path)]
  IN
  /\ v.pc = "walk"
  /\ CanLock(d)
  /\ \/ /\ v.path = <<>>                  \* the loop is over
        /\ Continue(p, ino, [v EXCEPT !.pc = v.call])
     \/ /\ v.path # <<>> /\ NoType(d)
        /\ Panic("ilock: no type")
     \/ /\ v.path # <<>> /\ ino[d].type = "file"   \* not a directory
        /\ NotFound(p, iput(ilock(d), d))
     \/ /\ v.path # <<>> /\ ino[d].type = "dir" /\ last   \* stop one level early
        /\ Continue(p, ilock(d), [v EXCEPT !.pc = v.call])
     \/ /\ v.path # <<>> /\ ino[d].type = "dir" /\ ~last /\ found # 0
        /\ Continue(p, NextElement(ilock(d), d, found),
                    [v EXCEPT !.ip = found, !.path = Tail(@)])
     \/ /\ v.path # <<>> /\ ino[d].type = "dir" /\ ~last /\ found = 0
        /\ NotFound(p, iput(ilock(d), d))

-----------------------------------------------------------------------------
(***************************************************************************)
(* sys_open without O_CREATE, sys_chdir, and fileclose of an inode.         *)
(***************************************************************************)

\* ilock(ip), the checks, filealloc and fdalloc (which may fail), iunlock(ip).
sys_open(p) ==
  LET v == pr[p]
      i == v.ip
  IN
  /\ v.pc = "open"
  /\ CanLock(i)
  /\ \/ NoType(i) /\ Panic("ilock: no type")
     \/ ~NoType(i) /\ Return(p, iput(ilock(i), i))
     \/ ~NoType(i) /\ Continue(p, ilock(i), Idle(v.cwd, i))

sys_chdir(p) ==
  LET v == pr[p]
      i == v.ip
  IN
  /\ v.pc = "chdir"
  /\ CanLock(i)
  /\ \/ NoType(i) /\ Panic("ilock: no type")
     \/ ino[i].type = "file" /\ Return(p, iput(ilock(i), i))
     \/ ino[i].type = "dir" /\ Continue(p, iput(ilock(i), v.cwd), Idle(i, v.file))

fileclose(p) ==
  /\ "close" \in Calls
  /\ pr[p].pc = "idle" /\ pr[p].file # 0
  /\ Continue(p, iput(ino, pr[p].file), Idle(pr[p].cwd, 0))

-----------------------------------------------------------------------------
(***************************************************************************)
(* create(), with the ends of sys_open(O_CREATE) and sys_mkdir.             *)
(***************************************************************************)

\* Mutant: ".." is made to name the new directory itself.
NewInode_dotdot(d, i, type) ==
  [Free EXCEPT !.type = type, !.nlink = 1, !.ref = 1, !.valid = TRUE,
               !.ents = IF type = "dir" THEN [NoEnts EXCEPT !["."] = i, ![".."] = i]
                        ELSE NoEnts]

\* The new inode once ialloc, iget, ilock and iupdate are done; a directory
\* has "." and "..", and its link count leaves "." out.
NewInode(d, i, type) ==
  [Free EXCEPT !.type = type, !.nlink = 1, !.ref = 1, !.valid = TRUE,
               !.ents = IF type = "dir" THEN [NoEnts EXCEPT !["."] = i, ![".."] = d]
                        ELSE NoEnts]

\* Mutant: the parent's link for ".." is not counted.
ParentLink_none(I, d, type) == I

\* The parent gains a link for "..".
ParentLink(I, d, type) == IF type = "dir" THEN [I EXCEPT ![d].nlink = @ + 1] ELSE I

\* ialloc(): the lowest free inode number.
FreeInums == {i \in Inums : ino[i].type = "none" /\ ino[i].ref = 0}

create(p) ==
  LET v == pr[p]
      d == v.ip
      n == Head(v.path)
      type == IF v.call = "mkdir" THEN "dir" ELSE "file"
      found == ino[d].ents[n]
  IN
  /\ v.pc \in {"creat", "mkdir"}
  /\ CanLock(d)
  /\ \/ NoType(d) /\ Panic("ilock: no type")
     \/ /\ ~NoType(d) /\ found # 0      \* the name is there: look at it unlocked from dp
        /\ Continue(p, NextElement(ilock(d), d, found),
                    [v EXCEPT !.pc = "exists", !.ip = found, !.path = <<>>])
     \/ /\ ~NoType(d) /\ found = 0
        /\ Return(p, iput(ilock(d), d)) \* ialloc, or dirlink and its undoing, failed
     \/ /\ ~NoType(d) /\ found = 0 /\ FreeInums # {}
        /\ LET i == Min(FreeInums)
               I == dirlink([ilock(d) EXCEPT ![i] = NewInode(d, i, type)], d, n, i)
               J == iput(ParentLink(I, d, type), d)
           IN /\ late' = (late \/ ino[d].nlink = 0)
              /\ \/ /\ type = "file" /\ ino' = J
                    /\ pr' = [pr EXCEPT ![p] = Idle(v.cwd, i)]
                 \/ /\ ino' = iput(J, i)
                    /\ pr' = [pr EXCEPT ![p] = Idle(v.cwd, v.file)]
              /\ UNCHANGED panicked

\* The rest of create when the name was there: only a file, for open, will do.
create_exists(p) ==
  LET v == pr[p]
      i == v.ip
  IN
  /\ v.pc = "exists"
  /\ CanLock(i)
  /\ \/ NoType(i) /\ Panic("ilock: no type")
     \/ /\ ~NoType(i)
        /\ Return(p, iput(ilock(i), i))
     \/ /\ v.call = "creat" /\ ino[i].type = "file"
        /\ Continue(p, ilock(i), Idle(v.cwd, i))

-----------------------------------------------------------------------------
(***************************************************************************)
(* sys_link.                                                                *)
(***************************************************************************)

\* Mutant: the link is counted only when the name is entered.
Count_later(I, i) == I

\* The link is counted before the name is looked for.
CountLink(I, i) == [I EXCEPT ![i].nlink = @ + 1]

\* Mutant: directories get second names too.
Linkable_any(i) == TRUE

\* Directories get no second name.
Linkable(i) == ino[i].type # "dir"

\* The old name is found: count the link and unlock, then find the new parent.
sys_link(p) ==
  LET v == pr[p]
      i == v.ip
  IN
  /\ v.pc = "link"
  /\ CanLock(i)
  /\ \/ NoType(i) /\ Panic("ilock: no type")
     \/ ~NoType(i) /\ ~Linkable(i) /\ Return(p, iput(ilock(i), i))
     \/ /\ ~NoType(i) /\ Linkable(i)
        /\ Continue(p, iget(CountLink(ilock(i), i), v.cwd),
                    [v EXCEPT !.pc = "walk", !.call = "link2", !.dp = i, !.ip = v.cwd,
                              !.path = v.path2, !.path2 = <<>>])

\* The new parent v.ip is found: enter the name of v.dp, the old inode.
sys_link_enter(p) ==
  LET v == pr[p]
      d == v.ip
      n == Head(v.path)
  IN
  /\ v.pc = "link2"
  /\ CanLock(d)
  /\ \/ NoType(d) /\ Panic("ilock: no type")
     \/ /\ ~NoType(d) /\ ino[d].ents[n] = 0
        /\ ino' = iput(iput(dirlink(ilock(d), d, n, v.dp), d), v.dp)
        /\ pr' = [pr EXCEPT ![p] = Idle(v.cwd, v.file)]
        /\ late' = (late \/ ino[d].nlink = 0)
        /\ UNCHANGED panicked
     \/ /\ ~NoType(d)        \* the name is there, or there is no room for it
        /\ NotFound(p, iput(ilock(d), d))

\* Mutant: the count is not taken back.
Uncount_none(I, i) == I

Uncount(I, i) == [I EXCEPT ![i].nlink = @ - 1]

\* bad: the link is taken back.
sys_link_bad(p) ==
  LET i == pr[p].ip IN
  /\ pr[p].pc = "link_bad"
  /\ CanLock(i)
  /\ Return(p, iput(Uncount(ilock(i), i), i))

-----------------------------------------------------------------------------
(***************************************************************************)
(* sys_unlink.                                                              *)
(***************************************************************************)

\* "Cannot unlink "." or ".."."
Removable(n) == n \notin {".", ".."}

\* ilock(dp), and the entry looked up; dp stays locked while ip is waited for.
sys_unlink(p) ==
  LET v == pr[p]
      d == v.ip
      n == Head(v.path)
      found == ino[d].ents[n]
  IN
  /\ v.pc = "unlink"
  /\ CanLock(d)
  /\ \/ NoType(d) /\ Panic("ilock: no type")
     \/ ~NoType(d) /\ (~Removable(n) \/ found = 0) /\ Return(p, iput(ilock(d), d))
     \/ /\ ~NoType(d) /\ Removable(n) /\ found # 0
        /\ Continue(p, iget([ilock(d) EXCEPT ![d].lock = p], found),
                    [v EXCEPT !.pc = "unlink2", !.dp = d, !.ip = found])

\* isdirempty(): nothing but "." and "..".
isdirempty(i) == \A n \in Names : ino[i].ents[n] = 0

\* Mutant: the link that the removed directory's ".." held is kept.
RemoveEntry_keep(I, d, n, i) == [I EXCEPT ![d].ents[n] = 0]

\* The entry is cleared, and the parent loses the link of a directory's "..".
RemoveEntry(I, d, n, i) ==
  [I EXCEPT ![d].ents[n] = 0,
            ![d].nlink = IF I[i].type = "dir" THEN @ - 1 ELSE @]

\* ilock(ip): the entry goes and dp is let go, ip stays locked.
sys_unlink_child(p) ==
  LET v == pr[p]
      d == v.dp
      i == v.ip
      I == [ilock(i) EXCEPT ![d].lock = NoProc]
  IN
  /\ v.pc = "unlink2"
  /\ CanLock(i)
  /\ \/ NoType(i) /\ Panic("ilock: no type")
     \/ ~NoType(i) /\ ino[i].nlink < 1 /\ Panic("unlink: nlink < 1")
     \/ /\ ino[i].nlink >= 1 /\ ino[i].type = "dir" /\ ~isdirempty(i)
        /\ Return(p, iput(iput(I, i), d))
     \/ /\ ino[i].nlink >= 1 /\ (ino[i].type = "dir" => isdirempty(i))
        /\ Continue(p, iput(RemoveEntry([I EXCEPT ![i].lock = p], d, Head(v.path), i), d),
                    [v EXCEPT !.pc = "unlink3", !.dp = 0, !.path = <<>>])

\* The inode's link goes, and with it the call's reference.
sys_unlink_drop(p) ==
  LET i == pr[p].ip IN
  /\ pr[p].pc = "unlink3"
  /\ Return(p, iput([ino EXCEPT ![i].lock = NoProc, ![i].nlink = @ - 1], i))

-----------------------------------------------------------------------------
Quiet == \A p \in Procs : pr[p].pc = "idle"

\* A crash and a restart: the table is empty, every process is in the root.
Crash ==
  /\ Quiet
  /\ ino' = [i \in Inums |->
               [ino[i] EXCEPT !.ref = IF i = ROOTINO THEN Cardinality(Procs) ELSE 0,
                              !.valid = (i = ROOTINO)]]
  /\ pr' = [p \in Procs |-> Idle(ROOTINO, 0)]
  /\ UNCHANGED <<panicked, late>>

Step(p) == \/ Begins(p) \/ walk(p) \/ sys_open(p) \/ sys_chdir(p) \/ fileclose(p)
           \/ create(p) \/ create_exists(p)
           \/ sys_link(p) \/ sys_link_enter(p) \/ sys_link_bad(p)
           \/ sys_unlink(p) \/ sys_unlink_child(p) \/ sys_unlink_drop(p)

\* After a panic the machine stands still.
Next == \/ panicked = "" /\ (Crash \/ \E p \in Procs : Step(p))
        \/ panicked # "" /\ UNCHANGED vars

Spec == Init /\ [][Next]_vars

-----------------------------------------------------------------------------
(***************************************************************************)
(* Properties.                                                              *)
(***************************************************************************)

\* The shape of the state; a reference count is never negative.
TypeOK ==
  /\ \A i \in Inums :
       /\ ino[i].type \in {"none", "dir", "file"}
       /\ ino[i].nlink \in Nat /\ ino[i].ref \in Nat
       /\ ino[i].ents \in [AllNames -> 0..NINODES]
       /\ ino[i].lock \in Procs \cup {NoProc}
  /\ \A p \in Procs : pr[p].cwd \in Inums /\ pr[p].file \in 0..NINODES
  /\ late \in BOOLEAN

\* The directories that have a name: the root, and those with links.
Dirs == {d \in Inums : ino[d].type = "dir" /\ ino[d].nlink > 0}

\* The entries that count as links to i: those of any name but ".", in a
\* directory that has a name itself.
Entries(i) == {<<d, n>> \in Dirs \X (AllNames \ {"."}) : ino[d].ents[n] = i}

\* Whenever no call is outstanding, so also in what a crash leaves on the disk,
\* the link count of every allocated inode is the number of entries that name
\* it, those of ".." in its subdirectories included: the increments and
\* decrements of create, sys_link, its undoing and sys_unlink, each made under
\* another inode's lock than the entry it counts, add up.
LinksExact ==
  Quiet /\ ~late => \A i \in Inums : ino[i].nlink = Cardinality(Entries(i))

\* The same, whatever was done in a removed directory: "Number of links to
\* inode in file system" (kernel/fs.h), where a directory that was removed and
\* freed holds no links any more.
LinksAlwaysExact ==
  Quiet => \A i \in Inums : ino[i].type = "file" =>
             ino[i].nlink = Cardinality({<<d, n>> \in Inums \X Names : ino[d].ents[n] = i})

\* No directory with links names a free inode, at any moment that another
\* process could lock it: a walk never leads from such a directory to an inode
\* that was freed or is not yet allocated, "..", or an entry, alike.
NoDangling ==
  ~late => \A d \in Dirs : \A n \in AllNames :
    ino[d].lock = NoProc /\ ino[d].ents[n] # 0 => ino[ino[d].ents[n]].type # "none"

\* Directories form a tree: a directory is entered under a name only in the
\* directory its ".." names, and under one name only, however mkdir, unlink and
\* link of the same names interleave.
DirectoryTree ==
  ~late => \A d \in Dirs : ino[d].ents["."] = d /\
    \A n \in Names :
      LET i == ino[d].ents[n] IN
      i # 0 /\ ino[i].type = "dir" =>
        /\ ino[i].ents[".."] = d
        /\ \A e \in Dirs, m \in Names : ino[e].ents[m] = i => <<e, m>> = <<d, n>>

\* What a process has open, or is in, stays allocated until it lets go of it,
\* with or without a name.
HeldNotFreed ==
  \A p \in Procs :
    /\ ino[pr[p].cwd].type = "dir"
    /\ pr[p].file # 0 => ino[pr[p].file].type # "none"

\* The processes that hold the inode p waits for.
Blockers(p) == {q \in Procs : /\ pr[p].pc \notin {"idle", "unlink3"}
                              /\ ino[pr[p].ip].lock = q}

\* No set of processes wait for each other's inodes, nor a process for its own:
\* unlink, the one call that waits for an inode while it holds another, goes
\* from a parent to its child, and the tree and the refusal of "." and ".."
\* keep that order acyclic.
NoLockCycle ==
  ~ \E S \in SUBSET Procs \ {{}} : \A p \in S : Blockers(p) \cap S # {}

\* unlink never meets an entry whose inode has no links
\* (panic "unlink: nlink < 1").
NoUnlinkPanic == panicked # "unlink: nlink < 1"

\* A path never leads to a free inode: the assertion of ilock, panic("ilock: no
\* type"), holds.
NoTypePanic == panicked # "ilock: no type"
=============================================================================
