-------------------------------- MODULE Path --------------------------------
(***************************************************************************)
(* Names and paths: skipelem(), namex(), namecmp(), dirlookup() and         *)
(* dirlink() (kernel/fs.c), with strncmp() and strncpy() (kernel/string.c). *)
(*                                                                         *)
(* A directory is the array of its entries, a name an array of DIRSIZ       *)
(* characters that NUL ends only if it is shorter; the caller's name buffer *)
(* holds anything at first.  A call is one step (the locks are in Itable    *)
(* and FsCalls); it starts in the current directory of some process.        *)
(***************************************************************************)
EXTENDS Naturals, Sequences, FiniteSets, FiniteSetsExt, SequencesExt

CONSTANTS DIRSIZ,      \* characters of a name
          Letters,     \* characters other than the slash and NUL, the dot included
          MaxInodes,   \* bound: inodes used
          MaxCreate,   \* bound: characters of a path that is created
          MaxLookup,   \* bound: characters of a path that is looked up
          MaxOps       \* bound: calls

PathAssumption ==
  /\ {DIRSIZ, MaxInodes, MaxCreate, MaxLookup, MaxOps} \subseteq Nat
  /\ DIRSIZ >= 2 /\ "." \in Letters

SLASH == "/"
NUL == "0"
ROOTINO == 1
NoInode == 0

VARIABLES inode,  \* per inode number: type and, for a directory, entries
          tree,   \* history: the triples <<directory, name, inode>> that should be there
          res,    \* the last call: what it returned and what it should return
          ops

vars == <<inode, tree, res, ops>>

\* What the name buffer may hold before a call: enough to tell stale characters.
Buffers == {[k \in 1..DIRSIZ |-> c] : c \in Letters \cup {NUL}}

-----------------------------------------------------------------------------
(* Characters. *)

\* strncmp() with n = DIRSIZ, for equality: up to the first NUL in both.
namecmp(s, t) ==
  \A k \in 1..DIRSIZ : (\A j \in 1..(k - 1) : s[j] = t[j] /\ s[j] # NUL) => s[k] = t[k]

\* strncpy(): a shorter name is filled up with NULs.
strncpy(name) == [k \in 1..DIRSIZ |-> IF \E j \in 1..k : name[j] = NUL THEN NUL ELSE name[k]]

\* The place of the first slash of path at or after i, or of the first other character; or its end.
Scan(path, i, slash) == Min({j \in i..Len(path) : (path[j] = SLASH) = slash} \cup {Len(path) + 1})

\* Mutant: no NUL after a short name.
Copied_open(name, s) == [k \in 1..DIRSIZ |-> IF k <= Len(s) THEN s[k] ELSE name[k]]

\* memmove() of the element, and NUL if there is room.
Copied(name, s) ==
  [k \in 1..DIRSIZ |-> IF k <= Len(s) THEN s[k] ELSE IF k = Len(s) + 1 THEN NUL ELSE name[k]]

\* skipelem() at place i of path: whether there is an element, the place after it and
\* the slashes behind it, and the buffer.
skipelem(path, i, name) ==
  LET s == Scan(path, i, FALSE)
      e == Scan(path, s, TRUE)
  IN  IF s > Len(path) THEN [found |-> FALSE, at |-> s, name |-> name]
      ELSE [found |-> TRUE, at |-> Scan(path, e, FALSE), name |-> Copied(name, SubSeq(path, s, e - 1))]

-----------------------------------------------------------------------------
(* Directories. *)

Entry(inum, name) == [inum |-> inum, name |-> name]
Padded(s) == [k \in 1..DIRSIZ |-> IF k <= Len(s) THEN s[k] ELSE NUL]
NewDir(self, parent) == <<Entry(self, Padded(<<".">>)), Entry(parent, Padded(<<".", ".">>))>>

\* dirlookup(): the inode of the first entry with the name.
dirlookup(I, dp, name) ==
  LET des == I[dp].des
      hits == {k \in 1..Len(des) : des[k].inum # NoInode /\ namecmp(name, des[k].name)}
  IN  IF hits = {} THEN NoInode ELSE des[Min(hits)].inum

\* Mutant: the entry goes to the end, or over the last one.
EmptySlot_last(des) == Len(des)

\* The first empty entry, or a new one at the end.
EmptySlot(des) == Min({k \in 1..Len(des) : des[k].inum = NoInode} \cup {Len(des) + 1})

\* dirlink(), for a name that is not there.
dirlink(des, name, inum) ==
  LET k == EmptySlot(des)
      de == Entry(inum, strncpy(name))
  IN  IF k <= Len(des) THEN [des EXCEPT ![k] = de] ELSE Append(des, de)

\* *path == '\0' after an element and its slashes.
IsLast(path, at) == at > Len(path)

\* namex() from inode ip and place i; returns the inode and the name.
RECURSIVE Walk(_, _, _, _, _)
Walk(ip, path, i, name, nameiparent) ==
  LET e == skipelem(path, i, name)
      next == dirlookup(inode, ip, e.name)
  IN  IF ~e.found THEN [ip |-> IF nameiparent THEN NoInode ELSE ip, name |-> e.name]
      ELSE IF inode[ip].type # "dir" THEN [ip |-> NoInode, name |-> e.name]
      ELSE IF nameiparent /\ IsLast(path, e.at) THEN [ip |-> ip, name |-> e.name]
      ELSE IF next = NoInode THEN [ip |-> NoInode, name |-> e.name]
      ELSE Walk(next, path, e.at, e.name, nameiparent)

\* Where a path starts.
StartIn(path, cwd) == IF path # << >> /\ path[1] = SLASH THEN ROOTINO ELSE cwd

namex(path, cwd, name, nameiparent) == Walk(StartIn(path, cwd), path, 1, name, nameiparent)

-----------------------------------------------------------------------------
(* What paths mean: the elements between slashes, cut to DIRSIZ characters.  *)

Elements(path) ==
  LET starts == {i \in 1..Len(path) : path[i] # SLASH /\ (i = 1 \/ path[i - 1] = SLASH)}
      element(i) == SubSeq(path, i, Min({j \in i..Len(path) : path[j] = SLASH} \cup {Len(path) + 1}) - 1)
      cut(s) == SubSeq(s, 1, Min({DIRSIZ, Len(s)}))
      nth(n) == CHOOSE i \in starts : Cardinality({j \in starts : j <= i}) = n
  IN  [n \in 1..Cardinality(starts) |-> cut(element(nth(n)))]

\* Where the names lead by tree; inode 0 if nowhere.
Follow(from, names) ==
  FoldLeft(LAMBDA d, n : IF \E t \in tree : t[1] = d /\ t[2] = n THEN (CHOOSE t \in tree : t[1] = d /\ t[2] = n)[3] ELSE NoInode,
           from, names)

From(path, cwd) == IF path # << >> /\ path[1] = SLASH THEN ROOTINO ELSE cwd
IsDir(d) == \E t \in tree : t[1] = d

Paths(n) == UNION {[1..k -> Letters \cup {SLASH}] : k \in 0..n}
CreatePaths == Paths(MaxCreate)
LookupPaths == Paths(MaxLookup)

Init ==
  /\ inode = << [type |-> "dir", des |-> NewDir(ROOTINO, ROOTINO)] >>
  /\ tree = {<<ROOTINO, <<".">>, ROOTINO>>, <<ROOTINO, <<".", ".">>, ROOTINO>>}
  /\ res = [got |-> 0, want |-> 0]
  /\ ops = 0

\* namei() of a path.
lookup(path, cwd, name) ==
  /\ res' = [got |-> namex(path, cwd, name, FALSE).ip, want |-> Follow(From(path, cwd), Elements(path))]
  /\ UNCHANGED <<inode, tree>>

\* create() of a file or directory: the parent, its entry, and the new inode.
create(path, cwd, name, type) ==
  LET p == namex(path, cwd, name, TRUE)
      names == Elements(path)
      dp == IF names = << >> THEN NoInode ELSE Follow(From(path, cwd), Front(names))
      inum == Len(inode) + 1
      isnew == dp # NoInode /\ IsDir(dp) /\ Follow(dp, <<Last(names)>>) = NoInode
      made == p.ip # NoInode /\ dirlookup(inode, p.ip, p.name) = NoInode
  IN  /\ inum <= MaxInodes
      /\ res' = [got |-> IF made THEN p.ip ELSE NoInode, want |-> IF isnew THEN dp ELSE NoInode]
      /\ tree' = IF ~isnew THEN tree
                 ELSE tree \cup {<<dp, Last(names), inum>>}
                      \cup (IF type = "dir" THEN {<<inum, <<".">>, inum>>, <<inum, <<".", ".">>, dp>>} ELSE {})
      /\ inode' = IF ~made THEN inode
                  ELSE Append([inode EXCEPT ![p.ip].des = dirlink(@, p.name, inum)],
                              [type |-> type, des |-> IF type = "dir" THEN NewDir(inum, p.ip) ELSE << >>])

\* sys_unlink() of a file: its entry becomes empty.
unlink(d, k) ==
  /\ inode[d].type = "dir" /\ k <= Len(inode[d].des)
  /\ LET inum == inode[d].des[k].inum IN
     /\ inum # NoInode /\ inode[inum].type = "file"
     /\ tree' = {t \in tree : t[1] # d \/ t[3] # inum}
  /\ inode' = [inode EXCEPT ![d].des[k] = Entry(NoInode, Padded(<< >>))]
  /\ UNCHANGED res

Next ==
  \/ /\ ops < MaxOps /\ ops' = ops + 1
     /\ \/ \E cwd \in 1..Len(inode), name \in Buffers :
             /\ inode[cwd].type = "dir"
             /\ \/ \E path \in LookupPaths : lookup(path, cwd, name)
                \/ \E path \in CreatePaths, type \in {"file", "dir"} : create(path, cwd, name, type)
        \/ \E d \in 1..Len(inode), k \in 1..(MaxInodes + 2) : unlink(d, k)
  \/ ops = MaxOps /\ UNCHANGED vars

Spec == Init /\ [][Next]_vars

-----------------------------------------------------------------------------
\* A path leads where its elements lead: repeated, leading and trailing slashes, dots,
\* names that are cut at DIRSIZ, and whatever the name buffer held before included.
PathRight == res.got = res.want

\* The directories hold the entries that the calls made, each under one name, and
\* no others: an entry that was emptied is used again and none is overwritten.
EntriesRight ==
  LET str(name) == SelectSeq(name, LAMBDA c : c # NUL) IN
  {<<d, str(inode[d].des[k].name), inode[d].des[k].inum>> :
     <<d, k>> \in {x \in (1..Len(inode)) \X (1..(MaxInodes + 2)) :
                    x[2] <= Len(inode[x[1]].des) /\ inode[x[1]].des[x[2]].inum # NoInode}} = tree
=============================================================================
