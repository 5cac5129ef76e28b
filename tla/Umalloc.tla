------------------------------ MODULE Umalloc ------------------------------
(***************************************************************************)
(* The user allocator: malloc, free and morecore (user/umalloc.c).          *)
(*                                                                         *)
(* Addresses count units of sizeof(Header).  base is unit 0, below the      *)
(* heap; ptr and size are the two fields of the header at a unit.  The      *)
(* program frees only what malloc() returned and is still allocated, asks   *)
(* for far fewer than 2^32 bytes, and may call sbrk() itself.               *)
(***************************************************************************)
EXTENDS Integers, FiniteSets, FiniteSetsExt

CONSTANTS HEADER,   \* sizeof(Header): 16
          CHUNK,    \* least number of units morecore() asks for: 4096
          TOP,      \* end of memory: sbrk() fails beyond it
          Sizes     \* bound: arguments of malloc(), in bytes

UmallocAssumption ==
  /\ \A n \in {HEADER, CHUNK, TOP} : n \in Nat \ {0}
  /\ Sizes \subseteq Nat

BASE == 0
FIRST == 2             \* the break before the first sbrk()
NULL == -1

VARIABLES h,      \* ptr, size, freep and the break
          alloc,  \* blocks the program holds: header address -> bytes asked for
          asked   \* units the last malloc() asked for; 0 after any other call

vars == <<h, alloc, asked>>

Init ==
  /\ h = [ptr |-> [u \in 0..TOP |-> NULL], size |-> [u \in 0..TOP |-> 0], freep |-> NULL, brk |-> FIRST]
  /\ alloc = [u \in {} |-> 0]
  /\ asked = 0

-----------------------------------------------------------------------------
(* free(bp) *)

\* Mutant: the block is always put where the search begins.
Between_any(s, p, bp) == TRUE

\* p is the free block after which bp belongs.
Between(s, p, bp) ==
  \/ bp > p /\ bp < s.ptr[p]
  \/ p >= s.ptr[p] /\ (bp > p \/ bp < s.ptr[p])

RECURSIVE Place(_, _, _)
Place(s, p, bp) == IF Between(s, p, bp) THEN p ELSE Place(s, s.ptr[p], bp)

\* Mutant: never.
JoinsUpper_not(s, p, bp) == FALSE

\* The block ends where the next free one begins.
JoinsUpper(s, p, bp) == bp + s.size[bp] = s.ptr[p]

\* bp is joined to the free block above it, or linked to it.
Upper(s, p, bp) ==
  IF JoinsUpper(s, p, bp)
  THEN [s EXCEPT !.size[bp] = @ + s.size[s.ptr[p]], !.ptr[bp] = s.ptr[s.ptr[p]]]
  ELSE [s EXCEPT !.ptr[bp] = s.ptr[p]]

\* bp is joined to the free block p below it, or linked from it.
Lower(s, p, bp) ==
  IF p + s.size[p] = bp
  THEN [s EXCEPT !.size[p] = @ + s.size[bp], !.ptr[p] = s.ptr[bp]]
  ELSE [s EXCEPT !.ptr[p] = bp]

\* A header that is neither on the list nor that of a block is plain memory.
Forget(s, us) == [s EXCEPT !.ptr = [u \in 0..TOP |-> IF u \in us THEN NULL ELSE @[u]],
                           !.size = [u \in 0..TOP |-> IF u \in us THEN 0 ELSE @[u]]]

Freed(s, bp) ==
  LET p == Place(s, s.freep, bp)
      t == Lower(Upper(s, p, bp), p, bp)
      joined == (IF t.ptr[bp] # s.ptr[p] THEN {s.ptr[p]} ELSE {}) \cup (IF t.ptr[p] # bp THEN {bp} ELSE {})
  IN  [Forget(t, joined) EXCEPT !.freep = p]

-----------------------------------------------------------------------------
(* malloc(nbytes) *)

\* Mutant: the header is not counted.
Units_bare(nbytes) == (nbytes + HEADER - 1) \div HEADER

\* nunits.
Units(nbytes) == ((nbytes + HEADER - 1) \div HEADER) + 1

MoreUnits(nu) == IF nu < CHUNK THEN CHUNK ELSE nu

\* sbrk() gives the units, or fails.
CanGrow(s, nu) == s.brk + MoreUnits(nu) <= TOP
morecore(s, nu) ==
  Freed([s EXCEPT !.brk = @ + MoreUnits(nu), !.size[s.brk] = MoreUnits(nu)], s.brk)

\* Mutant: the tail of the block keeps the size of the whole.
Carve_whole(s, prevp, p, n) ==
  [heap |-> [s EXCEPT !.size[p] = @ - n, !.size[p + s.size[p] - n] = s.size[p], !.freep = prevp],
   at |-> p + s.size[p] - n]

\* The block p is taken whole, or its tail is.
Carve(s, prevp, p, n) ==
  IF s.size[p] = n
  THEN [heap |-> [s EXCEPT !.ptr[prevp] = s.ptr[p], !.ptr[p] = NULL, !.freep = prevp], at |-> p]
  ELSE [heap |-> [s EXCEPT !.size[p] = @ - n, !.size[p + s.size[p] - n] = n, !.freep = prevp],
        at |-> p + s.size[p] - n]

\* Mutant: only blocks of exactly this size.
Fits_exact(s, p, n) == s.size[p] = n \/ s.size[p] > 2 * n

Fits(s, p, n) == s.size[p] >= n

RECURSIVE Search(_, _, _, _)
Search(s, prevp, p, n) ==
  IF Fits(s, p, n) THEN Carve(s, prevp, p, n)
  ELSE IF p # s.freep THEN Search(s, p, s.ptr[p], n)
  ELSE IF ~CanGrow(s, n) THEN [heap |-> s, at |-> NULL]
  ELSE LET t == morecore(s, n) IN Search(t, t.freep, t.ptr[t.freep], n)

\* The first call makes base a list of its own.
Started(s) == IF s.freep # NULL THEN s ELSE [s EXCEPT !.ptr[BASE] = BASE, !.freep = BASE]

malloc(nbytes) ==
  LET s == Started(h)
      r == Search(s, s.freep, s.ptr[s.freep], Units(nbytes))
  IN  /\ h' = r.heap
      /\ asked' = Units(nbytes)
      /\ alloc' = IF r.at = NULL THEN alloc
                  ELSE [u \in DOMAIN alloc \cup {r.at} |-> IF u = r.at THEN nbytes ELSE alloc[u]]

free(bp) ==
  /\ bp \in DOMAIN alloc
  /\ h' = Freed(h, bp)
  /\ alloc' = [u \in DOMAIN alloc \ {bp} |-> alloc[u]]
  /\ asked' = 0

\* The program calls sbrk() for itself.
user_sbrk ==
  /\ h.brk < TOP
  /\ h' = [h EXCEPT !.brk = @ + 1]
  /\ asked' = 0
  /\ UNCHANGED alloc

Next == (\E n \in Sizes : malloc(n)) \/ (\E bp \in DOMAIN alloc : free(bp)) \/ user_sbrk

Spec == Init /\ [][Next]_vars

-----------------------------------------------------------------------------
\* The blocks on the free list, base apart.
RECURSIVE ListFrom(_, _)
ListFrom(p, seen) == IF p = BASE \/ p \in seen THEN seen ELSE ListFrom(h.ptr[p], seen \cup {p})
FreeBlocks == IF h.freep = NULL THEN {} ELSE ListFrom(h.ptr[BASE], {})

Extent(u) == u..(u + h.size[u] - 1)
Disjoint(S) == \A u, v \in S : u # v => Extent(u) \cap Extent(v) = {}

\* The list is circular and in the order of addresses, with base first; freep is
\* on it.
FreeListSorted ==
  h.freep # NULL =>
    /\ h.freep \in FreeBlocks \cup {BASE}
    /\ \A p \in FreeBlocks \cup {BASE} :
         LET above == {q \in FreeBlocks : q > p}
         IN  h.ptr[p] = IF above = {} THEN BASE ELSE Min(above)

\* Two free blocks are never adjacent: free() has joined them.
Coalesced == \A p, q \in FreeBlocks : p + h.size[p] # q

\* The blocks on the list and those the program holds do not overlap and lie in
\* the heap.
NoOverlap ==
  /\ Disjoint(FreeBlocks \cup DOMAIN alloc)
  /\ FreeBlocks \cap DOMAIN alloc = {}
  /\ \A u \in FreeBlocks \cup DOMAIN alloc : Extent(u) # {} /\ Extent(u) \subseteq FIRST..(h.brk - 1)

\* A block has room for what was asked, its header apart.
LargeEnough == \A u \in DOMAIN alloc : (h.size[u] - 1) * HEADER >= alloc[u]

Total == MapThenSumSet(LAMBDA u : h.size[u], FreeBlocks \cup DOMAIN alloc)

\* malloc() and free() lose no unit: what they have grows by what they take from
\* sbrk() and by nothing else, and sbrk() is called only when no free block is
\* large enough.
UnitsConserved ==
  [][IF asked' = 0 /\ alloc' = alloc THEN Total' = Total       \* user_sbrk
     ELSE /\ Total' - Total = h'.brk - h.brk
          /\ h'.brk # h.brk => \A p \in FreeBlocks : h.size[p] < asked']_vars
=============================================================================
