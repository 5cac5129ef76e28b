----------------------------- MODULE BlockStore -----------------------------
(***************************************************************************)
(* What the buffer cache promises (kernel/bio.c, lines 1-15): one copy of  *)
(* every block, used by one process at a time, with the contents its last  *)
(* user left there.                                                        *)
(***************************************************************************)
CONSTANTS Procs, Blocks, Val, Nobody

VARIABLES content,   \* contents of every block
          owner      \* process that has the block, or Nobody

svars == <<content, owner>>

SInit == /\ content \in [Blocks -> Val]
         /\ owner = [b \in Blocks |-> Nobody]

Take(p, b) == /\ owner[b] = Nobody
              /\ owner' = [owner EXCEPT ![b] = p]
              /\ UNCHANGED content

Modify(p, b, v) == /\ owner[b] = p
                   /\ content' = [content EXCEPT ![b] = v]
                   /\ UNCHANGED owner

Give(p, b) == /\ owner[b] = p
              /\ owner' = [owner EXCEPT ![b] = Nobody]
              /\ UNCHANGED content

SNext == \E p \in Procs, b \in Blocks :
           \/ Take(p, b) \/ Give(p, b)
           \/ \E v \in Val : Modify(p, b, v)

SSpec == SInit /\ [][SNext]_svars
=============================================================================
