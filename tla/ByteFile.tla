------------------------------ MODULE ByteFile ------------------------------
(***************************************************************************)
(* What the inode layer promises about the content of files: each is a      *)
(* sequence of bytes; a write replaces or appends a run of bytes that       *)
(* starts inside the file or at its end, and truncation empties it.         *)
(***************************************************************************)
EXTENDS Naturals, Sequences

CONSTANTS Files,   \* the files
          Bytes,   \* the bytes that are written
          MaxRun   \* the longest run written in one step

VARIABLE content   \* the bytes of each file

Init == content = [f \in Files |-> <<>>]

Runs == UNION {[1..k -> Bytes] : k \in 1..MaxRun}

\* s with the run r from offset off on.
Overlay(s, off, r) ==
  [i \in 1..(IF off + Len(r) > Len(s) THEN off + Len(r) ELSE Len(s)) |->
     IF i > off /\ i <= off + Len(r) THEN r[i - off] ELSE s[i]]

Write(f) == \E r \in Runs : \E off \in 0..Len(content[f]) :
              content' = [content EXCEPT ![f] = Overlay(@, off, r)]

Truncate(f) == content' = [content EXCEPT ![f] = <<>>]

Next == \E f \in Files : Write(f) \/ Truncate(f)

Spec == Init /\ [][Next]_content
=============================================================================
