----------------------------- MODULE LineInput -----------------------------
(***************************************************************************)
(* What the console promises about input: typed characters collect in a     *)
(* line that can be edited until it is finished by a newline, an end of     *)
(* file or for want of room; finished input is read in order, once.         *)
(***************************************************************************)
EXTENDS Naturals, Sequences

CONSTANTS Chars, NL, EOF, SIZE   \* characters, newline, end of file, room

VARIABLES ready,   \* finished input that was not read yet
          line     \* the line being edited

Init == ready = <<>> /\ line = <<>>

Finishes(c) == c \in {NL, EOF} \/ Len(ready) + Len(line) + 1 = SIZE

Type(c) ==
  /\ Len(ready) + Len(line) < SIZE
  /\ IF Finishes(c) THEN ready' = ready \o Append(line, c) /\ line' = <<>>
                    ELSE line' = Append(line, c) /\ UNCHANGED ready

Erase == line # <<>> /\ line' = SubSeq(line, 1, Len(line) - 1) /\ UNCHANGED ready

Kill == line' = <<>> /\ UNCHANGED ready

Read == ready # <<>> /\ ready' = Tail(ready) /\ UNCHANGED line

Next == (\E c \in Chars \cup {NL, EOF} : Type(c)) \/ Erase \/ Kill \/ Read

Spec == Init /\ [][Next]_<<ready, line>>
=============================================================================
