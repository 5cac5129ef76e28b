--------------------------------- MODULE Wc ---------------------------------
(***************************************************************************)
(* wc (user/wc.c): options, files, and counts of lines, words, characters   *)
(* and bytes.  read() may return fewer bytes than asked for, or fail; what  *)
(* wc says must not depend on where it cuts.                                *)
(*                                                                         *)
(* Bytes are of five kinds.  An argument is a sequence of characters; the   *)
(* name of a file is a sequence that does not begin with a dash.            *)
(***************************************************************************)
EXTENDS Integers, Sequences, FiniteSets, FiniteSetsExt, SequencesExt

CONSTANTS SIZE,      \* sizeof(buf)
          Argvs,     \* command lines, without the name of the program
          Contents,  \* what a file, or the standard input, may contain
          MaxFd      \* file descriptors that open() may give

WcAssumption == SIZE \in Nat \ {0} /\ MaxFd \in Nat /\ MaxFd > 2

\* Bytes: a newline, another space, a letter, the first and a continuing byte of a
\* character of several bytes.
Space(b) == b \in {"nl", "sp"}
Continuing(b) == b = "cont"
Letters == {"c", "w", "l", "m"}
DEFAULT_OUTPUTS == {"c", "w", "l"}

VARIABLES argv,
          file,    \* what the current file contains
          at,      \* "args", "next", "read", "exit"
          output,  \* the set of counts asked for
          items,   \* files still to do; the first is the current one
          pos, cnt, inword,  \* wc(): bytes read, counts, in a word
          fd,      \* the descriptors in use
          total, printed,
          hist     \* history: the contents of the files that were read to the end

vars == <<argv, file, at, output, items, pos, cnt, inword, fd, total, printed, hist>>

Zero == [l |-> 0, w |-> 0, c |-> 0, m |-> 0]
Add(x, y) == [k \in DOMAIN x |-> x[k] + y[k]]

Init ==
  /\ argv \in Argvs /\ file = << >>
  /\ at = "args" /\ output = {} /\ items = << >>
  /\ pos = 0 /\ cnt = Zero /\ inword = FALSE /\ fd = 0..2
  /\ total = Zero /\ printed = << >> /\ hist = << >>

-----------------------------------------------------------------------------
\* Mutant: a lone dash is an option without letters.
IsOption_dash(a) == a # << >> /\ a[1] = "-"

\* An argument that is options: a dash and at least one letter.
IsOption(a) == Len(a) > 1 /\ a[1] = "-"

\* parse_args() exits on a letter that is no option; "--" too.
Bad(a) == IsOption(a) /\ \E i \in 2..Len(a) : a[i] \notin Letters

\* main() up to the loop: the options, and the rest in items.
parse_args ==
  /\ at = "args"
  /\ LET asked == UNION {IF IsOption(argv[i]) THEN ToSet(Tail(argv[i])) ELSE {} : i \in 1..Len(argv)}
         rest == SelectSeq(argv, LAMBDA a : ~IsOption(a))
     IN  IF \E i \in 1..Len(argv) : Bad(argv[i])
         THEN at' = "exit" /\ UNCHANGED <<output, items>>
         ELSE /\ output' = IF asked = {} THEN DEFAULT_OUTPUTS ELSE asked
              /\ items' = IF rest = << >> THEN << << >> >> ELSE rest
              /\ at' = "next"
  /\ UNCHANGED <<argv, file, pos, cnt, inword, fd, total, printed, hist>>

IsStdin(item) == item = << >> \/ item = <<"-">>

Free == (3..MaxFd) \ fd

\* The next file: standard input or an open() that succeeds.
open ==
  /\ at = "next" /\ items # << >>
  /\ \/ IsStdin(Head(items)) /\ UNCHANGED fd
     \/ ~IsStdin(Head(items)) /\ Free # {} /\ fd' = fd \cup {Min(Free)}
  /\ file' \in Contents /\ at' = "read"
  /\ UNCHANGED <<argv, output, items, pos, cnt, inword, total, printed, hist>>

\* The file cannot be opened.
open_fails ==
  /\ at = "next" /\ items # << >> /\ ~IsStdin(Head(items))
  /\ items' = Tail(items)
  /\ UNCHANGED <<argv, file, at, output, pos, cnt, inword, fd, total, printed, hist>>

\* Mutant: every piece of the file begins outside a word.
Continues_not(w) == FALSE

\* inword lives through the reads.
Continues(w) == w

\* One byte of the loop of wc(), on the counts and inword.
Count(x, b) ==
  CASE Continuing(b) -> [x EXCEPT !.n.m = @ + 1]
    [] Space(b) -> [n |-> [x.n EXCEPT !.l = IF b = "nl" THEN @ + 1 ELSE @], in |-> FALSE]
    [] OTHER -> [n |-> [x.n EXCEPT !.w = IF x.in THEN @ ELSE @ + 1], in |-> TRUE]

\* read() returns some bytes.
read ==
  /\ at = "read" /\ pos < Len(file)
  /\ \E n \in 1..SIZE :
       /\ pos + n <= Len(file)
       /\ LET x == FoldLeft(Count, [n |-> [cnt EXCEPT !.c = @ + n], in |-> Continues(inword)], SubSeq(file, pos + 1, pos + n))
          IN  cnt' = x.n /\ inword' = x.in
       /\ pos' = pos + n
  /\ UNCHANGED <<argv, file, at, output, items, fd, total, printed, hist>>

\* Mutant: the descriptor is kept.
Closed_not(item) == fd

\* The descriptor of the current file, the last one opened, is closed; 0 is not.
Closed(item) == IF IsStdin(item) THEN fd ELSE fd \ {Max(fd)}

\* The program turns to the next file.
Leave ==
  /\ fd' = Closed(Head(items)) /\ items' = Tail(items) /\ at' = "next"
  /\ pos' = 0 /\ cnt' = Zero /\ inword' = FALSE /\ file' = << >>

Line(n) == [k \in output |-> IF k = "m" THEN n.c - n.m ELSE n[k]]

\* Mutant: the totals are those of the last file.
Totals_last(n) == n

\* The counts are added up.
Totals(n) == Add(total, n)

\* The end of the file: the counts are printed and added to the totals.
eof ==
  /\ at = "read" /\ pos = Len(file)
  /\ printed' = Append(printed, Line(cnt)) /\ total' = Totals(cnt) /\ hist' = Append(hist, file)
  /\ Leave
  /\ UNCHANGED <<argv, output>>

\* read() fails: neither printed nor added.
error ==
  /\ at = "read"
  /\ Leave
  /\ UNCHANGED <<argv, output, total, printed, hist>>

\* item_count > 1.
Several(n) == n > 1

\* The number of items there were.
ItemCount == LET k == Cardinality({i \in 1..Len(argv) : ~IsOption(argv[i])}) IN IF k = 0 THEN 1 ELSE k

\* The totals, and exit().
end ==
  /\ at = "next" /\ items = << >>
  /\ printed' = IF Several(ItemCount) THEN Append(printed, Line(total)) ELSE printed
  /\ at' = "exit"
  /\ UNCHANGED <<argv, file, output, items, pos, cnt, inword, fd, total, hist>>

Exited == at = "exit" /\ UNCHANGED vars

Next == parse_args \/ open \/ open_fails \/ read \/ eof \/ error \/ end \/ Exited

Spec == Init /\ [][Next]_vars

-----------------------------------------------------------------------------
\* What the counts of a content are: a word begins at a byte that is no space, where
\* the byte before it, not counting continuing bytes, is a space or is not there.
Places(x, P(_)) == {i \in 1..Len(x) : P(x[i])}
Counts(x) ==
  LET text == SelectSeq(x, LAMBDA b : ~Continuing(b)) IN
  [l |-> Cardinality(Places(x, LAMBDA b : b = "nl")),
   w |-> Cardinality({i \in 1..Len(text) : ~Space(text[i]) /\ (i = 1 \/ Space(text[i - 1]))}),
   m |-> Cardinality(Places(x, LAMBDA b : ~Continuing(b))),
   c |-> Len(x)]

\* Each line printed for a file has the counts of its content, however read() cut
\* it: also where a cut is inside a word or inside a character.
CountsRight ==
  \A n \in 1..Len(hist) : printed[n] = [k \in output |-> Counts(hist[n])[k]]

\* With more than one file the last line is the sum over the files that could be
\* opened and read; with one there is no such line.
TotalRight ==
  at = "exit" /\ items = << >> /\ output # {} =>
    LET files == Cardinality({i \in 1..Len(argv) : argv[i] \in {<<"-">>, << >>} \/ argv[i][1] # "-"}) IN
    IF files <= 1 THEN Len(printed) = Len(hist)
    ELSE /\ Len(printed) = Len(hist) + 1
         /\ \A k \in output : Last(printed)[k] = FoldLeft(LAMBDA acc, x : acc + Counts(x)[k], 0, hist)

\* Between two files nothing but the first three descriptors is open, also after
\* read errors.
NoFdLeft == at \in {"next", "exit"} => fd = 0..2
=============================================================================
