------------------------------- MODULE PsArgs -------------------------------
(***************************************************************************)
(* The arguments of ps: what the program accepts (user/ps.c), what the      *)
(* system call makes of them (ps() in kernel/proc.c), and parsePIDs().      *)
(*                                                                         *)
(* A character of a list is a digit, COMMA or LETTER.  An argument is one   *)
(* of the three options or a list; the copying of arguments to the kernel *)
(* is in UserCopy.  A -p that is the last argument is not an input here.    *)
(***************************************************************************)
EXTENDS Integers, Sequences, FiniteSets, FiniteSetsExt, SequencesExt

CONSTANTS Digits,   \* the digits used
          WIDTH,    \* the size of pidstr, 10 in the code
          MaxList,  \* bound: characters of a list
          Lists,    \* the lists in command lines
          MaxArgs   \* bound: arguments

COMMA == 10
LETTER == 11

PsArgsAssumption == Digits \subseteq 0..9 /\ WIDTH \in Nat \ {0} /\ MaxList \in Nat /\ MaxArgs \in Nat

VARIABLES s,     \* a list for parsePIDs
          argv,  \* a command line
          at,    \* "user", "rejected", "listed"
          got    \* what the kernel made of s and of argv

vars == <<s, argv, at, got>>

-----------------------------------------------------------------------------
IsDigit(c) == c \in 0..9

\* atoi(): the digits up to the first character that is none.
RECURSIVE atoi(_, _)
atoi(str, n) == IF str # << >> /\ IsDigit(str[1]) THEN atoi(Tail(str), (n * 10) + str[1]) ELSE n

\* Mutant: one digit more.
TooLong_late(k) == k > WIDTH

\* pidstr has no room for the terminating 0.
TooLong(k) == k >= WIDTH

\* The characters from i up to the next comma: the inner loop.
Number(args, i) == LET ends == {j \in i..Len(args) : args[j] = COMMA} IN
                   IF ends = {} THEN SubSeq(args, i, Len(args))
                   ELSE SubSeq(args, i, (CHOOSE j \in ends : \A m \in ends : j <= m) - 1)

\* parsePIDs() from character i with pids read so far; the stores stay when it fails.
RECURSIVE ParseFrom(_, _, _)
ParseFrom(args, i, pids) ==
  IF i > Len(args) THEN [ok |-> TRUE, pids |-> pids]
  ELSE LET pidstr == Number(args, i) IN
       IF TooLong(Len(pidstr)) \/ pidstr = << >> THEN [ok |-> FALSE, pids |-> pids]
       ELSE ParseFrom(args, i + Len(pidstr) + 1, Append(pids, atoi(pidstr, 0)))

parsePIDs(args) == ParseFrom(args, 1, << >>)

-----------------------------------------------------------------------------
Options == {"r", "-l", "-p"}
IsOption(a) == a.opt \in Options

NoFlags == [r |-> FALSE, l |-> FALSE, filter |-> FALSE, pids |-> << >>]

\* The array pids with a new list stored over it; -1 ends the list unless it failed.
Over(old, new) == IF new.ok THEN new.pids
                  ELSE new.pids \o SubSeq(old, Len(new.pids) + 1, Len(old))

\* Mutant: the argument after every flag is skipped.
NextFlag_skip(a) == 2

\* -p takes the next argument.
NextFlag(a) == IF a.opt = "-p" THEN 2 ELSE 1

\* The loop over the flags in ps().
RECURSIVE FlagsFrom(_, _, _)
FlagsFrom(v, i, f) ==
  IF i > Len(v) THEN f
  ELSE FlagsFrom(v, i + NextFlag(v[i]),
         CASE v[i].opt = "r"  -> [f EXCEPT !.r = TRUE]
           [] v[i].opt = "-l" -> [f EXCEPT !.l = TRUE]
           [] v[i].opt = "-p" -> LET p == parsePIDs(v[i + 1].s) IN
                                 [f EXCEPT !.filter = @ \/ p.ok, !.pids = Over(@, p)]
           [] OTHER -> f)

isValidFlag(a) == IsOption(a)
isValidPidList(a) == ~IsOption(a) /\ \A j \in 1..Len(a.s) : a.s[j] # LETTER

\* The loop of main(): a valid option, and the argument after it, are passed over.
RECURSIVE AcceptsFrom(_, _)
AcceptsFrom(v, i) ==
  \/ i > Len(v)
  \/ /\ isValidFlag(v[i])
     /\ v[i].opt = "-p" => isValidPidList(v[i + 1])
     /\ AcceptsFrom(v, i + 2)

-----------------------------------------------------------------------------
Chars == Digits \cup {COMMA, LETTER}
Strings(n) == UNION {[1..k -> Chars] : k \in 0..n}
Args == {[opt |-> o, s |-> << >>] : o \in Options} \cup {[opt |-> "list", s |-> x] : x \in Lists}

\* A list, or a command line.
Init ==
  /\ \/ s \in Strings(MaxList) /\ argv = << >>
     \/ s = << >> /\ argv \in {v \in UNION {[1..k -> Args] : k \in 0..MaxArgs} : v = << >> \/ Last(v).opt # "-p"}
  /\ at = "user" /\ got = [list |-> [ok |-> FALSE, pids |-> << >>], flags |-> NoFlags]

\* The ps program: an error message, or the system call.
main ==
  /\ at = "user"
  /\ at' = IF AcceptsFrom(argv, 1) THEN "call" ELSE "rejected"
  /\ UNCHANGED <<s, argv, got>>

\* The system call.
sys_ps ==
  /\ at = "call"
  /\ at' = "listed"
  /\ got' = [list |-> parsePIDs(s), flags |-> FlagsFrom(argv, 1, NoFlags)]
  /\ UNCHANGED <<s, argv>>

Exited == at \in {"rejected", "listed"} /\ UNCHANGED vars

Next == main \/ sys_ps \/ Exited

Spec == Init /\ [][Next]_vars

-----------------------------------------------------------------------------
\* The fields of a list: what is between the commas; a comma at the end adds none.
Commas(x) == {j \in 1..Len(x) : x[j] = COMMA}
NFields(x) == IF x = << >> \/ Last(x) = COMMA THEN Cardinality(Commas(x)) ELSE Cardinality(Commas(x)) + 1
Field(x, n) == LET inside == {j \in 1..Len(x) : x[j] # COMMA /\ Cardinality({c \in Commas(x) : c < j}) = n - 1} IN
               IF inside = {} THEN << >> ELSE SubSeq(x, Min(inside), Max(inside))

\* The value of the digits at the front of a field.
Leading(x) == {j \in 1..Len(x) : \A i \in 1..j : IsDigit(x[i])}
Value(x) == LET k == Cardinality(Leading(x)) IN FoldSet(LAMBDA j, acc : acc + (x[j] * (10 ^ (k - j))), 0, Leading(x))

\* parsePIDs() gives the values of the fields, or fails when a field is empty or has
\* more digits than its buffer holds: the end of the list, a last comma and the
\* limit of the buffer included.
ParsesList ==
  at = "listed" /\ argv = << >> =>
    LET good == \A n \in 1..NFields(s) : Field(s, n) # << >> /\ Len(Field(s, n)) < WIDTH IN
    /\ got.list.ok <=> good
    /\ good => got.list.pids = [n \in 1..NFields(s) |-> Value(Field(s, n))]

\* Option n of a well-formed command line stands at a place where an option is due.
WellFormed(v) ==
  /\ \A j \in 1..Len(v) : IF j > 1 /\ v[j - 1].opt = "-p" THEN ~IsOption(v[j]) /\ parsePIDs(v[j].s).ok /\ isValidPidList(v[j])
                          ELSE IsOption(v[j])

\* A well-formed command line that reaches the kernel sets a flag if and only if it
\* names the option, and filters by its last list.
FlagsRight ==
  at = "listed" /\ s = << >> /\ WellFormed(argv) =>
    LET named(o) == {j \in 1..Len(argv) : argv[j].opt = o} IN
    /\ got.flags.r <=> named("r") # {}
    /\ got.flags.l <=> named("-l") # {}
    /\ got.flags.filter <=> named("-p") # {}
    /\ named("-p") # {} => got.flags.pids = parsePIDs(argv[Max(named("-p")) + 1].s).pids

\* A command line of valid options, each -p with a list of pids, is not rejected: the
\* usage message of user/ps.c offers " ps [options]".
OptionsAccepted == at = "rejected" => ~WellFormed(argv)
=============================================================================
