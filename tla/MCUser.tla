------------------------------- MODULE MCUser -------------------------------
(***************************************************************************)
(* User programs, for TLC: the shell and init running commands, the         *)
(* shell's parser, and ps, wc and mkdir.                                    *)
(*                                                                         *)
(* Each is a program of its own.  One of them runs in a behaviour, the      *)
(* others stay in an initial state.                                         *)
(***************************************************************************)
EXTENDS Naturals, Sequences, TLC

CONSTANTS Procs, Pipes, Items, PIPESIZE, MaxLines,  \* of ShRun
          MAXARGS, LineChars, MaxLine,                  \* of ShParse
          Digits, WIDTH, MaxList, MaxArgs,          \* of PsArgs
          SIZE, MaxFd,                              \* of Wc
          NFD, MaxDirs                              \* of Mkdir

VARIABLES
  part,
  proc, held, typed, dead,
  line,
  list, ps_argv, ps_at, got,
  wc_argv, file, wc_at, output, items, pos, cnt, inword, fd, total, printed, read,
  md_argv, dirs, cwd, fds, pc, i, start, count, made

-----------------------------------------------------------------------------
\* Command lines, parsed: pipelines, a list and a redirection, and one that goes
\* on in the background with a program that is missing.
Ex(prog) == [type |-> "EXEC", prog |-> prog]
Pipe2(l, r) == [type |-> "PIPE", left |-> l, right |-> r]
List(l, r) == [type |-> "LIST", left |-> l, right |-> r]
Back(c) == [type |-> "BACK", cmd |-> c]
Redir(c, d) == [type |-> "REDIR", cmd |-> c, fd |-> d]
Commands ==
  {Pipe2(Ex("writer"), Ex("reader")),
   Pipe2(Ex("writer"), Pipe2(Ex("quick"), Ex("reader"))),
   List(Back(Pipe2(Ex("writer"), Ex("missing"))), Redir(Ex("writer"), 1))}

\* Arguments of -p: "1", "1,0", "1,,0" and a list that is no list, with the codes
\* that PsArgs has for a comma and a letter.
COMMA == 10
LETTER == 11
Lists == {<<1>>, <<1, COMMA, 0>>, <<1, COMMA, COMMA, 0>>, <<LETTER>>}


\* Command lines of wc, and what its files contain.
WcArgvs == {<< >>, << <<"f">> >>, << <<"-", "m">>, <<"f">>, <<"-">> >>, << <<"f">>, <<"-", "l", "w">>, <<"g">> >>,
            << <<"-", "x">>, <<"f">> >>, << <<"-", "-">> >>}
Contents == UNION {[1..k -> {"nl", "sp", "a", "first", "cont"}] : k \in 0..3}

\* Command lines of mkdir -p.
Paths == {[abs |-> a, names |-> s] : a \in BOOLEAN, s \in UNION {[1..k -> {"a", "b", "f", ".."}] : k \in 0..3}}
MkdirArgvs == {<<p>> : p \in Paths} \cup {<<p, [abs |-> FALSE, names |-> <<"a", "b">>]>> : p \in Paths}

R == INSTANCE ShRun
S == INSTANCE ShParse WITH Chars <- LineChars
A == INSTANCE PsArgs WITH s <- list, argv <- ps_argv, at <- ps_at
W == INSTANCE Wc WITH Argvs <- WcArgvs, argv <- wc_argv, at <- wc_at, hist <- read
D == INSTANCE Mkdir WITH Argvs <- MkdirArgvs, argv <- md_argv, hist <- made,
       Home <- <<"h">>, Dirs0 <- {<< >>, <<"h">>, <<"h", "a">>}, Files0 <- {<<"h", "f">>},
       OtherDirs <- {<<"h", "a", "b">>, <<"b">>}

ASSUME UserAssumption ==
  R!ShRunAssumption /\ S!ShParseAssumption /\ A!PsArgsAssumption /\ W!WcAssumption /\ D!MkdirAssumption

sh == <<proc, held, typed, dead>>
ps == <<list, ps_argv, ps_at, got>>
wc == <<wc_argv, file, wc_at, output, items, pos, cnt, inword, fd, total, printed, read>>
md == <<md_argv, dirs, cwd, fds, pc, i, start, count, made>>

Init ==
  /\ part \in {"sh", "parser", "ps", "wc", "mkdir"}
  /\ part # "ps" => list = << >> /\ ps_argv = << >>
  /\ part # "wc" => wc_argv = << >>
  /\ part # "mkdir" => md_argv = <<[abs |-> FALSE, names |-> << >>]>>
  /\ R!Init /\ S!Init /\ A!Init /\ W!Init /\ D!Init

Next ==
  /\ UNCHANGED part
  /\ \/ part = "sh" /\ R!Next /\ UNCHANGED <<line, ps, wc, md>>
     \/ part = "parser" /\ S!Next /\ UNCHANGED <<sh, ps, wc, md>>
     \/ part = "ps" /\ A!Next /\ UNCHANGED <<sh, line, wc, md>>
     \/ part = "wc" /\ W!Next /\ UNCHANGED <<sh, line, ps, md>>
     \/ part = "mkdir" /\ D!Next /\ UNCHANGED <<sh, line, ps, wc>>

\* Every process that the shell and init start runs when it can.
Spec ==
  /\ Init /\ [][Next]_<<part, sh, line, ps, wc, md>>
  /\ \A p \in Procs : WF_sh(part = "sh" /\ ~dead /\ R!Step(p))

-----------------------------------------------------------------------------
\* Every command line ends (see ShRun).
LineEnds == R!LineEnds

\* The parser accepts the lines of the grammar, gives them their structure, and
\* ends each string of theirs at its place (see ShParse).
ParsesGrammar == S!ParsesGrammar /\ S!StringsEnd

\* ps makes of its lists and options what they say (see PsArgs).
ArgumentsRight == A!ParsesList /\ A!FlagsRight

\* wc prints the counts of each file and their sum (see Wc).
CountsRight == W!CountsRight /\ W!TotalRight

\* mkdir -p makes the directories of its paths, and fails only for a reason (see
\* Mkdir).
MakesPath == D!MakesPath /\ D!FailsForReason
=============================================================================
