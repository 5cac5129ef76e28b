------------------------------ MODULE ShParse ------------------------------
(***************************************************************************)
(* The shell's parser (user/sh.c): gettoken, peek and the recursive descent *)
(* from parsecmd() down, against a grammar stated by splitting.             *)
(*                                                                         *)
(* A line is a sequence of characters, typed one at a time; "a" stands for  *)
(* any character of a word and " " for any white space.  A string is the    *)
(* pair of positions <<q, eq>> that the parser keeps.  A panic() of the     *)
(* parser is Fail.  malloc() does not fail here.                            *)
(***************************************************************************)
EXTENDS Integers, Sequences, SequencesExt, FiniteSetsExt

CONSTANTS MAXARGS,   \* 10
          Chars,     \* bound: the characters that are typed
          MaxLine    \* bound: length of a line

ShParseAssumption == MAXARGS \in Nat \ {0} /\ MaxLine \in Nat

symbols == {"<", "|", ">", "&", ";", "(", ")"}

VARIABLE line

Init == line = <<>>

\* One more character; every line is parsed by the properties below.
type(c) == Len(line) < MaxLine /\ line' = Append(line, c)

Stop == Len(line) = MaxLine /\ UNCHANGED line

Next == (\E c \in Chars : type(c)) \/ Stop

Spec == Init /\ [][Next]_line

-----------------------------------------------------------------------------
(* Tokens. *)

es == Len(line) + 1
Char(i) == IF i < es THEN line[i] ELSE "nul"

\* Past white space, and past the characters of the word at i.
Skip(i) == Min({j \in i..es : j = es \/ Char(j) # " "})

\* Mutant: a word ends only at white space.
WordEnd_space(i) == Min({j \in i..es : j = es \/ Char(j) = " "})

WordEnd(i) == Min({j \in i..es : j = es \/ Char(j) \in symbols \cup {" "}})

Token(tok, q, eq) == [tok |-> tok, q |-> q, eq |-> eq, next |-> Skip(eq)]

gettoken(i) ==
  LET s == Skip(i) IN
  CASE s = es -> Token("end", s, s)
    [] Char(s) = ">" /\ Char(s + 1) = ">" -> Token("+", s, s + 2)
    [] Char(s) \in symbols /\ ~(Char(s) = ">" /\ Char(s + 1) = ">") -> Token(Char(s), s, s + 1)
    [] OTHER -> Token("a", s, WordEnd(s))

peek(i, toks) == Char(Skip(i)) \in toks

-----------------------------------------------------------------------------
(* The parser: each function returns a command and the position after it. *)

execcmd(argv) == [type |-> "EXEC", argv |-> argv]
redircmd(cmd, r) == [type |-> "REDIR", cmd |-> cmd, file |-> r.file, mode |-> r.mode]
pipecmd(left, right) == [type |-> "PIPE", left |-> left, right |-> right]
listcmd(left, right) == [type |-> "LIST", left |-> left, right |-> right]
backcmd(cmd) == [type |-> "BACK", cmd |-> cmd]

Fail == [ok |-> FALSE]
Ok(cmd, i) == [ok |-> TRUE, cmd |-> cmd, at |-> i]

\* redircmd() around a command, the last redirection outermost.
Redirect(cmd, rs) == FoldLeft(redircmd, cmd, rs)

\* parseredirs(): the redirections at i, and the position after them.
RECURSIVE parseredirs(_, _)
parseredirs(rs, i) ==
  IF ~peek(i, {"<", ">"}) THEN [ok |-> TRUE, rs |-> rs, at |-> Skip(i)]
  ELSE LET t == gettoken(i)
           f == gettoken(t.next)
       IN  IF f.tok # "a" THEN Fail
           ELSE parseredirs(Append(rs, [file |-> <<f.q, f.eq>>, mode |-> t.tok]), f.next)

TooMany(argv) == Len(argv) >= MAXARGS

\* The loop of parseexec().
RECURSIVE parseargs(_, _, _)
parseargs(argv, rs, i) ==
  LET t == gettoken(i)
      more == Append(argv, <<t.q, t.eq>>)
      r == parseredirs(rs, t.next)
  IN  IF peek(i, {"|", ")", "&", ";"}) \/ t.tok = "end" THEN Ok(Redirect(execcmd(argv), rs), Skip(i))
      ELSE IF t.tok # "a" \/ TooMany(more) \/ ~r.ok THEN Fail
      ELSE parseargs(more, r.rs, r.at)

\* What parseblock() makes of its line and what parseredirs() returned.
Redirected(c, r) == IF ~c.ok \/ ~r.ok THEN Fail ELSE Ok(Redirect(c.cmd, r.rs), r.at)

\* The while loop of parseline().
RECURSIVE parseback(_)
parseback(l) == IF l.ok /\ peek(l.at, {"&"}) THEN parseback(Ok(backcmd(l.cmd), gettoken(l.at).next)) ELSE l

RECURSIVE parseline(_), parsepipe(_)

\* parseblock() after its parseline().
EndBlock(b) ==
  IF ~b.ok \/ ~peek(b.at, {")"}) THEN Fail ELSE Redirected(b, parseredirs(<<>>, gettoken(b.at).next))

parseblock(i) == EndBlock(parseline(gettoken(i).next))

\* parseexec() of a simple command, after its first parseredirs().
Simplecmd(r) == IF ~r.ok THEN Fail ELSE parseargs(<<>>, r.rs, r.at)

parseexec(i) == IF peek(i, {"("}) THEN parseblock(i) ELSE Simplecmd(parseredirs(<<>>, i))

\* parsepipe() and parseline() after their first command.
EndPipe(l) ==
  IF ~l.ok \/ ~peek(l.at, {"|"}) THEN l
  ELSE LET r == parsepipe(gettoken(l.at).next)
       IN  IF ~r.ok THEN Fail ELSE Ok(pipecmd(l.cmd, r.cmd), r.at)
EndLine(l) ==
  IF ~l.ok \/ ~peek(l.at, {";"}) THEN l
  ELSE LET r == parseline(gettoken(l.at).next)
       IN  IF ~r.ok THEN Fail ELSE Ok(listcmd(l.cmd, r.cmd), r.at)

parsepipe(i) == EndPipe(parseexec(i))
parseline(i) == EndLine(parseback(parsepipe(i)))

\* Mutant: what is left of the line is ignored.
Leftovers_not(at) == FALSE

Leftovers(at) == Skip(at) # es

EndCmd(l) == IF ~l.ok \/ Leftovers(l.at) THEN Fail ELSE [ok |-> TRUE, cmd |-> l.cmd]
parsecmd == EndCmd(parseline(1))

\* The strings nulterminate() ends.
RECURSIVE nulterminate(_)
nulterminate(cmd) ==
  CASE cmd.type = "EXEC" -> Range(cmd.argv)
    [] cmd.type = "REDIR" -> nulterminate(cmd.cmd) \cup {cmd.file}
    [] cmd.type \in {"PIPE", "LIST"} -> nulterminate(cmd.left) \cup nulterminate(cmd.right)
    [] cmd.type = "BACK" -> nulterminate(cmd.cmd)

-----------------------------------------------------------------------------
(* The grammar, by splitting the tokens of the line. *)

\* Where tokens begin: not at white space, not inside a word or a ">>".
RECURSIVE Starts(_, _)
Starts(i, acc) ==
  IF i = es THEN acc
  ELSE IF line[i] = " " THEN Starts(i + 1, acc)
  ELSE LET run == {j \in i..(es - 1) : \A k \in i..j : line[k] \notin symbols \cup {" "}}
           n == IF run # {} THEN Max(run) + 1
                ELSE IF i + 1 < es /\ line[i] = ">" /\ line[i + 1] = ">" THEN i + 2 ELSE i + 1
           k == IF run # {} THEN "a" ELSE IF n = i + 2 THEN "+" ELSE line[i]
       IN  Starts(n, Append(acc, [tok |-> k, span |-> <<i, n>>]))
Tokens == Starts(1, <<>>)

\* How many parentheses are open before token i.
Depth(ts, i) ==
  Cardinality({j \in 1..(i - 1) : ts[j].tok = "("}) - Cardinality({j \in 1..(i - 1) : ts[j].tok = ")"})
AtTop(ts, k) == {i \in 1..Len(ts) : ts[i].tok = k /\ Depth(ts, i) = 0}
Before(ts, i) == SubSeq(ts, 1, i - 1)
After(ts, i) == SubSeq(ts, i + 1, Len(ts))

Wrong == [type |-> "wrong"]
IsWrong(c) == c.type = "wrong"
Both(op(_, _), l, r) == IF IsWrong(l) \/ IsWrong(r) THEN Wrong ELSE op(l, r)

\* A file name follows each redirection; what remains are words.
Redirs(ts) == {i \in 1..Len(ts) : ts[i].tok \in {"<", ">", "+"}}
RedirsOf(ts) ==
  [n \in 1..Cardinality(Redirs(ts)) |->
     LET i == CHOOSE j \in Redirs(ts) : Cardinality({k \in Redirs(ts) : k <= j}) = n
     IN  [file |-> ts[i + 1].span, mode |-> ts[i].tok]]
WordsOf(ts) ==
  LET w == SelectSeq([i \in 1..Len(ts) |-> [i |-> i, s |-> ts[i].span]],
                     LAMBDA x : x.i \notin Redirs(ts) /\ x.i - 1 \notin Redirs(ts))
  IN  [n \in 1..Len(w) |-> w[n].s]
Simple(ts) ==
  IF \/ \E i \in 1..Len(ts) : ts[i].tok \notin {"a", "<", ">", "+"}
     \/ \E i \in Redirs(ts) : i = Len(ts) \/ ts[i + 1].tok # "a"
     \/ Len(WordsOf(ts)) >= MAXARGS
  THEN Wrong
  ELSE Redirect(execcmd(WordsOf(ts)), RedirsOf(ts))

RECURSIVE GLine(_), GBack(_), GPipe(_)

\* A line within parentheses, then redirections only.
GBlock(ts) ==
  LET close == {i \in 1..Len(ts) : ts[i].tok = ")" /\ Depth(ts, i) = 1}
  IN  IF close = {} THEN Wrong
      ELSE LET n == Min(close)
               body == GLine(SubSeq(ts, 2, n - 1))
               rest == Simple(After(ts, n))
           IN  IF IsWrong(body) \/ IsWrong(rest) \/ WordsOf(After(ts, n)) # <<>> THEN Wrong
               ELSE Redirect(body, RedirsOf(After(ts, n)))
GCmd(ts) == IF ts # <<>> /\ ts[1].tok = "(" THEN GBlock(ts) ELSE Simple(ts)
GPipe(ts) ==
  IF AtTop(ts, "|") = {} THEN GCmd(ts)
  ELSE LET i == Min(AtTop(ts, "|")) IN Both(pipecmd, GCmd(Before(ts, i)), GPipe(After(ts, i)))
GBack(ts) ==
  IF ts # <<>> /\ ts[Len(ts)].tok = "&" /\ Depth(ts, Len(ts)) = 0
  THEN LET c == GBack(Front(ts)) IN IF IsWrong(c) THEN Wrong ELSE backcmd(c)
  ELSE GPipe(ts)
GLine(ts) ==
  IF AtTop(ts, ";") = {} THEN GBack(ts)
  ELSE LET i == Min(AtTop(ts, ";")) IN Both(listcmd, GBack(Before(ts, i)), GLine(After(ts, i)))

-----------------------------------------------------------------------------
\* parsecmd() accepts exactly the lines of the grammar, and gives them their
\* structure: ";" binds least and to the right, then "&", then "|"; every word is
\* an argument or a file name at its place, the last redirection is outermost, and
\* no command has MAXARGS arguments or more.
ParsesGrammar ==
  LET g == GLine(Tokens)
      p == parsecmd
  IN  IF IsWrong(g) THEN ~p.ok ELSE p.ok /\ p.cmd = g

\* The nuls that nulterminate() stores end each string where it should, and fall
\* into no other one.
StringsEnd ==
  LET p == parsecmd IN
  p.ok =>
    \A s \in nulterminate(p.cmd) :
      /\ s[1] < s[2] /\ \A i \in s[1]..(s[2] - 1) : line[i] = "a"
      /\ s[2] = es \/ line[s[2]] # "a"
=============================================================================
