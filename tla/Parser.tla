------------------------------- MODULE Parser -------------------------------
(***************************************************************************)
(* The parser of the shell (sh.c), as operators on a line of characters,   *)
(* and gets() (ulib.c), which collects the line.  " " stands for white     *)
(* space, "a" for any character that is neither white space nor a symbol.  *)
(***************************************************************************)
EXTENDS Integers, Sequences

CONSTANTS MAXARGS,
          nbuf        \* the size of the buffer given to gets()
Chars == {" ", "a", "|", "<", ">", "&", ";", "(", ")"}

------------------------------------------------------------------------------
RECURSIVE Skip(_, _), Fill(_, _), parseline(_), parsepipe(_), parseargs(_, _, _),
          parseredirs(_, _), Backs(_, _)

\* gettoken(): the first token of a line and what follows it; "end" at the end.
Skip(s, set) == IF s # <<>> /\ Head(s) \in set THEN Skip(Tail(s), set) ELSE s
Token(t, s) == [tok |-> t, rest |-> Skip(s, {" "})]
FirstToken(s) ==
  IF s = <<>> THEN Token("end", s)
  ELSE IF Head(s) = "a" THEN Token("a", Skip(s, {"a"}))
  ELSE IF Len(s) > 1 /\ s[1] = ">" /\ s[2] = ">" THEN Token("+", SubSeq(s, 3, Len(s)))
  ELSE Token(Head(s), Tail(s))
gettoken(s) == FirstToken(Skip(s, {" "}))
peek(s, toks) == gettoken(s).tok \in toks

\* A parse is a command and the rest of the line, or a panic, which ends it.
Panic == [ok |-> FALSE, cmd |-> [type |-> "none"], rest |-> <<>>]
Parsed(c, s) == [ok |-> TRUE, cmd |-> c, rest |-> s]
Then(p, Next(_, _)) == IF p.ok THEN Next(p.cmd, p.rest) ELSE Panic

redirect(c, tok, file) ==
  IF file.tok # "a" THEN Panic
  ELSE parseredirs([type |-> "REDIR", fd |-> IF tok = "<" THEN 0 ELSE 1, cmd |-> c], file.rest)
redirection(c, t) == redirect(c, t.tok, gettoken(t.rest))
parseredirs(c, s) == IF peek(s, {"<", ">", "+"}) THEN redirection(c, gettoken(s)) ELSE Parsed(c, s)

\* The arguments; ret is the command with its redirections, around an EXEC
\* whose argc is only known at the end: Fill puts it in.
Fill(c, n) == IF c.type = "REDIR" THEN [c EXCEPT !.cmd = Fill(c.cmd, n)]
              ELSE [c EXCEPT !.argc = n]
argument(ret, t, argc) ==
  IF t.tok # "a" \/ argc >= MAXARGS THEN Panic
  ELSE Then(parseredirs(ret, t.rest), LAMBDA c, s : parseargs(c, s, argc))
parseargs(ret, s, argc) ==
  IF peek(s, {"|", ")", "&", ";", "end"}) THEN Parsed(Fill(ret, argc), s)
  ELSE argument(ret, gettoken(s), argc + 1)

parseblock(s) ==
  Then(parseline(gettoken(s).rest),
       LAMBDA c, r : IF peek(r, {")"}) THEN parseredirs(c, gettoken(r).rest) ELSE Panic)

parseexec(s) ==
  IF peek(s, {"("}) THEN parseblock(s)
  ELSE Then(parseredirs([type |-> "EXEC", argc |-> 0], s), LAMBDA c, r : parseargs(c, r, 0))

\* pipecmd() and listcmd(): the command l and the one parsed after it.
Pair(type, l, p) == Then(p, LAMBDA c, s : Parsed([type |-> type, left |-> l, right |-> c], s))

parsepipe(s) ==
  Then(parseexec(s), LAMBDA c, r : IF peek(r, {"|"}) THEN Pair("PIPE", c, parsepipe(gettoken(r).rest))
                                   ELSE Parsed(c, r))

Backs(c, s) == IF peek(s, {"&"}) THEN Backs([type |-> "BACK", cmd |-> c], gettoken(s).rest)
               ELSE Parsed(c, s)
List(p) == IF peek(p.rest, {";"}) THEN Pair("LIST", p.cmd, parseline(gettoken(p.rest).rest)) ELSE p

parseline(s) == Then(parsepipe(s), LAMBDA c, r : List(Backs(c, r)))

\* Mutant: what follows the command is not looked at.
parsecmd_Leftovers(s) == parseline(s)

parsecmd(s) == Then(parseline(s), LAMBDA c, r : IF Skip(r, {" "}) = <<>> THEN Parsed(c, r) ELSE Panic)

------------------------------------------------------------------------------
VARIABLES typed,      \* what gets() has read
          got       \* it has returned

parserVars == <<typed, got>>
ParserInit == typed = <<>> /\ got = FALSE

\* A character, unless the buffer is full; the line is parsed when it ends.
gets ==
  /\ ~got
  /\ \/ Len(typed) + 1 < nbuf /\ \E c \in Chars : typed' = Append(typed, c) /\ UNCHANGED got
     \/ got' = TRUE /\ UNCHANGED typed

\* getcmd() clears the buffer for the next line.
getcmd_clear == got /\ typed' = <<>> /\ got' = FALSE

ParserNext == gets \/ getcmd_clear

------------------------------------------------------------------------------
\* The grammar, on sequences of tokens, by splitting them.
RECURSIVE Tokens(_), InLine(_), InPipe(_), Redirs(_), Args(_), Words(_)
Tokens(s) == LET t == gettoken(s) IN IF t.tok = "end" THEN <<>> ELSE <<t.tok>> \o Tokens(t.rest)
Drop(t, i) == SubSeq(t, i, Len(t))
Redirs(t) == t = <<>> \/ (Len(t) > 1 /\ t[1] \in {"<", ">", "+"} /\ t[2] = "a" /\ Redirs(Drop(t, 3)))
Args(t) == t = <<>> \/ (t[1] = "a" /\ Args(Tail(t)))
             \/ (Len(t) > 1 /\ t[1] \in {"<", ">", "+"} /\ t[2] = "a" /\ Args(Drop(t, 3)))
InExec(t) == \/ Args(t) /\ Words(t) < MAXARGS
             \/ \E i \in 2 .. Len(t) : /\ t[1] = "(" /\ t[i] = ")"
                                       /\ InLine(SubSeq(t, 2, i - 1)) /\ Redirs(Drop(t, i + 1))
InPipe(t) == \/ InExec(t)
             \/ \E i \in 1 .. Len(t) : t[i] = "|" /\ InExec(SubSeq(t, 1, i - 1)) /\ InPipe(Drop(t, i + 1))
InLine(t) == \E i, j \in 0 .. Len(t) :
               /\ i <= j /\ InPipe(SubSeq(t, 1, i)) /\ \A k \in i + 1 .. j : t[k] = "&"
               /\ j = Len(t) \/ (t[j + 1] = ";" /\ InLine(Drop(t, j + 2)))

\* The words of a token sequence that are arguments, and of a command.
Words(t) == IF t = <<>> THEN 0
            ELSE IF t[1] \in {"<", ">", "+"} THEN Words(Drop(t, 3))
            ELSE (IF t[1] = "a" THEN 1 ELSE 0) + Words(Tail(t))
RECURSIVE Argc(_)
Argc(c) == IF c.type = "EXEC" THEN c.argc
           ELSE IF c.type \in {"REDIR", "BACK"} THEN Argc(c.cmd) ELSE Argc(c.left) + Argc(c.right)

\* parsecmd() accepts exactly the lines of the grammar
\*   line = pipe "&"* [";" line],  pipe = exec ["|" pipe],
\*   exec = redirections and fewer than MAXARGS words | "(" line ")" redirections,
\* and every word of an accepted line becomes an argument of one command:
\* the hand-written lookahead loses no token at the places where two of the
\* parsing functions hand over to each other.
ParserMatchesGrammar ==
  got => LET p == parsecmd(typed)
             t == Tokens(typed) IN
         IF InLine(t) THEN p.ok /\ Argc(p.cmd) = Words(t) ELSE ~p.ok
==============================================================================
