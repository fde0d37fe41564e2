-------------------------------- MODULE Text ---------------------------------
(***************************************************************************)
(* The pure functions on text and memory: memmove, strncmp and strncpy     *)
(* (string.c), the elements of a path (skipelem of fs.c), the matcher of   *)
(* grep.c, and printint (printf.c, console.c).  A string is a sequence     *)
(* without its NUL.  An input is chosen, and its result compared with what *)
(* the function is for.                                                    *)
(***************************************************************************)
EXTENDS Integers, Sequences

CONSTANTS NMem,       \* cells of the memory that memmove works on
          DIRSIZ, MaxPath, MaxRe, MaxText,
          IntMod      \* 2^w, for integers of w bits

Strings(S, n) == UNION {[1 .. k -> S] : k \in 0 .. n}
Suffix(s, i) == SubSeq(s, i, Len(s))
Char(s, i) == IF i <= Len(s) THEN s[i] ELSE "NUL"

------------------------------------------------------------------------------
\* memmove: downwards when the destination overlaps the end of the source.
RECURSIVE Up(_, _, _, _), Down(_, _, _, _)
Up(m, d, s, n) == IF n = 0 THEN m ELSE Up([m EXCEPT ![d] = m[s]], d + 1, s + 1, n - 1)
Down(m, d, s, n) == IF n = 0 THEN m ELSE Down([m EXCEPT ![d + n - 1] = m[s + n - 1]], d, s, n - 1)

memmove(m, d, s, n) == IF s < d /\ s + n > d THEN Down(m, d, s, n) ELSE Up(m, d, s, n)

------------------------------------------------------------------------------
\* strncpy: the name and NULs up to n; strncmp: zero or not.
strncpy(t, n) == [i \in 1 .. n |-> Char(t, i)]

RECURSIVE strncmp(_, _, _)
strncmp(p, q, n) ==
  IF n > 0 /\ Char(p, 1) # "NUL" /\ Char(p, 1) = Char(q, 1) THEN strncmp(Suffix(p, 2), Suffix(q, 2), n - 1)
  ELSE IF n = 0 \/ Char(p, 1) = Char(q, 1) THEN 0 ELSE 1

------------------------------------------------------------------------------
\* skipelem: slashes, a name cut to DIRSIZ, slashes; rest is "none" for 0.
RECURSIVE Slashes(_), Element(_), Elements(_)
Slashes(s) == IF Char(s, 1) = "/" THEN Slashes(Suffix(s, 2)) ELSE s
Element(s) == IF Char(s, 1) \in {"/", "NUL"} THEN 0 ELSE 1 + Element(Suffix(s, 2))

\* Mutant: the slashes after the name are left to the next call.
skipelem_Trailing(path) ==
  LET s == Slashes(path)
      len == Element(s) IN
  IF s = <<>> THEN [ok |-> FALSE, name |-> <<>>, rest |-> <<>>]
  ELSE [ok |-> TRUE, name |-> SubSeq(s, 1, IF len >= DIRSIZ THEN DIRSIZ ELSE len),
        rest |-> Suffix(s, len + 1)]

skipelem(path) ==
  LET s == Slashes(path)
      len == Element(s) IN
  IF s = <<>> THEN [ok |-> FALSE, name |-> <<>>, rest |-> <<>>]
  ELSE [ok |-> TRUE, name |-> SubSeq(s, 1, IF len >= DIRSIZ THEN DIRSIZ ELSE len),
        rest |-> Slashes(Suffix(s, len + 1))]

\* The names namex() looks up, and with nameiparent the one it stops before:
\* the element after which the path is empty.
Elements(path) ==
  LET e == skipelem(path) IN
  IF ~e.ok THEN <<>>
  ELSE <<[name |-> e.name, last |-> e.rest = <<>>]>> \o Elements(e.rest)

------------------------------------------------------------------------------
\* match, matchhere and matchstar of grep.c.
RECURSIVE matchhere(_, _), matchstar(_, _, _)

matchstar(c, re, text) ==
  \/ matchhere(re, text)
  \/ text # <<>> /\ c \in {text[1], "."} /\ matchstar(c, re, Tail(text))

matchhere(re, text) ==
  \/ re = <<>>
  \/ Char(re, 2) = "*" /\ matchstar(re[1], Suffix(re, 3), text)
  \/ re = <<"$">> /\ text = <<>>
  \/ /\ Char(re, 2) # "*" /\ re # <<"$">> /\ re # <<>>
     /\ text # <<>> /\ re[1] \in {".", text[1]} /\ matchhere(Tail(re), Tail(text))

match(re, text) == IF Char(re, 1) = "^" THEN matchhere(Tail(re), text)
                   ELSE \E i \in 1 .. Len(text) + 1 : matchhere(re, Suffix(text, i))

------------------------------------------------------------------------------
\* printint: the digits, least significant first, of an int of w bits.
RECURSIVE Digits(_, _)
Digits(x, base) == <<x % base>> \o (IF x \div base = 0 THEN <<>> ELSE Digits(x \div base, base))

printint(xx, base, sgn) ==
  LET neg == sgn /\ xx >= IntMod \div 2
      x == IF neg THEN (-xx) % IntMod ELSE xx IN
  [neg |-> neg, digits |-> Digits(x, base)]

------------------------------------------------------------------------------
VARIABLE input
textVars == input

TextInit == input = [fn |-> "none"]

Call(fn, args) == input' = [fn |-> fn, args |-> args]
call_memmove == \E d, s \in 1 .. NMem, n \in 0 .. NMem :
                  d + n <= NMem + 1 /\ s + n <= NMem + 1 /\ Call("memmove", <<d, s, n>>)
call_namecmp == \E p, q \in Strings({"a", "b"}, DIRSIZ + 1) : Call("namecmp", <<p, q>>)
call_skipelem == \E p \in Strings({"a", "/"}, MaxPath) : Call("skipelem", p)
call_match == \E re \in Strings({"a", "b", ".", "*", "^", "$"}, MaxRe), t \in Strings({"a", "b"}, MaxText) :
                Call("match", <<re, t>>)
call_printint == \E x \in 0 .. IntMod - 1, b \in {2, 3}, sgn \in BOOLEAN : Call("printint", <<x, b, sgn>>)
TextNext == /\ input.fn = "none"
            /\ call_memmove \/ call_namecmp \/ call_skipelem \/ call_match \/ call_printint

------------------------------------------------------------------------------
\* memmove() leaves at the destination what the source held before the call,
\* whichever way the two overlap, and nothing else changed.
MemmoveCopies ==
  input.fn = "memmove" =>
    LET d == input.args[1]  s == input.args[2]  n == input.args[3]
        m == [i \in 1 .. NMem |-> i] IN
    memmove(m, d, s, n) = [i \in 1 .. NMem |-> IF i \in d .. d + n - 1 THEN s + (i - d) ELSE i]

\* namecmp(): an entry written by dirlink() with strncpy() is found by exactly
\* the names that agree with it up to DIRSIZ, also when it fills the field and
\* has no NUL.
NamesCompare ==
  input.fn = "namecmp" =>
    LET Cut(s) == SubSeq(s, 1, IF Len(s) < DIRSIZ THEN Len(s) ELSE DIRSIZ)
        p == input.args[1]  q == input.args[2] IN
    (strncmp(p, strncpy(q, DIRSIZ), DIRSIZ) = 0) <=> Cut(p) = Cut(q)

\* A path names the maximal runs of characters other than a slash, cut to
\* DIRSIZ; only the last of them has no path after it, so that nameiparent()
\* stops at the same element whatever slashes end the path.
SkipelemSplits ==
  input.fn = "skipelem" =>
    LET p == input.args
        starts == {i \in 1 .. Len(p) : p[i] # "/" /\ (i = 1 \/ p[i - 1] = "/")}
        e == Elements(p) IN
    /\ Len(e) = Len(SelectSeq([i \in 1 .. Len(p) |-> i \in starts], LAMBDA b : b))
    /\ \A k \in 1 .. Len(e) : e[k].last <=> k = Len(e)
    /\ \A k \in 1 .. Len(e) : \E i \in starts :
         /\ Len(SelectSeq([j \in 1 .. i |-> j \in starts], LAMBDA b : b)) = k
         /\ e[k].name = SubSeq(p, i, i + Len(e[k].name) - 1)
         /\ Len(e[k].name) = DIRSIZ \/ Char(p, i + Len(e[k].name)) \in {"/", "NUL"}

\* A pattern as a sequence of items, each with the number of characters it
\* may stand for.
RECURSIVE Items(_)
Items(re) == IF re = <<>> THEN <<>>
             ELSE IF Char(re, 2) = "*" THEN <<[c |-> re[1], star |-> TRUE]>> \o Items(Suffix(re, 3))
             ELSE <<[c |-> re[1], star |-> FALSE]>> \o Items(Tail(re))

\* match() finds a line exactly when some way of giving each item of the
\* pattern its number of characters fits the text: the recursion neither
\* gives up too early nor runs past the end of the line.
MatchIsRegexp ==
  input.fn = "match" =>
    LET t == input.args[2]
        begin == Char(input.args[1], 1) = "^"
        all == Items(IF begin THEN Tail(input.args[1]) ELSE input.args[1])
        end == all # <<>> /\ all[Len(all)] = [c |-> "$", star |-> FALSE]
        it == IF end THEN SubSeq(all, 1, Len(all) - 1) ELSE all
        Fits == \E pos \in [0 .. Len(it) -> 0 .. Len(t)] :
                  /\ begin => pos[0] = 0
                  /\ end => pos[Len(it)] = Len(t)
                  /\ \A i \in 1 .. Len(it) :
                       /\ pos[i] >= pos[i - 1] /\ (it[i].star \/ pos[i] = pos[i - 1] + 1)
                       /\ \A k \in pos[i - 1] + 1 .. pos[i] : it[i].c \in {".", t[k]} IN
    match(input.args[1], t) <=> Fits

RECURSIVE Value(_, _)
Value(d, base) == IF d = <<>> THEN 0 ELSE Head(d) + base * Value(Tail(d), base)

\* The digits printed denote the number, the most negative one included, whose
\* negation does not fit an int.
PrintintValue ==
  input.fn = "printint" =>
    LET x == input.args[1]  b == input.args[2]  sgn == input.args[3]
        r == printint(x, b, sgn)
        v == IF sgn /\ x >= IntMod \div 2 THEN x - IntMod ELSE x IN
    /\ (IF r.neg THEN -Value(r.digits, b) ELSE Value(r.digits, b)) = v
    /\ \A i \in 1 .. Len(r.digits) : r.digits[i] < b
    /\ r.digits[Len(r.digits)] = 0 => Len(r.digits) = 1

\* Each function computes what it is for.
TextSound == MemmoveCopies /\ NamesCompare /\ SkipelemSplits /\ MatchIsRegexp /\ PrintintValue
==============================================================================
