------------------------------- MODULE Console -------------------------------
(***************************************************************************)
(* The console (console.c): line editing in a ring of INPUT_BUF bytes      *)
(* between consoleintr() and consoleread(), and the cursor of cgaputc().   *)
(* cons.lock is held across a turn of a loop; a reader lets it go only in  *)
(* sleep() and on return.  Keys: "x" is any printing byte, "nl" stands for *)
(* '\n' and '\r', "eof" for ^D, "bs" for ^H and DEL, "kill" for ^U.        *)
(***************************************************************************)
EXTENDS Integers, Sequences, Kernel

CONSTANTS INPUT_BUF,
          UIntCons,        \* 2^32, a multiple of INPUT_BUF
          MaxRead,         \* bound on the bytes asked for
          Cols, Rows       \* 80 and 24: the screen has a row more, which stays empty
ASSUME RingAssumption == UIntCons % INPUT_BUF = 0 /\ UIntCons > INPUT_BUF

VARIABLES ibuf, ir, iw, ie,  \* struct input
          cpc, cn, cgot,     \* reader: where, bytes still wanted, bytes read
          ckilled,
          conslock,          \* the reader holding cons.lock
          pos,               \* the cursor
          line, ready        \* the line edited, the bytes ready to read

consVars == <<ibuf, ir, iw, ie, cpc, cn, cgot, ckilled, conslock, pos, line, ready>>

ConsoleInit ==
  /\ ibuf = [j \in 0 .. INPUT_BUF - 1 |-> "x"] /\ ir = 0 /\ iw = 0 /\ ie = 0
  /\ cpc = [p \in Proc |-> "idle"] /\ cn = [p \in Proc |-> 0] /\ cgot = [p \in Proc |-> 0]
  /\ ckilled = {} /\ conslock = Nobody /\ pos = 0
  /\ line = <<>> /\ ready = <<>>

Plus(a, n) == (a + n + UIntCons) % UIntCons

\* cgaputc(): the cursor after c, scrolled.  c is "nl", "bs" or a byte.
Moved(q, c) == IF c = "nl" THEN q + Cols - (q % Cols)
               ELSE IF c = "bs" THEN IF q > 0 THEN q - 1 ELSE q ELSE q + 1
cgaputc(q, c) == IF Moved(q, c) \div Cols >= Rows THEN Moved(q, c) - Cols ELSE Moved(q, c)

Room == Plus(ie, -ir) < INPUT_BUF

WakeConsole(c) == [p \in Proc |-> IF cpc[p] = "asleep" THEN "test" ELSE cpc[p]]

\* consoleintr(): one byte.
consoleintr(c) ==
  LET commits == c \in {"nl", "eof"} \/ Plus(ie, 1) = Plus(ir, INPUT_BUF) IN
  /\ conslock = Nobody
  /\ \/ /\ c = "bs"
        /\ IF ie = iw THEN UNCHANGED <<ie, line, pos>>
           ELSE /\ ie' = Plus(ie, -1) /\ line' = SubSeq(line, 1, Len(line) - 1)
                /\ pos' = cgaputc(pos, "bs")
        /\ UNCHANGED <<ibuf, iw, cpc, ready>>
     \/ /\ c = "kill"   \* down to iw, or to a newline, which is never after iw
        /\ \E k \in 0 .. Plus(ie, -iw) :
             /\ \A j \in 1 .. k : ibuf[Plus(ie, -j) % INPUT_BUF] # "nl"
             /\ k < Plus(ie, -iw) => ibuf[Plus(ie, -k - 1) % INPUT_BUF] = "nl"
             /\ ie' = Plus(ie, -k) /\ pos' = IF pos > k THEN pos - k ELSE 0
        /\ line' = <<>>
        /\ UNCHANGED <<ibuf, iw, cpc, ready>>
     \/ /\ c \notin {"bs", "kill"} /\ Room
        /\ ibuf' = [ibuf EXCEPT ![ie % INPUT_BUF] = c] /\ ie' = Plus(ie, 1)
        /\ pos' = cgaputc(pos, c)
        /\ IF commits
           THEN /\ iw' = ie' /\ cpc' = WakeConsole(c)
                /\ ready' = ready \o Append(line, c) /\ line' = <<>>
           ELSE line' = Append(line, c) /\ UNCHANGED <<iw, cpc, ready>>
  /\ UNCHANGED <<ir, cn, cgot, ckilled, conslock>>

consoleread(p) ==
  /\ cpc[p] = "idle" /\ p \notin ckilled
  /\ \E n \in 1 .. MaxRead : cn' = [cn EXCEPT ![p] = n]
  /\ cpc' = [cpc EXCEPT ![p] = "test"]
  /\ UNCHANGED <<ibuf, ir, iw, ie, cgot, ckilled, conslock, pos, line, ready>>

Returns(p) == /\ cpc' = [cpc EXCEPT ![p] = "idle"] /\ conslock' = Nobody
              /\ cn' = [cn EXCEPT ![p] = 0] /\ cgot' = [cgot EXCEPT ![p] = 0]

\* Mutant: ^D is used up by the read that met it after other bytes.
read_turn_EofGone(p) ==
  LET c == ibuf[ir % INPUT_BUF] IN
  /\ cpc[p] = "test" /\ conslock \in {Nobody, p} /\ ir # iw
  /\ ir' = Plus(ir, 1) /\ ready' = Tail(ready)
  /\ IF c \in {"nl", "eof"} \/ cn[p] = 1 THEN Returns(p)
     ELSE /\ cn' = [cn EXCEPT ![p] = @ - 1] /\ cgot' = [cgot EXCEPT ![p] = @ + 1]
          /\ conslock' = p /\ UNCHANGED cpc
  /\ UNCHANGED <<ibuf, iw, ie, ckilled, pos, line>>

\* A turn of the loop with cons.lock: empty, killed, ^D, or a byte.
read_turn(p) ==
  LET c == ibuf[ir % INPUT_BUF] IN
  /\ cpc[p] = "test" /\ conslock \in {Nobody, p}
  /\ \/ /\ ir = iw /\ p \in ckilled
        /\ Returns(p) /\ UNCHANGED <<ir, ready>>
     \/ /\ ir = iw /\ p \notin ckilled
        /\ cpc' = [cpc EXCEPT ![p] = "sleep"] /\ conslock' = p
        /\ UNCHANGED <<ir, ready, cn, cgot>>
     \/ /\ ir # iw /\ c = "eof"
        /\ IF cgot[p] > 0 THEN UNCHANGED <<ir, ready>> ELSE ir' = Plus(ir, 1) /\ ready' = Tail(ready)
        /\ Returns(p)
     \/ /\ ir # iw /\ c # "eof" /\ ir' = Plus(ir, 1) /\ ready' = Tail(ready)
        /\ IF c = "nl" \/ cn[p] = 1 THEN Returns(p)
           ELSE /\ cn' = [cn EXCEPT ![p] = @ - 1] /\ cgot' = [cgot EXCEPT ![p] = @ + 1]
                /\ conslock' = p /\ UNCHANGED cpc
  /\ UNCHANGED <<ibuf, iw, ie, ckilled, pos, line>>

\* sleep(&input.r, &cons.lock)
read_sleep(p) ==
  /\ cpc[p] = "sleep" /\ cpc' = [cpc EXCEPT ![p] = "asleep"] /\ conslock' = Nobody
  /\ UNCHANGED <<ibuf, ir, iw, ie, cn, cgot, ckilled, pos, line, ready>>

cons_kill(p) ==
  /\ p \notin ckilled /\ cpc[p] # "idle" /\ ckilled' = ckilled \union {p}
  /\ cpc' = IF cpc[p] = "asleep" THEN [cpc EXCEPT ![p] = "test"] ELSE cpc
  /\ UNCHANGED <<ibuf, ir, iw, ie, cn, cgot, conslock, pos, line, ready>>

\* consolewrite(): one byte.
consolewrite(c) ==
  /\ conslock = Nobody /\ pos' = cgaputc(pos, c)
  /\ UNCHANGED <<ibuf, ir, iw, ie, cpc, cn, cgot, ckilled, conslock, line, ready>>

ConsoleNext == \/ \E c \in {"x", "nl", "eof", "bs", "kill"} : consoleintr(c)
               \/ \E c \in {"x", "nl"} : consolewrite(c)
               \/ \E p \in Proc : \/ consoleread(p) \/ read_turn(p) \/ read_sleep(p)
                                  \/ cons_kill(p)

------------------------------------------------------------------------------
ConsoleTypeOK == /\ {ir, iw, ie} \subseteq 0 .. UIntCons - 1 /\ ckilled \subseteq Proc
                 /\ conslock \in Proc \union {Nobody}

\* The bytes of the ring from index a up to b.
Slice(a, b) == [j \in 1 .. Plus(b, -a) |-> ibuf[Plus(a, j - 1) % INPUT_BUF]]

\* Whatever is typed, erased, killed and read, and however the counters wrap,
\* the ring holds the finished bytes in order and then the line being edited.
RingHoldsInput == Slice(ir, iw) = ready /\ Slice(iw, ie) = line

\* No reader sleeps while bytes are ready: the full ring wakes it like a
\* newline does, and nothing falls between its test and its sleep.
ReadersAwake ==
  conslock = Nobody => \A p \in Proc : cpc[p] = "asleep" => ir = iw

\* A ^D ends one read and gives one 0-byte read: the read that takes it away
\* returns nothing.
EofReadsZero ==
  [][(ready # <<>> /\ Head(ready) = "eof" /\ ready' = Tail(ready)) =>
       \E p \in Proc : cpc[p] = "test" /\ cgot[p] = 0 /\ cpc'[p] = "idle"]_consVars

\* cgaputc() leaves the cursor inside the 24 rows it scrolls, however output,
\* echo and erasing interleave.
CursorOnScreen == pos \in 0 .. Rows * Cols - 1

\* What is typed, edited and echoed is what consoleread() returns.
ConsoleSound == /\ [](ConsoleTypeOK /\ RingHoldsInput /\ ReadersAwake /\ CursorOnScreen)
                /\ EofReadsZero
==============================================================================
