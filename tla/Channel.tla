------------------------------ MODULE Channel ------------------------------
(***************************************************************************)
(* What a pipe promises: the bytes written come out once, in order, from a *)
(* queue of bounded length, and a reader is told of the end of the file    *)
(* only when the queue is empty and no writer is left.                     *)
(***************************************************************************)
EXTENDS Naturals, Sequences

CONSTANTS Byte, Size

VARIABLES queue,    \* bytes in the pipe
          open,     \* some process has the write end
          last,     \* the byte read last
          eof       \* a reader has been told of the end of the file

Init == queue = << >> /\ open = TRUE /\ last \in Byte /\ eof = FALSE

Write == /\ open /\ Len(queue) < Size
         /\ \E b \in Byte : queue' = Append(queue, b)
         /\ UNCHANGED <<open, last, eof>>

Read == /\ queue # << >>
        /\ last' = Head(queue) /\ queue' = Tail(queue)
        /\ UNCHANGED <<open, eof>>

Close == open /\ open' = FALSE /\ UNCHANGED <<queue, last, eof>>

Eof == queue = << >> /\ ~open /\ eof' = TRUE /\ UNCHANGED <<queue, open, last>>

Next == Write \/ Read \/ Close \/ Eof

vars == <<queue, open, last, eof>>

Spec == Init /\ [][Next]_vars
=============================================================================
