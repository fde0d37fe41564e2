------------------------------- MODULE Malloc --------------------------------
(***************************************************************************)
(* The user-level allocator (umalloc.c).  Addresses count in headers; base *)
(* lies at 0, below the heap.  hdr holds the headers; one that heads no      *)
(* piece any more, and is written before it is read again, is Blank.  The  *)
(* program may also call sbrk() itself, so that the pieces morecore()      *)
(* obtains need not touch.                                                 *)
(***************************************************************************)
EXTENDS Integers, FiniteSets

CONSTANTS NHeap,      \* bound: headers that sbrk() can give out
          MinCore,    \* 4096 in morecore()
          MaxUnits    \* bound on nunits

Base == 0
Addr == 0 .. NHeap

VARIABLES hdr, freep, held, brk, foreign   \* foreign: what the program took with sbrk()
mallocVars == <<hdr, freep, held, brk, foreign>>

\* base before the first call: no list, freep is 0.
Blank == [ptr |-> Base, size |-> 0]
MallocInit == /\ hdr = [a \in Addr |-> Blank] /\ freep = -1 /\ held = {} /\ brk = 1 /\ foreign = {}

------------------------------------------------------------------------------
\* free(): the place in the list, from freep on.
RECURSIVE Place(_, _, _), Fit(_, _, _, _)
Place(h, p, bp) ==
  IF bp > p /\ bp < h[p].ptr THEN p
  ELSE IF p >= h[p].ptr /\ (bp > p \/ bp < h[p].ptr) THEN p
  ELSE Place(h, h[p].ptr, bp)

\* Mutant: the piece is joined with the one above but not with the one below.
Freed_Upper(h, fp, bp) ==
  LET p == Place(h, fp, bp)
      q == h[p].ptr
      upper == IF bp + h[bp].size = q
               THEN [h EXCEPT ![bp] = [ptr |-> h[q].ptr, size |-> @.size + h[q].size], ![q] = Blank]
               ELSE [h EXCEPT ![bp].ptr = q] IN
  [h |-> [upper EXCEPT ![p].ptr = bp], freep |-> p]

\* The list with bp in it, joined with its neighbours where they touch.
Freed(h, fp, bp) ==
  LET p == Place(h, fp, bp)
      q == h[p].ptr
      upper == IF bp + h[bp].size = q
               THEN [h EXCEPT ![bp] = [ptr |-> h[q].ptr, size |-> @.size + h[q].size], ![q] = Blank]
               ELSE [h EXCEPT ![bp].ptr = q]
      lower == IF p + h[p].size = bp
               THEN [upper EXCEPT ![p] = [ptr |-> upper[bp].ptr, size |-> @.size + upper[bp].size],
                                  ![bp] = Blank]
               ELSE [upper EXCEPT ![p].ptr = bp] IN
  [h |-> lower, freep |-> p]

\* malloc()'s walk: the header before the first piece that is large enough,
\* or -1 when the walk comes back to freep.
Fit(h, fp, prev, n) == IF h[h[prev].ptr].size >= n THEN prev
                       ELSE IF h[prev].ptr = fp THEN -1 ELSE Fit(h, fp, h[prev].ptr, n)

\* The piece after prev: whole, or its upper end.
Take(h, prev, n) ==
  LET p == h[prev].ptr
      a == p + (h[p].size - n) IN
  /\ hdr' = IF h[p].size = n THEN [h EXCEPT ![prev].ptr = h[p].ptr, ![p].ptr = Base]
            ELSE [h EXCEPT ![p].size = @ - n, ![a].size = n]
  /\ freep' = prev /\ held' = held \union {a}

------------------------------------------------------------------------------
malloc(n) ==
  LET fp == IF freep = -1 THEN Base ELSE freep
      prev == Fit(hdr, fp, fp, n)
      nu == IF n < MinCore THEN MinCore ELSE n
      f == Freed([hdr EXCEPT ![brk].size = nu], fp, brk) IN
  /\ \/ prev # -1 /\ Take(hdr, prev, n) /\ UNCHANGED brk
     \/ prev = -1 /\ brk + nu <= NHeap + 1 /\ brk' = brk + nu        \* morecore()
        /\ Take(f.h, Fit(f.h, f.freep, f.freep, n), n)
     \/ prev = -1 /\ freep' = fp /\ UNCHANGED <<hdr, held, brk>>       \* sbrk() failed
  /\ UNCHANGED foreign

free(bp) ==
  LET f == Freed(hdr, freep, bp) IN
  /\ bp \in held
  /\ hdr' = f.h /\ freep' = f.freep /\ held' = held \ {bp} /\ UNCHANGED <<brk, foreign>>

\* The program's own sbrk().
sbrk == /\ brk <= NHeap /\ brk' = brk + 1 /\ foreign' = foreign \union {brk}
        /\ UNCHANGED <<hdr, freep, held>>

MallocNext == (\E n \in 2 .. MaxUnits : malloc(n)) \/ (\E bp \in Addr : free(bp)) \/ sbrk

------------------------------------------------------------------------------
RECURSIVE ListFrom(_, _)
ListFrom(p, seen) == IF p \in seen THEN seen ELSE ListFrom(hdr[p].ptr, seen \union {p})
FreeList == IF freep = -1 THEN {Base} ELSE ListFrom(freep, {})
Piece(a) == a .. a + hdr[a].size - 1

\* Every header of the heap is in exactly one piece, free or held: the list
\* never hands the same memory out twice, and splitting and joining lose none.
HeapPartitioned ==
  LET all == (FreeList \ {Base}) \union held IN
  /\ FreeList \intersect held = {}
  /\ UNION {Piece(a) : a \in all} = (1 .. brk - 1) \ foreign
  /\ \A a, b \in all : a # b => Piece(a) \intersect Piece(b) = {}

\* The list goes round through base in the order of addresses, and pieces that
\* touch have been joined, wherever freep was when they were freed.
ListSortedJoined ==
  /\ Base \in FreeList
  /\ \A p \in FreeList : LET q == hdr[p].ptr IN
       /\ q \in FreeList
       /\ q > p => \A r \in FreeList : ~(r > p /\ r < q)
       /\ q <= p => q = Base /\ \A r \in FreeList : r <= p
       /\ p # Base /\ q # Base => p + hdr[p].size # q

\* The heap under malloc() and free().
HeapSound == HeapPartitioned /\ ListSortedJoined
==============================================================================
