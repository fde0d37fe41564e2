-------------------------------- MODULE Pipe --------------------------------
(***************************************************************************)
(* A pipe (pipe.c) and the processes that have its ends open.              *)
(*                                                                         *)
(* p->lock is held from "wlocked" or "rlocked" on.  sleep() is a step of   *)
(* its own after the test of p->killed, since kill() needs only            *)
(* ptable.lock and may come in between.  nread and nwrite are unsigned and *)
(* wrap around; PIPESIZE divides their range.                              *)
(***************************************************************************)
EXTENDS Naturals, Sequences, Kernel

CONSTANTS PipeProc,
          PIPESIZE,          \* bytes in the ring (pipe.c:11)
          UInt,              \* 2^32: nread and nwrite are taken modulo this
          Byte,              \* contents
          IOSizes,           \* bound: lengths of a read() or write(), at least 1
          Ends               \* records [r, w]: who may have the two ends open

ASSUME PipeAssumption == /\ PIPESIZE \in Nat \ {0} /\ UInt \in Nat
                         /\ UInt % PIPESIZE = 0 /\ UInt > PIPESIZE
                         /\ Byte # {} /\ IOSizes \subseteq Nat \ {0} /\ Nobody \notin PipeProc

\* pipe() gives its caller both ends; somebody has the write end at first.
ASSUME EndsAssumption ==
  \A e \in Ends : e.r \subseteq PipeProc /\ e.w \subseteq PipeProc /\ e.w # {}

VARIABLES
  ring, nread, nwrite,   \* p->data and its counters
  readfd, writefd,       \* the processes with a reference to each end
  plock,                 \* holder of p->lock
  ppc,                   \* where each process is
  left,                  \* bytes its read() or write() has still to move
  moved,                 \* piperead() has copied a byte
  pkilled,               \* processes with p->killed set
  lastread, sawEof       \* what the readers got last

pipeVars == <<ring, nread, nwrite, readfd, writefd, plock, ppc, left, moved,
              pkilled, lastread, sawEof>>

\* pipealloc(), and the fork()s that hand out the ends.
PipeInit ==
  /\ LET b0 == CHOOSE b \in Byte : TRUE
     IN ring = [i \in 0 .. PIPESIZE - 1 |-> b0] /\ lastread = b0
  /\ nread = 0 /\ nwrite = 0
  /\ \E e \in Ends : readfd = e.r /\ writefd = e.w
  /\ plock = Nobody
  /\ ppc = [p \in PipeProc |-> "idle"]
  /\ left = [p \in PipeProc |-> 0]
  /\ moved = FALSE
  /\ pkilled = {}
  /\ sawEof = FALSE

Count == (nwrite + UInt - nread) % UInt

\* "p->nwrite == p->nread + PIPESIZE", in unsigned arithmetic.
Full_NoWrap == nwrite = nread + PIPESIZE                \* mutant
Full == nwrite = (nread + PIPESIZE) % UInt

At(p, from) == ppc[p] = from
Move(p, from, to) == At(p, from) /\ ppc' = [ppc EXCEPT ![p] = to]

\* wakeup(&p->nread) and wakeup(&p->nwrite): who sleeps there will test again.
WakeReaders(pcs) == [p \in PipeProc |-> IF pcs[p] = "rasleep" THEN "read" ELSE pcs[p]]
WakeWriters(pcs) == [p \in PipeProc |-> IF pcs[p] = "wasleep" THEN "write" ELSE pcs[p]]

-----------------------------------------------------------------------------
\* read() and write() by a process that has the end open and is not killed.
call_pipe(p) ==
  /\ p \notin pkilled
  /\ \/ Move(p, "idle", "write") /\ p \in writefd
     \/ Move(p, "idle", "read") /\ p \in readfd
  /\ \E n \in IOSizes : left' = [left EXCEPT ![p] = n]
  /\ UNCHANGED <<ring, nread, nwrite, readfd, writefd, plock, moved, pkilled,
                 lastread, sawEof>>

\* acquire(&p->lock), at the start or when sleep() returns.
pipe_acquire(p) ==
  /\ Move(p, "write", "wlocked") \/ Move(p, "read", "rlocked")
  /\ plock = Nobody /\ plock' = p
  /\ UNCHANGED <<ring, nread, nwrite, readfd, writefd, left, moved, pkilled,
                 lastread, sawEof>>

\* pipewrite() copies a byte.
pipewrite_byte(p) ==
  /\ At(p, "wlocked") /\ left[p] > 0 /\ ~Full
  /\ \E b \in Byte : ring' = [ring EXCEPT ![nwrite % PIPESIZE] = b]
  /\ nwrite' = (nwrite + 1) % UInt
  /\ left' = [left EXCEPT ![p] = @ - 1]
  /\ UNCHANGED <<nread, readfd, writefd, plock, ppc, moved, pkilled, lastread, sawEof>>

\* The pipe is full: give up, or wake the readers and sleep.
pipewrite_full(p) ==
  /\ At(p, "wlocked") /\ left[p] > 0 /\ Full
  /\ IF readfd = {} \/ p \in pkilled
     THEN /\ ppc' = [ppc EXCEPT ![p] = "idle"]
          /\ plock' = Nobody /\ left' = [left EXCEPT ![p] = 0]
     ELSE /\ ppc' = WakeReaders([ppc EXCEPT ![p] = "wsleep"])
          /\ UNCHANGED <<plock, left>>
  /\ UNCHANGED <<ring, nread, nwrite, readfd, writefd, moved, pkilled, lastread, sawEof>>

pipewrite_return(p) ==
  /\ At(p, "wlocked") /\ left[p] = 0
  /\ ppc' = WakeReaders([ppc EXCEPT ![p] = "idle"])
  /\ plock' = Nobody
  /\ UNCHANGED <<ring, nread, nwrite, readfd, writefd, left, moved, pkilled,
                 lastread, sawEof>>

\* piperead() finds nothing to read: give up or sleep.
piperead_empty(p) ==
  /\ At(p, "rlocked") /\ ~moved
  /\ nread = nwrite /\ writefd # {}
  /\ IF p \in pkilled
     THEN /\ ppc' = [ppc EXCEPT ![p] = "idle"]
          /\ plock' = Nobody /\ left' = [left EXCEPT ![p] = 0]
     ELSE /\ ppc' = [ppc EXCEPT ![p] = "rsleep"]
          /\ UNCHANGED <<plock, left>>
  /\ UNCHANGED <<ring, nread, nwrite, readfd, writefd, moved, pkilled, lastread, sawEof>>

\* piperead() copies a byte.
piperead_byte(p) ==
  /\ At(p, "rlocked") /\ left[p] > 0 /\ nread # nwrite
  /\ lastread' = ring[nread % PIPESIZE]
  /\ nread' = (nread + 1) % UInt
  /\ left' = [left EXCEPT ![p] = @ - 1]
  /\ moved' = TRUE
  /\ UNCHANGED <<ring, nwrite, readfd, writefd, plock, ppc, pkilled, sawEof>>

\* piperead() returns the number of bytes copied: 0 is the end of the file.
piperead_return(p) ==
  /\ At(p, "rlocked")
  /\ left[p] = 0 \/ nread = nwrite
  /\ moved \/ writefd = {}
  /\ ppc' = WakeWriters([ppc EXCEPT ![p] = "idle"])
  /\ sawEof' = (sawEof \/ ~moved)
  /\ plock' = Nobody /\ moved' = FALSE /\ left' = [left EXCEPT ![p] = 0]
  /\ UNCHANGED <<ring, nread, nwrite, readfd, writefd, pkilled, lastread>>

-----------------------------------------------------------------------------
\* sleep(): SLEEPING, and p->lock is released.
sleep_on_pipe(p) ==
  /\ Move(p, "wsleep", "wasleep") \/ Move(p, "rsleep", "rasleep")
  /\ plock' = Nobody
  /\ UNCHANGED <<ring, nread, nwrite, readfd, writefd, left, moved, pkilled,
                 lastread, sawEof>>

\* kill(): a process that is SLEEPING now runs again.
pipe_kill(p) ==
  /\ p \notin pkilled /\ pkilled' = pkilled \cup {p}
  /\ ppc' = [ppc EXCEPT ![p] = CASE @ = "wasleep" -> "write"
                                 [] @ = "rasleep" -> "read"
                                 [] OTHER -> @]
  /\ UNCHANGED <<ring, nread, nwrite, readfd, writefd, plock, left, moved,
                 lastread, sawEof>>

\* close(), or the exit() of a killed process: the last reference to an end
\* calls pipeclose().
\* Mutant: pipeclose() wakes nobody.
pipeclose_NoWakeup(p) ==
  /\ At(p, "idle") /\ plock = Nobody
  /\ \/ p \in writefd /\ writefd' = writefd \ {p} /\ UNCHANGED readfd
     \/ p \in readfd /\ readfd' = readfd \ {p} /\ UNCHANGED writefd
  /\ UNCHANGED <<ring, nread, nwrite, plock, ppc, left, moved, pkilled, lastread, sawEof>>
pipeclose(p) ==
  /\ At(p, "idle") /\ plock = Nobody
  /\ \/ /\ p \in writefd /\ writefd' = writefd \ {p} /\ UNCHANGED readfd
        /\ ppc' = IF writefd' = {} THEN WakeReaders(ppc) ELSE ppc
     \/ /\ p \in readfd /\ readfd' = readfd \ {p} /\ UNCHANGED writefd
        /\ ppc' = IF readfd' = {} THEN WakeWriters(ppc) ELSE ppc
  /\ UNCHANGED <<ring, nread, nwrite, plock, left, moved, pkilled, lastread, sawEof>>

\* What the kernel does for a process that is inside a call.
PipeKernel(p) ==
  \/ pipe_acquire(p) \/ sleep_on_pipe(p)
  \/ pipewrite_byte(p) \/ pipewrite_full(p) \/ pipewrite_return(p)
  \/ piperead_empty(p) \/ piperead_byte(p) \/ piperead_return(p)

PipeNext == \E p \in PipeProc : PipeKernel(p) \/ call_pipe(p) \/ pipeclose(p) \/ pipe_kill(p)

PipeSpec == PipeInit /\ [][PipeNext]_pipeVars

-----------------------------------------------------------------------------
PipeTypeOK ==
  /\ ring \in [0 .. PIPESIZE - 1 -> Byte]
  /\ nread \in 0 .. UInt - 1 /\ nwrite \in 0 .. UInt - 1
  /\ readfd \subseteq PipeProc /\ writefd \subseteq PipeProc /\ pkilled \subseteq PipeProc
  /\ plock \in PipeProc \cup {Nobody}
  /\ ppc \in [PipeProc -> {"idle", "write", "wlocked", "wsleep", "wasleep",
                       "read", "rlocked", "rsleep", "rasleep"}]
  /\ left \in [PipeProc -> Nat]
  /\ moved \in BOOLEAN /\ sawEof \in BOOLEAN /\ lastread \in Byte

\* The ring with its wrapping counters is a bounded first-in first-out queue,
\* across any interleaving of readers, writers, kills and closes.
Fifo == INSTANCE Channel WITH
          Size <- PIPESIZE,
          queue <- [i \in 1 .. Count |-> ring[(nread + i - 1) % PIPESIZE]],
          open <- writefd # {}, last <- lastread, eof <- sawEof
PipeIsFifo == Fifo!Spec

\* Who sleeps has a reason to: a reader sleeps only on an empty pipe that
\* somebody may still write to, a writer only on a full one that somebody may
\* still read.  The exception is real: a killed writer that has filled the pipe
\* returns without the wakeup(&p->nread) it owes (pipe.c:86-88), and leaves a
\* reader asleep although there are bytes.
PipeSleepers ==
  plock = Nobody =>
  \A p \in PipeProc :
    /\ ppc[p] = "rasleep" => (nread = nwrite \/ pkilled \ {p} # {}) /\ writefd # {}
    /\ ppc[p] = "wasleep" => Full /\ readfd # {}

\* A process with an end open, once it has started a read() or a write(),
\* comes back when the other side stops: nobody waits for ever for a process
\* that has closed the pipe or exited.  (A process that reads a pipe of which it
\* has the write end may wait for itself.)
PipeCallsEnd ==
  readfd \cap writefd = {} => \A p \in PipeProc : ppc[p] # "idle" ~> ppc[p] = "idle"

\* No wakeup is lost at either end of the pipe, by kill() or by a close.
PipeSound == PipeTypeOK /\ PipeSleepers
=============================================================================
