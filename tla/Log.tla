-------------------------------- MODULE Log --------------------------------
(***************************************************************************)
(* The write-ahead log of log.c: begin_op, log_write, end_op, commit and   *)
(* recovery, with the disk it writes, the part of the buffer cache it      *)
(* relies on (a dirty buffer is not evicted, bio.c:71-85) and power        *)
(* failures between any two disk writes.                                   *)
(*                                                                         *)
(* What log.lock protects is one step: log.lock is a spinlock, and sleep() *)
(* gives it up atomically.  Each bwrite() is a step of its own.            *)
(***************************************************************************)
EXTENDS Integers, Sequences, FiniteSets, Kernel

CONSTANTS Block,        \* home blocks
          Val,          \* block contents
          NoBuf,        \* the block is not in the buffer cache
          NoBlock,      \* the process has no buffer locked
          MAXOPBLOCKS,  \* param.h:10
          LOGSIZE,      \* param.h:11
          NLog,         \* sb.nlog, the size of the on-disk log (mkfs.c:25)
          OpBlocks,     \* set of bounds: how many blocks a system call really writes
          MaxCrashes    \* bound on power failures

ASSUME SizeAssumption == /\ MAXOPBLOCKS \in Nat \ {0}
                         /\ LOGSIZE \in Nat \ {0}
                         /\ NLog \in Nat
                         /\ OpBlocks \subseteq 0 .. MAXOPBLOCKS
                         /\ MaxCrashes \in Nat
\* mkfs makes the log as long as the header (mkfs.c:25), and the header has room
\* for more than one call (param.h:11 has room for three).
ASSUME LogSizeAssumption == NLog >= LOGSIZE /\ LOGSIZE > MAXOPBLOCKS
ASSUME ProcAssumption == IsFiniteSet(Proc)
ASSUME ValueAssumption == NoBuf \notin Val /\ NoBlock \notin Block

VARIABLES
  home,         \* disk: the home blocks
  logd,         \* disk: the data blocks of the log
  hd,           \* disk: the log header (its block[0 .. n-1])
  cache,        \* bcache: contents of each home block, or NoBuf
  dirty,        \* bcache: blocks whose buffer has B_DIRTY
  lh,           \* log.lh, as the sequence block[0 .. n-1]
  outstanding,  \* log.outstanding
  committing,   \* log.committing
  tail,         \* the loop index of write_log() and install_trans()
  boot,         \* how far initlog() has come; "up" once it has returned
  pc,           \* where each process is
  buf,          \* the block whose buffer the process has locked
  wrote,        \* blocks this system call has written so far
  panic,        \* the kernel has called panic()
  crashes,      \* power failures so far
  opblocks      \* which of OpBlocks this load keeps to, for good

disk == <<home, logd, hd>>
log == <<lh, outstanding, committing>>
vars == <<home, logd, hd, cache, dirty, lh, outstanding, committing, tail,
          boot, pc, buf, wrote, panic, crashes>>

BootPC == {"read_head", "install", "up"}
ProcPC == {"idle", "begin", "sleep", "op", "log_write", "write_log", "install", "done"}

\* log.lh.block[] mentions b.
Logged(b) == \E i \in 1 .. Len(lh) : lh[i] = b

\* What bread() of a home block returns (bio.c:96-106).
Read(b) == IF cache[b] = NoBuf THEN home[b] ELSE cache[b]

Up == boot = "up" /\ ~panic

\* A process between begin_op() and end_op().
InOp(p) == pc[p] \in {"op", "log_write"}

-----------------------------------------------------------------------------
Init == /\ home \in [Block -> Val]
        /\ \E v \in Val : logd = [i \in 1 .. LOGSIZE |-> v]
        /\ hd = << >>
        /\ cache = [b \in Block |-> NoBuf]
        /\ dirty = {}
        /\ lh = << >>
        /\ outstanding = 0
        /\ committing = FALSE
        /\ tail = 1
        /\ boot = "read_head"
        /\ pc = [p \in Proc |-> "idle"]
        /\ buf = [p \in Proc |-> NoBlock]
        /\ wrote = [p \in Proc |-> {}]
        /\ panic = FALSE
        /\ crashes = 0
        /\ opblocks \in OpBlocks

-----------------------------------------------------------------------------
\* wakeup(&log): every process sleeping in begin_op() looks again.
Awake(pcs) == [p \in Proc |-> IF pcs[p] = "sleep" THEN "begin" ELSE pcs[p]]

\* A file-system call starts: it is about to take log.lock in begin_op().
Call(p) == /\ Up
           /\ pc[p] = "idle"
           /\ pc' = [pc EXCEPT ![p] = "begin"]
           /\ UNCHANGED <<disk, cache, dirty, log, tail, boot, buf, wrote,
                          panic, crashes>>

\* Mutant: begin_op() reserves no space.
MustWait_NoSpace == committing

\* begin_op() has to wait: for the commit, or for log space.
MustWait == \/ committing
            \/ Len(lh) + (outstanding + 1) * MAXOPBLOCKS > LOGSIZE

begin_op_sleep(p) ==
  /\ Up
  /\ pc[p] = "begin"
  /\ MustWait
  /\ pc' = [pc EXCEPT ![p] = "sleep"]
  /\ UNCHANGED <<disk, cache, dirty, log, tail, boot, buf, wrote, panic,
                 crashes>>

begin_op(p) ==
  /\ Up
  /\ pc[p] = "begin"
  /\ ~MustWait
  /\ outstanding' = outstanding + 1
  /\ pc' = [pc EXCEPT ![p] = "op"]
  /\ UNCHANGED <<disk, cache, dirty, lh, committing, tail, boot, buf, wrote,
                 panic, crashes>>

\* bread() by a system call that only reads.
bread(p) ==
  /\ Up
  /\ pc[p] = "op"
  /\ \E b \in Block : /\ cache[b] = NoBuf
                      /\ cache' = [cache EXCEPT ![b] = home[b]]
  /\ UNCHANGED <<disk, dirty, log, tail, boot, pc, buf, wrote, panic,
                 crashes>>

\* bget() recycles a buffer that nobody holds and that is not dirty.
bget_recycle ==
  /\ ~panic
  /\ \E b \in Block : /\ cache[b] # NoBuf
                      /\ b \notin dirty
                      /\ \A p \in Proc : buf[p] # b
                      /\ cache' = [cache EXCEPT ![b] = NoBuf]
  /\ UNCHANGED <<disk, dirty, log, tail, boot, pc, buf, wrote, panic,
                 crashes>>

\* The panics of log_write(), decided before it takes log.lock.
TooBig == Len(lh) >= LOGSIZE \/ Len(lh) >= NLog - 1

\* A system call locks a buffer, changes it and enters log_write().
modify(p, b, v) ==
  /\ Up
  /\ pc[p] = "op"
  /\ \A q \in Proc : buf[q] # b
  /\ Cardinality(wrote[p] \cup {b}) <= opblocks
  /\ cache' = [cache EXCEPT ![b] = v]
  /\ buf' = [buf EXCEPT ![p] = b]
  /\ wrote' = [wrote EXCEPT ![p] = @ \cup {b}]
  /\ panic' = (TooBig \/ outstanding < 1)
  /\ pc' = [pc EXCEPT ![p] = "log_write"]
  /\ UNCHANGED <<disk, dirty, log, tail, boot, crashes>>

\* The locked part of log_write() and the brelse() that follows it.
log_write(p) ==
  /\ Up
  /\ pc[p] = "log_write"
  /\ lh' = IF Logged(buf[p]) THEN lh ELSE Append(lh, buf[p])
  /\ dirty' = dirty \cup {buf[p]}
  /\ buf' = [buf EXCEPT ![p] = NoBlock]
  /\ pc' = [pc EXCEPT ![p] = "op"]
  /\ UNCHANGED <<disk, cache, outstanding, committing, tail, boot, wrote,
                 panic, crashes>>

\* Mutant: commit() skips a log of one block.
end_op_SkipsOne(p) ==
  /\ Up
  /\ pc[p] = "op"
  /\ outstanding' = outstanding - 1
  /\ panic' = committing
  /\ IF outstanding' = 0
     THEN /\ committing' = TRUE
          /\ pc' = [pc EXCEPT ![p] = IF Len(lh) > 1 THEN "write_log" ELSE "done"]
     ELSE /\ pc' = Awake([pc EXCEPT ![p] = "idle"])
          /\ UNCHANGED committing
  /\ wrote' = [wrote EXCEPT ![p] = {}]
  /\ UNCHANGED <<disk, cache, dirty, lh, tail, boot, buf, crashes>>

\* end_op() up to release(&log.lock): the last process out commits.
end_op(p) ==
  /\ Up
  /\ pc[p] = "op"
  /\ outstanding' = outstanding - 1
  /\ panic' = committing
  /\ IF outstanding' = 0
     THEN /\ committing' = TRUE
          /\ pc' = [pc EXCEPT ![p] = IF Len(lh) > 0 THEN "write_log" ELSE "done"]
     ELSE /\ pc' = Awake([pc EXCEPT ![p] = "idle"])
          /\ UNCHANGED committing
  /\ wrote' = [wrote EXCEPT ![p] = {}]
  /\ UNCHANGED <<disk, cache, dirty, lh, tail, boot, buf, crashes>>

\* One iteration of write_log().
write_log(p) ==
  /\ Up
  /\ pc[p] = "write_log"
  /\ tail <= Len(lh)
  /\ logd' = [logd EXCEPT ![tail] = Read(lh[tail])]
  /\ tail' = tail + 1
  /\ UNCHANGED <<home, hd, cache, dirty, log, boot, pc, buf, wrote, panic,
                 crashes>>

\* Mutant: the header is written before all of the log blocks are.
write_head_Early(p) ==
  /\ Up
  /\ pc[p] = "write_log"
  /\ tail >= Len(lh)
  /\ hd' = lh
  /\ tail' = 1
  /\ pc' = [pc EXCEPT ![p] = "install"]
  /\ UNCHANGED <<home, logd, cache, dirty, log, boot, buf, wrote, panic,
                 crashes>>

\* The write_head() of commit(): the transaction is committed.
write_head(p) ==
  /\ Up
  /\ pc[p] = "write_log"
  /\ tail > Len(lh)
  /\ hd' = lh
  /\ tail' = 1
  /\ pc' = [pc EXCEPT ![p] = "install"]
  /\ UNCHANGED <<home, logd, cache, dirty, log, boot, buf, wrote, panic,
                 crashes>>

\* One iteration of install_trans(): bwrite() clears B_DIRTY.
InstallBlock ==
  /\ tail <= Len(lh)
  /\ home' = [home EXCEPT ![lh[tail]] = logd[tail]]
  /\ cache' = [cache EXCEPT ![lh[tail]] = logd[tail]]
  /\ dirty' = dirty \ {lh[tail]}
  /\ tail' = tail + 1

install_trans(p) ==
  /\ Up
  /\ pc[p] = "install"
  /\ InstallBlock
  /\ UNCHANGED <<logd, hd, log, boot, pc, buf, wrote, panic, crashes>>

\* log.lh.n = 0 and the second write_head().
ClearLog ==
  /\ tail > Len(lh)
  /\ lh' = << >>
  /\ hd' = << >>
  /\ tail' = 1

erase_head(p) ==
  /\ Up
  /\ pc[p] = "install"
  /\ ClearLog
  /\ pc' = [pc EXCEPT ![p] = "done"]
  /\ UNCHANGED <<home, logd, cache, dirty, outstanding, committing, boot,
                 buf, wrote, panic, crashes>>

\* Mutant: no wakeup(&log) after the commit.
commit_done_NoWakeup(p) ==
  /\ Up
  /\ pc[p] = "done"
  /\ committing' = FALSE
  /\ pc' = [pc EXCEPT ![p] = "idle"]
  /\ UNCHANGED <<disk, cache, dirty, lh, outstanding, tail, boot, buf, wrote,
                 panic, crashes>>

\* The end of end_op() in the process that committed.
commit_done(p) ==
  /\ Up
  /\ pc[p] = "done"
  /\ committing' = FALSE
  /\ pc' = Awake([pc EXCEPT ![p] = "idle"])
  /\ UNCHANGED <<disk, cache, dirty, lh, outstanding, tail, boot, buf, wrote,
                 panic, crashes>>

-----------------------------------------------------------------------------
\* Power failure: the disk survives, the memory does not.
crash ==
  /\ crashes < MaxCrashes
  /\ crashes' = crashes + 1
  /\ cache' = [b \in Block |-> NoBuf]
  /\ dirty' = {}
  /\ lh' = << >>
  /\ outstanding' = 0
  /\ committing' = FALSE
  /\ tail' = 1
  /\ boot' = "read_head"
  /\ pc' = [p \in Proc |-> "idle"]
  /\ buf' = [p \in Proc |-> NoBlock]
  /\ wrote' = [p \in Proc |-> {}]
  /\ panic' = FALSE
  /\ UNCHANGED disk

\* recover_from_log(), run once by the first process (forkret, proc.c:406).
read_head ==
  /\ boot = "read_head"
  /\ lh' = hd
  /\ boot' = "install"
  /\ UNCHANGED <<disk, cache, dirty, outstanding, committing, tail, pc, buf,
                 wrote, panic, crashes>>

recover_install ==
  /\ boot = "install"
  /\ InstallBlock
  /\ UNCHANGED <<logd, hd, log, boot, pc, buf, wrote, panic, crashes>>

recover_clear ==
  /\ boot = "install"
  /\ ClearLog
  /\ boot' = "up"
  /\ UNCHANGED <<home, logd, cache, dirty, outstanding, committing, pc, buf,
                 wrote, panic, crashes>>

-----------------------------------------------------------------------------
Commit(p) == \/ write_log(p) \/ write_head(p) \/ install_trans(p)
             \/ erase_head(p) \/ commit_done(p)

Recover == read_head \/ recover_install \/ recover_clear

Next == /\ \/ \E p \in Proc : \/ Call(p) \/ begin_op_sleep(p) \/ begin_op(p)
                              \/ bread(p) \/ log_write(p) \/ end_op(p)
                              \/ Commit(p)
                              \/ \E b \in Block, v \in Val : modify(p, b, v)
           \/ bget_recycle
           \/ Recover
           \/ crash
        /\ UNCHANGED opblocks

Spec == Init /\ [][Next]_<<vars, opblocks>>

-----------------------------------------------------------------------------
\* Type invariant of the log, the disk and the cache.
TypeOK ==
  /\ home \in [Block -> Val]
  /\ logd \in [1 .. LOGSIZE -> Val]
  /\ hd \in Seq(Block)
  /\ cache \in [Block -> Val \cup {NoBuf}]
  /\ dirty \subseteq Block
  /\ lh \in Seq(Block)
  /\ outstanding \in Nat
  /\ committing \in BOOLEAN
  /\ tail \in Nat \ {0}
  /\ boot \in BootPC
  /\ pc \in [Proc -> ProcPC]
  /\ buf \in [Proc -> Block \cup {NoBlock}]
  /\ wrote \in [Proc -> SUBSET Block]
  /\ panic \in BOOLEAN
  /\ crashes \in 0 .. MaxCrashes
  /\ opblocks \in OpBlocks

\* What a home block holds once recover_from_log() has run on this disk.
Recovered(b) == IF \E i \in 1 .. Len(hd) : hd[i] = b
                THEN logd[CHOOSE i \in 1 .. Len(hd) : hd[i] = b]
                ELSE home[b]

\* log.c implements atomic group commit: the disk a reboot would recover
\* changes only in commit()'s first write_head(), in one step, to the cached
\* state, and never while a system call is between begin_op() and end_op().
Txn == INSTANCE FsTxn WITH
         stable <- [b \in Block |-> Recovered(b)],
         mem    <- [b \in Block |-> IF boot = "up" THEN Read(b) ELSE Recovered(b)],
         active <- {p \in Proc : InOp(p)}
CrashAtomic == Txn!Spec

\* When the last end_op() has returned, everything the system calls wrote is
\* on the disk: end_op() does not return before its commit() is durable.
QuiescentDurable ==
  (Up /\ outstanding = 0 /\ ~committing) =>
     \A b \in Block : Recovered(b) = Read(b)

\* The log never grows past the blocks mkfs gave it, although log_write()
\* tests lh.n before it holds log.lock (log.c:218): the block after the log
\* is the first inode block.  (With calls that write all of MAXOPBLOCKS it can:
\* two of them may pass the test for the last block.)
LogFits == opblocks < MAXOPBLOCKS => Len(lh) <= NLog - 1

\* log.lh.block[] never overflows, for the same race: the array has LOGSIZE
\* entries and log_write() stores at index lh.n once it holds log.lock.
HeaderFits == Len(lh) <= LOGSIZE

\* None of the panics of log.c is reached.
NoPanic == ~panic

\* ... and with calls that write fewer blocks than MAXOPBLOCKS none is: the
\* reservation of begin_op() covers what log_write() is going to need.
SmallCallsFit == opblocks < MAXOPBLOCKS => ~panic

\* A process put to sleep by begin_op() is woken: no wakeup(&log) is missed
\* whichever of the two reasons it slept for.
WaitersWake == \A p \in Proc : pc[p] = "sleep" ~> pc[p] # "sleep"

\* commit() always ends, or the machine crashes first.
CommitEnds == committing ~> ~committing

\* Space in the log, on the disk and in memory, whatever the calls write.
LogSpace == TypeOK /\ LogFits /\ HeaderFits /\ SmallCallsFit

\* begin_op() lets every call in, and every commit comes to its end.
LogProgress == WaitersWake /\ CommitEnds
=============================================================================
