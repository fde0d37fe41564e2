------------------------------- MODULE Bcache -------------------------------
(***************************************************************************)
(* The buffer cache (bio.c) and the disk driver below it (ide.c).          *)
(*                                                                         *)
(* A step is a critical section of bcache.lock or idelock, or the wait for *)
(* a buffer's sleep lock (the Mutex that SleepLock implements).  The       *)
(* cache's client is the file system above the log: it reads a block, may  *)
(* change it, marks it dirty for the log (log_write) or writes it now      *)
(* (bwrite), and releases it.  A kernel path that holds two buffers at     *)
(* once, such as bmap() with the indirect block and the bitmap, is two     *)
(* members of Proc.                                                        *)
(***************************************************************************)
EXTENDS Naturals, FiniteSets, Sequences, Kernel

CONSTANTS Buf,       \* bcache.buf, NBUF of them
          Block,     \* block numbers
          NoBlock,   \* a buffer that has cached nothing yet
          Val,       \* contents of a block
          Pinned     \* set of bounds: blocks the log may keep dirty (LOGSIZE)

ASSUME BcacheAssumption == /\ IsFiniteSet(Buf) /\ IsFiniteSet(Proc)
                           /\ NoBlock \notin Block /\ Nobody \notin Buf \cup Proc

VARIABLES
  mru,       \* the list bcache.head.next ..., most recently used first
  blockno, refcnt, valid, dirty, data,    \* the fields of each buffer;
                                          \* B_VALID and B_DIRTY as sets
  holder,    \* who has b->lock
  idequeue,  \* buffers waiting for the disk, the active one first
  cmd,       \* the command idestart() gave the disk
  disk,      \* the disk's blocks
  bpc, bp,   \* where each process is, and its buffer
  bpanic,
  pinned     \* which of Pinned this log keeps to, for good

bcacheVars == <<mru, blockno, refcnt, valid, dirty, data, holder, idequeue,
                cmd, disk, bpc, bp, bpanic, pinned>>

NoCmd == [write |-> FALSE, block |-> NoBlock, data |-> NoBlock]
NoBuf == Nobody

\* binit(): the list holds every buffer and none caches a block.
BcacheInit ==
  /\ mru = CHOOSE s \in [1 .. Cardinality(Buf) -> Buf] : \A b \in Buf : \E i \in DOMAIN s : s[i] = b
  /\ blockno = [b \in Buf |-> NoBlock]
  /\ refcnt = [b \in Buf |-> 0]
  /\ valid = {} /\ dirty = {}
  /\ disk \in [Block -> Val]
  /\ data = [b \in Buf |-> NoBlock]
  /\ holder = [b \in Buf |-> Nobody]
  /\ idequeue = <<>> /\ cmd = NoCmd
  /\ bpc = [p \in Proc |-> "idle"]
  /\ bp = [p \in Proc |-> NoBuf]
  /\ bpanic = "none"
  /\ pinned \in Pinned

Goes(p, from, to) == bpanic = "none" /\ bpc[p] = from /\ bpc' = [bpc EXCEPT ![p] = to]

-----------------------------------------------------------------------------
Cached(k) == {b \in Buf : blockno[b] = k}

\* A buffer bget() may take: nobody refers to it and the log does not need it.
Unused_Pinned(b) == refcnt[b] = 0                       \* mutant
Unused(b) == refcnt[b] = 0 /\ b \notin dirty

\* bget(), the block is cached: take a reference, then wait for the lock.
bget_hit(p, k) ==
  /\ Goes(p, "idle", "lock")
  /\ \E b \in Cached(k) :
       /\ refcnt' = [refcnt EXCEPT ![b] = @ + 1]
       /\ bp' = [bp EXCEPT ![p] = b]
  /\ UNCHANGED <<mru, blockno, valid, dirty, data, holder, idequeue, cmd, disk, bpanic>>

\* bget(), not cached: recycle the least recently used unused buffer.
bget_recycle(p, k) ==
  /\ Goes(p, "idle", "lock")
  /\ Cached(k) = {}
  /\ \E i \in 1..Len(mru) :
       LET b == mru[i] IN
       /\ Unused(b) /\ \A j \in i+1..Len(mru) : ~Unused(mru[j])
       /\ blockno' = [blockno EXCEPT ![b] = k]
       /\ refcnt' = [refcnt EXCEPT ![b] = 1]
       /\ valid' = valid \ {b} /\ dirty' = dirty \ {b}
       /\ bp' = [bp EXCEPT ![p] = b]
  /\ UNCHANGED <<mru, data, holder, idequeue, cmd, disk, bpanic>>

bget_panic(p, k) ==
  /\ bpanic = "none" /\ bpc[p] = "idle"
  /\ Cached(k) = {} /\ ~\E b \in Buf : Unused(b)
  /\ bpanic' = "bget: no buffers"
  /\ UNCHANGED <<mru, blockno, refcnt, valid, dirty, data, holder, idequeue,
                 cmd, disk, bpc, bp>>

bget_acquiresleep(p) ==
  /\ Goes(p, "lock", "bread")
  /\ holder[bp[p]] = Nobody /\ holder' = [holder EXCEPT ![bp[p]] = p]
  /\ UNCHANGED <<mru, blockno, refcnt, valid, dirty, data, idequeue, cmd, disk, bp, bpanic>>

-----------------------------------------------------------------------------
\* idestart(): a dirty buffer's data goes to the disk with the command.
idestart(b, dirt, dat) ==
  [write |-> b \in dirt, block |-> blockno[b], data |-> IF b \in dirt THEN dat[b] ELSE NoBlock]

\* iderw() up to its sleep(): append to idequeue, start the disk if it idles.
\* Mutant: every request is started at once.
iderw_Start(b, dirt, dat) ==
  /\ idequeue' = Append(idequeue, b)
  /\ cmd' = idestart(b, dirt, dat)
iderw(b, dirt, dat) ==
  /\ idequeue' = Append(idequeue, b)
  /\ cmd' = IF idequeue = <<>> THEN idestart(b, dirt, dat) ELSE cmd

\* bread(): the block is there, or the disk must read it.
bread_valid(p) ==
  /\ Goes(p, "bread", "use")
  /\ bp[p] \in valid
  /\ UNCHANGED <<mru, blockno, refcnt, valid, dirty, data, holder, idequeue,
                 cmd, disk, bp, bpanic>>

bread_iderw(p) ==
  /\ Goes(p, "bread", "read")
  /\ bp[p] \notin valid
  /\ iderw(bp[p], dirty, data)
  /\ UNCHANGED <<mru, blockno, refcnt, valid, dirty, data, holder, disk, bp, bpanic>>

\* The file system changes the block and hands it to the log, which pins it.
log_write(p) ==
  /\ Goes(p, "use", "done")
  /\ Cardinality(dirty \cup {bp[p]}) <= pinned
  /\ \E v \in Val : data' = [data EXCEPT ![bp[p]] = v]
  /\ dirty' = dirty \cup {bp[p]}
  /\ UNCHANGED <<mru, blockno, refcnt, valid, holder, idequeue, cmd, disk, bp, bpanic>>

\* The log copies a block into the buffer, or leaves it, and calls bwrite().
bwrite(p) ==
  /\ Goes(p, "use", "write")
  /\ \E v \in Val : data' = [data EXCEPT ![bp[p]] = v]
  /\ dirty' = dirty \cup {bp[p]}
  /\ iderw(bp[p], dirty', data')
  /\ UNCHANGED <<mru, blockno, refcnt, valid, holder, disk, bp, bpanic>>

\* iderw() is woken and finds B_VALID without B_DIRTY.
iderw_return(p) ==
  /\ \/ Goes(p, "read", "use")
     \/ Goes(p, "write", "done")
  /\ bp[p] \in valid \ dirty
  /\ UNCHANGED <<mru, blockno, refcnt, valid, dirty, data, holder, idequeue,
                 cmd, disk, bp, bpanic>>

\* The disk has finished: ideintr() takes the head of the queue and starts the
\* next request.
ideintr ==
  /\ bpanic = "none" /\ cmd # NoCmd
  /\ LET b == Head(idequeue) IN
     /\ disk' = IF cmd.write THEN [disk EXCEPT ![cmd.block] = cmd.data] ELSE disk
     /\ data' = IF b \in dirty THEN data ELSE [data EXCEPT ![b] = disk[cmd.block]]
     /\ valid' = valid \cup {b} /\ dirty' = dirty \ {b}
  /\ idequeue' = Tail(idequeue)
  /\ cmd' = IF idequeue' = <<>> THEN NoCmd
            ELSE idestart(Head(idequeue'), dirty', data')
  /\ UNCHANGED <<mru, blockno, refcnt, holder, bpc, bp, bpanic>>

-----------------------------------------------------------------------------
\* brelse() gives up the lock ...
brelse_releasesleep(p) ==
  /\ \/ Goes(p, "use", "put")
     \/ Goes(p, "done", "put")
  /\ holder' = [holder EXCEPT ![bp[p]] = Nobody]
  /\ UNCHANGED <<mru, blockno, refcnt, valid, dirty, data, idequeue, cmd, disk, bp, bpanic>>

\* ... and then its reference; an unused buffer is unlinked and moves to the front
\* of the list.
ToFront(s, i) == [j \in 1 .. Len(s) |-> IF j = 1 THEN s[i] ELSE IF j <= i THEN s[j - 1] ELSE s[j]]
brelse_put(p) ==
  /\ Goes(p, "put", "idle")
  /\ LET b == bp[p] IN
     /\ refcnt' = [refcnt EXCEPT ![b] = @ - 1]
     /\ IF refcnt[b] > 1 THEN UNCHANGED mru
        ELSE \E i \in 1 .. Len(mru) : mru[i] = b /\ mru' = ToFront(mru, i)
  /\ bp' = [bp EXCEPT ![p] = NoBuf]
  /\ UNCHANGED <<blockno, valid, dirty, data, holder, idequeue, cmd, disk, bpanic>>

BcacheStep(p) ==
  \/ \E k \in Block : bget_hit(p, k) \/ bget_recycle(p, k) \/ bget_panic(p, k)
  \/ bget_acquiresleep(p) \/ bread_valid(p) \/ bread_iderw(p)
  \/ log_write(p) \/ bwrite(p) \/ iderw_return(p)
  \/ brelse_releasesleep(p) \/ brelse_put(p)

BcacheNext == (ideintr \/ \E p \in Proc : BcacheStep(p)) /\ UNCHANGED pinned

BcacheSpec == BcacheInit /\ [][BcacheNext]_bcacheVars

-----------------------------------------------------------------------------
BcacheTypeOK ==
  /\ mru \in Seq(Buf) /\ Len(mru) = Cardinality(Buf)
  /\ \A b \in Buf : \E i \in 1 .. Len(mru) : mru[i] = b
  /\ blockno \in [Buf -> Block \cup {NoBlock}]
  /\ refcnt \in [Buf -> 0..Cardinality(Proc)]
  /\ valid \subseteq Buf /\ dirty \subseteq Buf
  /\ data \in [Buf -> Val \cup {NoBlock}] /\ disk \in [Block -> Val]
  /\ holder \in [Buf -> Proc \cup {Nobody}]
  /\ idequeue \in Seq(Buf)
  /\ bpc \in [Proc -> {"idle", "lock", "bread", "read", "use", "write", "done", "put"}]
  /\ bp \in [Proc -> Buf \cup {NoBuf}]

\* "Only one process at a time can use a buffer" and a block has one buffer:
\* two misses for the same block never leave it in two buffers, and a reference
\* keeps the buffer on its block although bget() sleeps with nothing locked.
OneBufferPerBlock ==
  /\ \A k \in Block : Cardinality(Cached(k)) <= 1
  /\ \A b \in Buf : refcnt[b] = Cardinality({p \in Proc : bp[p] = b})

\* The disk works on the head of idequeue, for the block that buffer still
\* caches, and every queued buffer belongs to a process that waits in iderw().
QueueMatchesDisk ==
  /\ (cmd = NoCmd) <=> (idequeue = <<>>)
  /\ idequeue # <<>> => cmd.block = blockno[Head(idequeue)]
  /\ \A i, j \in 1 .. Len(idequeue) : idequeue[i] = idequeue[j] => i = j
  /\ \A i \in 1 .. Len(idequeue) :
       LET b == idequeue[i] IN
       \E p \in Proc : bp[p] = b /\ holder[b] = p /\ bpc[p] \in {"read", "write"}

\* bget() gives up only when every buffer is in use by a process or kept dirty
\* for the log: no buffer is lost, and NBUF of one per process beside the log's
\* is enough.
BuffersSuffice == bpanic # "none" => \A b \in Buf : b \in dirty \/ \E p \in Proc : bp[p] = b

\* The cache and the driver implement one value per block: whatever is
\* recycled, queued or half done, a process that has the block sees the last
\* value written to it.
BlockValue == [k \in Block |->
  LET bs == {b \in Cached(k) : b \in valid} IN
  IF bs = {} THEN disk[k] ELSE data[CHOOSE b \in bs : TRUE]]
BlockUsers == [k \in Block |->
  {p \in Proc : /\ bpc[p] \in {"bread", "read", "use", "write", "done"}
                /\ blockno[bp[p]] = k}]

Store == INSTANCE BlockStore WITH val <- BlockValue, users <- BlockUsers

CacheIsCoherent == Store!Spec

\* The cache and the disk queue agree, and bget() finds its buffer.
BuffersSound == BcacheTypeOK /\ OneBufferPerBlock /\ QueueMatchesDisk /\ BuffersSuffice
=============================================================================
