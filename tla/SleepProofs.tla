---------------------------- MODULE SleepProofs -----------------------------
(***************************************************************************)
(* Three things processes sleep for.                                       *)
(* Bcache.tla, the buffer cache and the disk driver, for any number of     *)
(* buffers, blocks and processes: a block has one buffer, the disk works   *)
(* on what the queue says, and together they are one value per block.      *)
(* SleepLock.tla, for any set of processes: the sleep lock is a mutex and  *)
(* loses no wakeup.                                                        *)
(* Pipe.tla, for any number of processes, any size of the ring and any     *)
(* range of the counters that the size divides: no wakeup is lost except   *)
(* the one pipe.c:86 forgets, and the ring is a bounded first-in first-out *)
(* queue.                                                                  *)
(***************************************************************************)
EXTENDS Bcache, SleepLock, Pipe, FiniteSetTheorems, TLAPS

\* A process that has returned from acquiresleep(&b->lock) and not yet called
\* releasesleep().
HasLock == {"bread", "read", "use", "write", "done"}

\* A process has a buffer, one that caches a block, from bget() to the end of
\* brelse(); it holds the buffer's lock for the time in between.
Owns ==
  /\ \A p \in Proc : IF bpc[p] = "idle" THEN bp[p] = NoBuf
                     ELSE bp[p] \in Buf /\ blockno[bp[p]] \in Block
  /\ \A p \in Proc : bpc[p] \in HasLock => holder[bp[p]] = p
  /\ \A b \in Buf : holder[b] # Nobody => bp[holder[b]] = b /\ bpc[holder[b]] \in HasLock

\* No two buffers cache the same block.
OneBuffer == \A a, b \in Buf : a # b /\ blockno[a] \in Block => blockno[a] # blockno[b]

\* refcnt is the number of processes with a pointer to the buffer.
Users(b) == {p \in Proc : bp[p] = b}
Referred == \A b \in Buf : refcnt[b] = Cardinality(Users(b))

\* A buffer with B_DIRTY has B_VALID; one that a process may use has it too.
\* While a process waits in iderw() the flags say whether the disk is done.
OnQueue == {idequeue[i] : i \in 1 .. Len(idequeue)}
Flags ==
  /\ dirty \subseteq valid
  /\ \A b \in valid : blockno[b] \in Block /\ data[b] \in Val
  /\ \A p \in Proc :
       /\ bpc[p] \in {"use", "write", "done"} => bp[p] \in valid
       /\ bpc[p] = "read" => (bp[p] \in OnQueue <=> bp[p] \notin valid)
       /\ bpc[p] = "write" => (bp[p] \in OnQueue <=> bp[p] \in dirty)

\* A queued buffer belongs to a process that waits for it, and is queued once.
Queued ==
  /\ idequeue \in Seq(Buf)
  /\ \A i, j \in 1 .. Len(idequeue) : idequeue[i] = idequeue[j] => i = j
  /\ \A b \in OnQueue : holder[b] # Nobody /\ bpc[holder[b]] \in {"read", "write"}

\* The disk has the command that idestart() made from the head of the queue;
\* nobody has touched that buffer since.
Started == cmd = IF idequeue = << >> THEN NoCmd ELSE idestart(Head(idequeue), dirty, data)

\* A clean buffer has what the disk has.
Clean == \A b \in valid \ dirty : data[b] = disk[blockno[b]]

\* What the driver relies on.
Driver == Flags /\ Queued /\ Started /\ Clean

\* Every buffer is in the list, once.
Listed == /\ mru \in Seq(Buf) /\ Len(mru) = Cardinality(Buf)
          /\ \A b \in Buf : \E i \in 1 .. Len(mru) : mru[i] = b

\* The types of the fields.
Fields ==
  /\ blockno \in [Buf -> Block \cup {NoBlock}] /\ refcnt \in [Buf -> Nat]
  /\ valid \subseteq Buf /\ dirty \subseteq Buf
  /\ data \in [Buf -> Val \cup {NoBlock}] /\ disk \in [Block -> Val]
  /\ holder \in [Buf -> Proc \cup {Nobody}]
  /\ bpc \in [Proc -> {"idle", "lock", "bread", "read", "use", "write", "done", "put"}]
  /\ bp \in [Proc -> Buf \cup {NoBuf}]

\* The inductive invariant.
BcacheInv == /\ Fields /\ Listed /\ Owns /\ OneBuffer /\ Referred /\ Driver
             /\ BuffersSuffice

-----------------------------------------------------------------------------
\* refcnt is 0 exactly when nobody has a pointer to the buffer.
LEMMA NotReferred ==
  ASSUME Referred, NEW b \in Buf
  PROVE  /\ refcnt[b] = 0 <=> \A q \in Proc : bp[q] # b
         /\ refcnt[b] \in Nat
<1> DEFINE S == Users(b)
<1>1. IsFiniteSet(S)
  BY Zenon, FS_Subset, BcacheAssumption DEF Users
<1>2. Cardinality(S) \in Nat /\ (Cardinality(S) = 0 <=> S = {})
  BY Zenon, <1>1, FS_CardinalityType, FS_EmptySet
<1>3. S = {} <=> \A q \in Proc : bp[q] # b
  BY Zenon DEF Users
<1> QED BY Zenon, <1>2, <1>3 DEF Referred

\* What bget() does when it recycles: the buffer is in the list, clean, and
\* nobody has a pointer to it (bio.c:81-88).
LEMMA Recycles ==
  ASSUME Fields, Listed, Referred, NEW p \in Proc, NEW k \in Block, bget_recycle(p, k)
  PROVE  \E b \in Buf :
           /\ b \notin dirty /\ \A q \in Proc : bp[q] # b
           /\ \A a \in Buf : blockno[a] # k
           /\ blockno' = [blockno EXCEPT ![b] = k] /\ refcnt' = [refcnt EXCEPT ![b] = 1]
           /\ valid' = valid \ {b} /\ dirty' = dirty \ {b} /\ bp' = [bp EXCEPT ![p] = b]
           /\ bpc[p] = "idle" /\ bpc' = [bpc EXCEPT ![p] = "lock"]
           /\ UNCHANGED <<mru, data, holder, idequeue, cmd, disk, bpanic>>
<1>1. PICK i \in 1 .. Len(mru) :
        /\ Unused(mru[i]) /\ blockno' = [blockno EXCEPT ![mru[i]] = k]
        /\ refcnt' = [refcnt EXCEPT ![mru[i]] = 1]
        /\ valid' = valid \ {mru[i]} /\ dirty' = dirty \ {mru[i]}
        /\ bp' = [bp EXCEPT ![p] = mru[i]]
  BY Zenon DEF bget_recycle
<1>2. mru[i] \in Buf
  BY DEF Listed
<1>3. mru[i] \notin dirty /\ \A q \in Proc : bp[q] # mru[i]
  BY Zenon, <1>1, <1>2, NotReferred DEF Unused
<1>4. \A a \in Buf : blockno[a] # k
  BY Zenon DEF bget_recycle, Cached
<1>5. /\ bpc[p] = "idle" /\ bpc' = [bpc EXCEPT ![p] = "lock"]
      /\ UNCHANGED <<mru, data, holder, idequeue, cmd, disk, bpanic>>
  BY Zenon DEF bget_recycle, Goes
<1> QED BY Zenon, <1>1, <1>2, <1>3, <1>4, <1>5

\* The disk has a command only when a buffer is queued, and it is the one made
\* from the head of the queue (ide.c:111-115).
LEMMA DiskBusy ==
  ASSUME Fields, Owns, Queued, Started, cmd # NoCmd
  PROVE  /\ idequeue # << >> /\ Len(idequeue) \in Nat \ {0}
         /\ Head(idequeue) = idequeue[1] /\ idequeue[1] \in Buf
         /\ blockno[idequeue[1]] \in Block
         /\ holder[idequeue[1]] # Nobody /\ bpc[holder[idequeue[1]]] \in {"read", "write"}
         /\ cmd = idestart(idequeue[1], dirty, data)
<1>1. /\ idequeue # << >> /\ Len(idequeue) \in Nat \ {0}
      /\ Head(idequeue) = idequeue[1] /\ idequeue[1] \in Buf
      /\ cmd = idestart(idequeue[1], dirty, data)
  BY DEF Queued, Started
<1>2. idequeue[1] \in OnQueue
  BY <1>1 DEF OnQueue
<1>3. holder[idequeue[1]] # Nobody /\ bpc[holder[idequeue[1]]] \in {"read", "write"}
  BY Zenon, <1>1, <1>2 DEF Queued
<1>4. blockno[idequeue[1]] \in Block
  BY <1>1, <1>3 DEF Fields, Owns
<1> QED BY Zenon, <1>1, <1>3, <1>4

\* A step keeps the types.
LEMMA NextFields == Fields /\ Listed /\ Owns /\ Referred /\ Driver /\ [BcacheNext]_bcacheVars
                      => Fields'
<1> SUFFICES ASSUME Fields, Listed, Owns, Referred, Driver,
                    [BcacheNext]_bcacheVars
             PROVE  Fields'
  BY Zenon
<1> USE BcacheAssumption DEF Fields, Owns, NoBuf, Driver
<1>0. CASE UNCHANGED bcacheVars
  BY Zenon, <1>0 DEF bcacheVars
<1>1. ASSUME NEW p \in Proc, NEW k \in Block, bget_hit(p, k) PROVE Fields'
  BY <1>1 DEF bget_hit, Goes, Cached
<1>2. ASSUME NEW p \in Proc, NEW k \in Block, bget_recycle(p, k) PROVE Fields'
  <2>1. PICK b \in Buf :
          /\ \A q \in Proc : bp[q] # b
          /\ blockno' = [blockno EXCEPT ![b] = k] /\ refcnt' = [refcnt EXCEPT ![b] = 1]
          /\ valid' = valid \ {b} /\ dirty' = dirty \ {b} /\ bp' = [bp EXCEPT ![p] = b]
          /\ bpc' = [bpc EXCEPT ![p] = "lock"]
          /\ UNCHANGED <<data, holder, disk>>
    BY <1>2, Recycles
  <2> QED BY Zenon, <2>1
<1>3. ASSUME NEW p \in Proc, NEW k \in Block, bget_panic(p, k) PROVE Fields'
  BY Zenon, <1>3 DEF bget_panic, Unused, Cached
<1>4. ASSUME NEW p \in Proc, bget_acquiresleep(p) PROVE Fields'
  BY Zenon, <1>4 DEF bget_acquiresleep, Goes
<1>5. ASSUME NEW p \in Proc, bread_valid(p) PROVE Fields'
  BY Zenon, <1>5 DEF bread_valid, Goes
<1>6. ASSUME NEW p \in Proc, bread_iderw(p) PROVE Fields'
  BY Zenon, <1>6 DEF bread_iderw, Goes, iderw, idestart
<1>7. ASSUME NEW p \in Proc, log_write(p) PROVE Fields'
  BY <1>7 DEF log_write, Goes
<1>8. ASSUME NEW p \in Proc, bwrite(p) PROVE Fields'
  BY <1>8 DEF bwrite, Goes, iderw, idestart
<1>9. ASSUME NEW p \in Proc, iderw_return(p) PROVE Fields'
  BY <1>9 DEF iderw_return, Goes
<1>10. ASSUME ideintr PROVE Fields'
  <2> DEFINE b == idequeue[1]
  <2>1. Head(idequeue) = b /\ b \in Buf /\ cmd = idestart(b, dirty, data)
    BY Zenon, <1>10, DiskBusy DEF ideintr
  <2>2. blockno[b] \in Block
    BY Zenon, <1>10, DiskBusy DEF ideintr
  <2>3. cmd.block = blockno[b] /\ (cmd.write <=> b \in dirty)
    BY Zenon, <2>1 DEF idestart
  <2>4. cmd.write => cmd.data \in Val
    BY Zenon, <2>1, <2>3 DEF idestart, Flags
  <2> HIDE DEF b
  <2> QED BY ZenonT(30), <1>10, <2>1, <2>2, <2>3, <2>4 DEF ideintr
<1>11. ASSUME NEW p \in Proc, brelse_releasesleep(p) PROVE Fields'
  BY <1>11 DEF brelse_releasesleep, Goes
<1>12. ASSUME NEW p \in Proc, brelse_put(p) PROVE Fields'
  <2>1. bp[p] \in Buf
    BY Zenon, <1>12 DEF brelse_put, Goes
  <2>2. refcnt[bp[p]] - 1 \in Nat
    BY <2>1, NotReferred
  <2> QED BY Zenon, <1>12, <2>1, <2>2 DEF brelse_put, Goes
<1> QED
  BY <1>0, <1>1, <1>2, <1>3, <1>4, <1>5, <1>6, <1>7, <1>8, <1>9, <1>10, <1>11, <1>12, Zenon
  DEF BcacheNext, BcacheStep

\* A step keeps locks and buffers together: bget() may recycle a buffer only when
\* nobody refers to it.
LEMMA NextOwns == Fields /\ Listed /\ Referred /\ Queued /\ Owns /\ [BcacheNext]_bcacheVars => Owns'
<1> SUFFICES ASSUME Fields /\ Listed /\ Referred /\ Queued /\ Owns, [BcacheNext]_bcacheVars PROVE Owns'
  BY Zenon
<1> USE BcacheAssumption DEF Fields, Owns, NoBuf, HasLock
<1>0. CASE UNCHANGED bcacheVars
  BY Zenon, <1>0 DEF bcacheVars
<1>1. ASSUME NEW p \in Proc, NEW k \in Block, bget_hit(p, k) PROVE Owns'
  BY <1>1 DEF bget_hit, Goes, Cached
<1>2. ASSUME NEW p \in Proc, NEW k \in Block, bget_recycle(p, k) PROVE Owns'
  <2>1. PICK b \in Buf :
          /\ \A q \in Proc : bp[q] # b
          /\ blockno' = [blockno EXCEPT ![b] = k] /\ refcnt' = [refcnt EXCEPT ![b] = 1]
          /\ valid' = valid \ {b} /\ dirty' = dirty \ {b} /\ bp' = [bp EXCEPT ![p] = b]
          /\ bpc' = [bpc EXCEPT ![p] = "lock"]
          /\ UNCHANGED <<data, holder, disk>>
    BY <1>2, Recycles
  <2>2. \A q \in Proc : q # p => bp'[q] = bp[q] /\ bpc'[q] = bpc[q]
    BY <2>1
  <2>3. bp'[p] = b /\ bpc'[p] = "lock" /\ blockno'[b] = k
    BY <2>1
  <2>4. \A a \in Buf : a # b => blockno'[a] = blockno[a]
    BY <2>1
  <2>5. \A q \in Proc : bp[q] # b /\ (bpc[q] # "idle" => bp[q] \in Buf)
    BY Zenon, <2>1
  <2>6. \A a \in Buf : holder[a] # p
    BY <1>2 DEF bget_recycle, Goes
  <2> QED BY <2>1, <2>2, <2>3, <2>4, <2>5, <2>6
<1>3. ASSUME NEW p \in Proc, NEW k \in Block, bget_panic(p, k) PROVE Owns'
  BY Zenon, <1>3 DEF bget_panic, Unused, Cached
<1>4. ASSUME NEW p \in Proc, bget_acquiresleep(p) PROVE Owns'
  BY <1>4 DEF bget_acquiresleep, Goes
<1>5. ASSUME NEW p \in Proc, bread_valid(p) PROVE Owns'
  BY <1>5 DEF bread_valid, Goes
<1>6. ASSUME NEW p \in Proc, bread_iderw(p) PROVE Owns'
  BY <1>6 DEF bread_iderw, Goes, iderw, idestart
<1>7. ASSUME NEW p \in Proc, log_write(p) PROVE Owns'
  BY <1>7 DEF log_write, Goes
<1>8. ASSUME NEW p \in Proc, bwrite(p) PROVE Owns'
  BY <1>8 DEF bwrite, Goes, iderw, idestart
<1>9. ASSUME NEW p \in Proc, iderw_return(p) PROVE Owns'
  BY <1>9 DEF iderw_return, Goes
<1>10. ASSUME ideintr PROVE Owns'
  BY Zenon, <1>10 DEF ideintr, idestart
<1>11. ASSUME NEW p \in Proc, brelse_releasesleep(p) PROVE Owns'
  BY <1>11 DEF brelse_releasesleep, Goes
<1>12. ASSUME NEW p \in Proc, brelse_put(p) PROVE Owns'
  BY <1>12 DEF brelse_put, Goes
<1> QED
  BY <1>0, <1>1, <1>2, <1>3, <1>4, <1>5, <1>6, <1>7, <1>8, <1>9, <1>10, <1>11, <1>12, Zenon
  DEF BcacheNext, BcacheStep

\* A step keeps one buffer per block: the search and the recycling are one
\* critical section.
LEMMA NextOneBuffer ==
  Fields /\ Listed /\ Referred /\ OneBuffer /\ [BcacheNext]_bcacheVars => OneBuffer'
<1> SUFFICES ASSUME Fields, Listed, Referred, OneBuffer, [BcacheNext]_bcacheVars
             PROVE  OneBuffer'
  BY Zenon
<1>1. ASSUME NEW p \in Proc, NEW k \in Block, bget_recycle(p, k) PROVE OneBuffer'
  <2>1. PICK b \in Buf : /\ \A a \in Buf : blockno[a] # k
                         /\ blockno' = [blockno EXCEPT ![b] = k]
    BY <1>1, Recycles
  <2> QED BY Zenon, <2>1 DEF OneBuffer, Fields
<1>2. CASE UNCHANGED blockno
  BY Zenon, <1>2 DEF OneBuffer
<1> QED
  BY <1>1, <1>2, Zenon DEF BcacheNext, BcacheStep, bcacheVars, bget_hit, bget_panic,
     bget_acquiresleep, bread_valid, bread_iderw, log_write, bwrite, iderw_return, ideintr,
     brelse_releasesleep, brelse_put

\* brelse() unlinks a buffer and links it in at the front: the list keeps all
\* its buffers (bio.c:132-137).
LEMMA StaysListed ==
  ASSUME Listed, NEW i \in 1 .. Len(mru), mru' = ToFront(mru, i)
  PROVE  Listed'
<1> DEFINE n == Len(mru)
<1>1. mru \in Seq(Buf) /\ n \in Nat /\ n = Cardinality(Buf)
  BY DEF Listed
<1>2. \A j \in 1 .. n : (IF j = 1 THEN mru[i] ELSE IF j <= i THEN mru[j - 1] ELSE mru[j]) \in Buf
  BY <1>1
<1>3. mru' \in Seq(Buf) /\ Len(mru') = n
  BY <1>1, <1>2 DEF ToFront
<1>4. \A j \in 1 .. n : mru'[j] = IF j = 1 THEN mru[i] ELSE IF j <= i THEN mru[j - 1] ELSE mru[j]
  BY Zenon DEF ToFront
<1>5. ASSUME NEW b \in Buf PROVE \E j \in 1 .. n : mru'[j] = b
  <2>1. PICK k \in 1 .. n : mru[k] = b
    BY Zenon DEF Listed
  <2>2. CASE k = i
    BY <1>1, <1>4, <2>1, <2>2
  <2>3. CASE k < i
    <3>1. k + 1 \in 1 .. n /\ k + 1 # 1 /\ k + 1 <= i /\ k + 1 - 1 = k
      BY <1>1, <2>3
    <3> QED BY <1>4, <2>1, <3>1
  <2>4. CASE k > i
    BY <1>1, <1>4, <2>1, <2>4
  <2> QED BY <1>1, <2>2, <2>3, <2>4
<1> QED BY Zenon, <1>1, <1>3, <1>5 DEF Listed

\* A step keeps every buffer in the list.
LEMMA NextListed == Listed /\ [BcacheNext]_bcacheVars => Listed'
<1> SUFFICES ASSUME Listed, [BcacheNext]_bcacheVars PROVE Listed'
  BY Zenon
<1>1. CASE UNCHANGED mru
  BY Zenon, <1>1 DEF Listed
<1>2. ASSUME NEW p \in Proc, brelse_put(p) PROVE Listed'
  BY Zenon, <1>1, <1>2, StaysListed DEF brelse_put
<1> QED
  BY <1>1, <1>2, Zenon DEF BcacheNext, BcacheStep, bcacheVars, bget_hit, bget_recycle, bget_panic,
     bget_acquiresleep, bread_valid, bread_iderw, log_write, bwrite, iderw_return, ideintr,
     brelse_releasesleep

\* bget() adds a pointer to a buffer and brelse() takes one away, and with it
\* the reference.
LEMMA Pointer ==
  ASSUME NEW p \in Proc, NEW b \in Buf
  PROVE  /\ p \notin Users(b) => Cardinality(Users(b) \cup {p}) = Cardinality(Users(b)) + 1
         /\ p \in Users(b) => Cardinality(Users(b) \ {p}) = Cardinality(Users(b)) - 1
<1>1. IsFiniteSet(Users(b))
  BY Zenon, FS_Subset, BcacheAssumption DEF Users
<1> QED BY Zenon, <1>1, FS_AddElement, FS_RemoveElement

\* A step keeps refcnt the number of pointers.
LEMMA NextReferred ==
  Fields /\ Listed /\ Owns /\ Referred /\ [BcacheNext]_bcacheVars => Referred'
<1> SUFFICES ASSUME Fields, Listed, Owns, Referred, [BcacheNext]_bcacheVars PROVE Referred'
  BY Zenon
<1> USE BcacheAssumption DEF Fields, Referred
<1>1. ASSUME NEW p \in Proc, NEW k \in Block, bget_hit(p, k) PROVE Referred'
  <2>1. PICK b \in Buf : /\ refcnt' = [refcnt EXCEPT ![b] = @ + 1]
                         /\ bp' = [bp EXCEPT ![p] = b]
    BY Zenon, <1>1 DEF bget_hit, Goes, Cached
  <2>2. bp[p] \notin Buf
    BY <1>1 DEF bget_hit, Goes, Owns, NoBuf
  <2>3. \A a \in Buf : /\ p \notin Users(a)
                       /\ Users(a)' = IF a = b THEN Users(a) \cup {p} ELSE Users(a)
    BY <2>1, <2>2 DEF Users
  <2> SUFFICES ASSUME NEW a \in Buf PROVE refcnt'[a] = Cardinality(Users(a)')
    BY Zenon
  <2>4. CASE a = b
    <3>1. Cardinality(Users(b) \cup {p}) = Cardinality(Users(b)) + 1
      BY Zenon, <2>3, Pointer
    <3>2. refcnt'[b] = refcnt[b] + 1 /\ refcnt[b] = Cardinality(Users(b))
      BY Zenon, <2>1
    <3> QED BY Zenon, <2>3, <2>4, <3>1, <3>2
  <2>5. CASE a # b
    BY Zenon, <2>1, <2>3, <2>5
  <2> QED BY Zenon, <2>4, <2>5
<1>2. ASSUME NEW p \in Proc, NEW k \in Block, bget_recycle(p, k) PROVE Referred'
  <2>1. PICK b \in Buf : /\ \A q \in Proc : bp[q] # b
                         /\ refcnt' = [refcnt EXCEPT ![b] = 1]
                         /\ bp' = [bp EXCEPT ![p] = b]
    BY <1>2, Recycles
  <2>2. bp[p] \notin Buf
    BY <1>2 DEF bget_recycle, Goes, Owns, NoBuf
  <2>3. \A a \in Buf : /\ p \notin Users(a)
                       /\ Users(a)' = IF a = b THEN Users(a) \cup {p} ELSE Users(a)
    BY <2>1, <2>2 DEF Users
  <2>4. refcnt[b] = 0
    BY Zenon, <2>1, NotReferred
  <2> SUFFICES ASSUME NEW a \in Buf PROVE refcnt'[a] = Cardinality(Users(a)')
    BY Zenon
  <2>5. CASE a = b
    <3>1. Cardinality(Users(a) \cup {p}) = Cardinality(Users(a)) + 1
      BY Zenon, <2>3, Pointer
    <3>2. Cardinality(Users(a)) = 0 /\ refcnt'[a] = 1
      BY Zenon, <2>1, <2>4, <2>5
    <3>3. Users(a)' = Users(a) \cup {p}
      BY Zenon, <2>3, <2>5
    <3>4. Cardinality(Users(a) \cup {p}) = 1
      BY <3>1, <3>2
    <3> QED BY <3>2, <3>3, <3>4, Zenon
  <2>6. CASE a # b
    BY Zenon, <2>1, <2>3, <2>4, <2>6
  <2> QED BY Zenon, <2>5, <2>6
<1>3. ASSUME NEW p \in Proc, brelse_put(p) PROVE Referred'
  <2>1. PICK b \in Buf : /\ bp[p] = b /\ refcnt' = [refcnt EXCEPT ![b] = @ - 1]
                         /\ bp' = [bp EXCEPT ![p] = NoBuf]
    BY Zenon, <1>3 DEF brelse_put, Goes, Owns
  <2>2. \A a \in Buf : /\ p \in Users(a) <=> a = b
                       /\ Users(a)' = IF a = b THEN Users(a) \ {p} ELSE Users(a)
    BY <2>1 DEF NoBuf, Users
  <2> SUFFICES ASSUME NEW a \in Buf PROVE refcnt'[a] = Cardinality(Users(a)')
    BY Zenon
  <2>3. CASE a = b
    <3>1. Cardinality(Users(a) \ {p}) = Cardinality(Users(a)) - 1
      BY Zenon, <2>2, <2>3, Pointer
    <3> QED BY Zenon, <2>1, <2>2, <2>3, <3>1
  <2>4. CASE a # b
    BY Zenon, <2>1, <2>2, <2>4
  <2> QED BY Zenon, <2>3, <2>4
<1>4. CASE UNCHANGED <<bp, refcnt>>
  BY <1>4 DEF Users
<1> QED
  BY <1>1, <1>2, <1>3, <1>4, Zenon DEF BcacheNext, BcacheStep, bcacheVars, bget_panic,
     bget_acquiresleep, bread_valid, bread_iderw, log_write, bwrite, iderw_return, ideintr,
     brelse_releasesleep

\* A step keeps what bget() has found when it panics: nothing runs after that.
LEMMA NextSuffice ==
  Fields /\ Referred /\ BuffersSuffice /\ [BcacheNext]_bcacheVars => BuffersSuffice'
<1> SUFFICES ASSUME Fields, Referred, BuffersSuffice, [BcacheNext]_bcacheVars
             PROVE  BuffersSuffice'
  BY Zenon
<1>1. ASSUME NEW p \in Proc, NEW k \in Block, bget_panic(p, k) PROVE BuffersSuffice'
  BY Zenon, <1>1, NotReferred DEF bget_panic, Unused, BuffersSuffice
<1>2. CASE bpanic' = "none"
  BY Zenon, <1>2 DEF BuffersSuffice
<1>3. CASE UNCHANGED bcacheVars
  BY Zenon, <1>3 DEF BuffersSuffice, bcacheVars
<1> QED
  BY <1>1, <1>2, <1>3, Zenon DEF BcacheNext, BcacheStep, Goes, bget_hit, bget_recycle,
     bget_acquiresleep, bread_valid, bread_iderw, log_write, bwrite, iderw_return, ideintr,
     brelse_releasesleep, brelse_put

-----------------------------------------------------------------------------
\* A process that holds a buffer's lock and does not wait in iderw() has a
\* buffer that is not queued, and nor is a buffer nobody has.
LEMMA NotQueued ==
  ASSUME Fields, Owns, Queued
  PROVE  /\ OnQueue \subseteq Buf
         /\ \A p \in Proc : bpc[p] \in {"bread", "use", "done"} => bp[p] \notin OnQueue
         /\ \A b \in Buf : (\A q \in Proc : bp[q] # b) => b \notin OnQueue
<1>1. OnQueue \subseteq Buf
  BY DEF Queued, OnQueue
<1>2. ASSUME NEW p \in Proc, bpc[p] \in {"bread", "use", "done"} PROVE bp[p] \notin OnQueue
  BY Zenon, <1>2 DEF Fields, Owns, Queued, HasLock
<1>3. ASSUME NEW b \in Buf, \A q \in Proc : bp[q] # b PROVE b \notin OnQueue
  BY <1>3 DEF Fields, Owns, Queued, HasLock
<1> QED BY Zenon, <1>1, <1>2, <1>3

\* iderw() appends to idequeue (ide.c:154-156).
LEMMA Enqueue ==
  ASSUME Queued, NEW b \in Buf, b \notin OnQueue, idequeue' = Append(idequeue, b)
  PROVE  /\ idequeue' \in Seq(Buf) /\ idequeue' # << >>
         /\ OnQueue' = OnQueue \cup {b}
         /\ \A i, j \in 1 .. Len(idequeue') : idequeue'[i] = idequeue'[j] => i = j
         /\ Head(idequeue') = IF idequeue = << >> THEN b ELSE Head(idequeue)
<1> DEFINE n == Len(idequeue)
<1>1. idequeue \in Seq(Buf) /\ n \in Nat
  BY DEF Queued
<1>2. /\ idequeue' \in Seq(Buf) /\ Len(idequeue') = n + 1 /\ idequeue'[n + 1] = b
      /\ \A i \in 1 .. n : idequeue'[i] = idequeue[i]
  BY <1>1
<1>3. idequeue' # << >> /\ Head(idequeue') = IF idequeue = << >> THEN b ELSE Head(idequeue)
  BY <1>1
<1>4. \A i \in 1 .. n : idequeue[i] # b
  BY Zenon DEF OnQueue
<1> HIDE DEF n
<1>5. \A i, j \in 1 .. n : idequeue[i] = idequeue[j] => i = j
  BY Zenon DEF Queued, n
<1>6. ASSUME NEW i \in 1 .. n + 1, NEW j \in 1 .. n + 1, idequeue'[i] = idequeue'[j]
      PROVE  i = j
  <2>1. \A m \in 1 .. n + 1 : m \in 1 .. n \/ m = n + 1
    BY <1>1 DEF n
  <2> QED BY ZenonT(30), <1>2, <1>4, <1>5, <1>6, <2>1
<1>7. OnQueue' = OnQueue \cup {b}
  <2>1. \A m \in 1 .. n + 1 : m \in 1 .. n \/ m = n + 1
    BY <1>1 DEF n
  <2>2. \A m \in 1 .. n : m \in 1 .. n + 1
    BY <1>1 DEF n
  <2>3. n + 1 \in 1 .. n + 1
    BY <1>1 DEF n
  <2>4. OnQueue = {idequeue[i] : i \in 1 .. n} /\ OnQueue' = {idequeue'[i] : i \in 1 .. n + 1}
    BY Zenon, <1>2 DEF OnQueue, n
  <2> QED BY ZenonT(30), <1>2, <2>1, <2>2, <2>3, <2>4
<1> QED BY Zenon, <1>2, <1>3, <1>6, <1>7

\* ideintr() takes the head off idequeue (ide.c:115).
LEMMA Dequeue ==
  ASSUME Queued, idequeue # << >>, idequeue' = Tail(idequeue)
  PROVE  /\ idequeue' \in Seq(Buf)
         /\ OnQueue' = OnQueue \ {idequeue[1]}
         /\ \A i, j \in 1 .. Len(idequeue') : idequeue'[i] = idequeue'[j] => i = j
         /\ idequeue' # << >> => Head(idequeue') \in OnQueue'
<1> DEFINE n == Len(idequeue)
<1>1. idequeue \in Seq(Buf) /\ n \in Nat \ {0}
  BY DEF Queued
<1>2. /\ idequeue' \in Seq(Buf) /\ Len(idequeue') = n - 1
      /\ \A i \in 1 .. n - 1 : idequeue'[i] = idequeue[i + 1]
  BY <1>1
<1>3. idequeue' # << >> => 1 \in 1 .. n - 1 /\ Head(idequeue') = idequeue'[1]
  BY <1>1, <1>2
<1>4. \A i, j \in 1 .. n : idequeue[i] = idequeue[j] => i = j
  BY Zenon DEF Queued
<1>5. OnQueue = {idequeue[i] : i \in 1 .. n} /\ OnQueue' = {idequeue'[i] : i \in 1 .. n - 1}
  BY Zenon, <1>2 DEF OnQueue
<1> HIDE DEF n
<1>6. \A i \in 1 .. n - 1 : i + 1 \in 1 .. n /\ i + 1 # 1
  BY <1>1
<1>7. \A i \in 1 .. n : i = 1 \/ (i - 1 \in 1 .. n - 1 /\ (i - 1) + 1 = i)
  BY <1>1
<1>8. 1 \in 1 .. n
  BY <1>1
<1>9. ASSUME NEW i \in 1 .. n - 1, NEW j \in 1 .. n - 1, idequeue'[i] = idequeue'[j]
      PROVE  i = j
  <2>1. i + 1 = j + 1
    BY ZenonT(30), <1>2, <1>4, <1>6, <1>9
  <2> QED BY <2>1, <1>1
<1>10. OnQueue' = OnQueue \ {idequeue[1]}
  <2>1. \A i \in 1 .. n - 1 : idequeue'[i] \in OnQueue \ {idequeue[1]}
    BY ZenonT(30), <1>2, <1>4, <1>5, <1>6, <1>8
  <2>2. \A i \in 1 .. n : idequeue[i] # idequeue[1] => idequeue[i] \in OnQueue'
    <3> SUFFICES ASSUME NEW i \in 1 .. n, idequeue[i] # idequeue[1]
                 PROVE  idequeue[i] \in OnQueue'
      BY Zenon
    <3>1. i - 1 \in 1 .. n - 1 /\ (i - 1) + 1 = i
      BY Zenon, <1>7
    <3>2. idequeue'[i - 1] = idequeue[i]
      BY Zenon, <1>2, <3>1
    <3> QED BY Zenon, <1>5, <3>1, <3>2
  <2> QED BY ZenonT(30), <1>5, <2>1, <2>2
<1> QED BY Zenon, <1>2, <1>3, <1>5, <1>9, <1>10

\* The disk's command stays right in a step that leaves the queue alone and
\* changes no queued buffer.
LEMMA StillStarted ==
  ASSUME Queued, Started, UNCHANGED <<idequeue, cmd>>,
         \A a \in OnQueue : /\ blockno'[a] = blockno[a] /\ data'[a] = data[a]
                            /\ a \in dirty' <=> a \in dirty
  PROVE  OnQueue' = OnQueue /\ Started'
<1>1. OnQueue' = OnQueue
  BY Zenon DEF OnQueue
<1>2. idequeue # << >> => Head(idequeue) \in OnQueue
  BY DEF Queued, OnQueue
<1>3. Started'
  BY <1>2 DEF Started, idestart
<1> QED BY Zenon, <1>1, <1>3

\* iderw() queues a buffer that its caller has locked, and starts the disk when
\* it idles (ide.c:154-160).
LEMMA Iderw ==
  ASSUME Fields, Queued, Started, NEW p \in Proc, NEW b \in Buf, holder[b] = p, b \notin OnQueue,
         NEW to \in {"read", "write"}, bpc' = [bpc EXCEPT ![p] = to],
         UNCHANGED <<blockno, holder>>, iderw(b, dirty', data'),
         \A a \in OnQueue : data'[a] = data[a] /\ (a \in dirty' <=> a \in dirty)
  PROVE  OnQueue' = OnQueue \cup {b} /\ Queued' /\ Started'
<1>1. idequeue' = Append(idequeue, b)
  BY Zenon DEF iderw
<1>2. /\ idequeue' \in Seq(Buf) /\ idequeue' # << >> /\ OnQueue' = OnQueue \cup {b}
      /\ \A m, j \in 1 .. Len(idequeue') : idequeue'[m] = idequeue'[j] => m = j
      /\ Head(idequeue') = IF idequeue = << >> THEN b ELSE Head(idequeue)
  BY Zenon, <1>1, Enqueue
<1>3. Queued'
  <2>1. \A a \in OnQueue' : holder'[a] # Nobody /\ bpc'[holder'[a]] \in {"read", "write"}
    BY <1>2, BcacheAssumption DEF Queued, Fields
  <2> QED BY Zenon, <1>2, <2>1 DEF Queued
<1>4. Started'
  <2>1. CASE idequeue = << >>
    BY ZenonT(30), <1>2, <2>1 DEF iderw, Started, idestart
  <2>2. CASE idequeue # << >>
    <3>1. Head(idequeue) \in OnQueue
      BY <2>2 DEF Queued, OnQueue
    <3>2. cmd' = idestart(Head(idequeue), dirty, data)
      BY Zenon, <2>2 DEF iderw, Started
    <3> QED BY <1>2, <2>2, <3>1, <3>2 DEF Started, idestart
  <2> QED BY Zenon, <2>1, <2>2
<1> QED BY Zenon, <1>2, <1>3, <1>4

\* A process goes on without the disk: it finds its buffer, gets the lock,
\* returns from iderw() or releases the buffer.
LEMMA GoesOn ==
  ASSUME Fields, Driver, NEW p \in Proc,
         UNCHANGED <<blockno, valid, dirty, data, disk, idequeue, cmd>>,
         \A q \in Proc : q # p => bpc'[q] = bpc[q] /\ bp'[q] = bp[q],
         bpc'[p] \notin {"read", "write"}, bpc'[p] \in {"use", "done"} => bp'[p] \in valid,
         \A b \in OnQueue : holder'[b] = holder[b] /\ holder[b] # p
  PROVE  Driver'
<1>1. OnQueue' = OnQueue /\ Started'
  BY Zenon, StillStarted DEF Driver
<1>2. Flags'
  BY Zenon, <1>1 DEF Driver, Flags
<1>3. \A b \in OnQueue : holder[b] \in Proc \cup {Nobody}
  <2>1. OnQueue \subseteq Buf
    BY DEF Driver, Queued, OnQueue
  <2> QED BY Zenon, <2>1 DEF Fields
<1>4. Queued'
  BY <1>1, <1>3 DEF Driver, Queued
<1>5. Clean'
  BY Zenon DEF Driver, Clean
<1> QED BY Zenon, <1>1, <1>2, <1>4, <1>5 DEF Driver

\* So do the six kinds of step that leave the disk and the flags alone.
LEMMA DriverGoesOn ==
  ASSUME Fields, Owns, Driver, NEW p \in Proc
  PROVE  (\/ \E k \in Block : bget_hit(p, k)
          \/ bget_acquiresleep(p) \/ bread_valid(p) \/ iderw_return(p)
          \/ brelse_releasesleep(p) \/ brelse_put(p)) => Driver'
<1>0. OnQueue \subseteq Buf
  BY DEF Driver, Queued, OnQueue
<1>1. /\ \A b \in OnQueue : b \in Buf /\ holder[b] # Nobody /\ bpc[holder[b]] \in {"read", "write"}
      /\ \A b \in OnQueue : bp[holder[b]] = b /\ holder[b] \in Proc
  <2>1. \A b \in OnQueue : b \in Buf /\ holder[b] # Nobody /\ bpc[holder[b]] \in {"read", "write"}
    BY Zenon, <1>0 DEF Driver, Queued
  <2> QED BY <2>1 DEF Owns, Fields
<1>2. ASSUME NEW k \in Block, bget_hit(p, k) PROVE Driver'
  <2>1. bpc' = [bpc EXCEPT ![p] = "lock"] /\ bpc[p] = "idle"
    BY Zenon, <1>2 DEF bget_hit, Goes
  <2>2. PICK a : bp' = [bp EXCEPT ![p] = a]
    BY Zenon, <1>2 DEF bget_hit
  <2>3. UNCHANGED <<blockno, valid, dirty, data, disk, idequeue, cmd, holder>>
    BY Zenon, <1>2 DEF bget_hit
  <2>4. \A q \in Proc : q # p => bpc'[q] = bpc[q] /\ bp'[q] = bp[q]
    BY Zenon, <2>1, <2>2 DEF Fields
  <2>5. bpc'[p] = "lock" /\ \A b \in OnQueue : holder'[b] = holder[b] /\ holder[b] # p
    BY Zenon, <1>1, <2>1, <2>3 DEF Fields
  <2> QED BY Zenon, <2>3, <2>4, <2>5, GoesOn
<1>3. ASSUME bget_acquiresleep(p) PROVE Driver'
  <2>1. bpc' = [bpc EXCEPT ![p] = "bread"] /\ bpc[p] = "lock"
    BY Zenon, <1>3 DEF bget_acquiresleep, Goes
  <2>2. /\ holder[bp[p]] = Nobody /\ holder' = [holder EXCEPT ![bp[p]] = p]
        /\ UNCHANGED <<blockno, valid, dirty, data, disk, idequeue, cmd, bp>>
    BY Zenon, <1>3 DEF bget_acquiresleep
  <2>3. \A q \in Proc : q # p => bpc'[q] = bpc[q] /\ bp'[q] = bp[q]
    BY Zenon, <2>1, <2>2 DEF Fields
  <2>4. bpc'[p] = "bread" /\ \A b \in OnQueue : holder'[b] = holder[b] /\ holder[b] # p
    BY Zenon, <1>1, <2>1, <2>2 DEF Fields
  <2> QED BY Zenon, <2>2, <2>3, <2>4, GoesOn
<1>4. ASSUME bread_valid(p) PROVE Driver'
  <2>1. bpc' = [bpc EXCEPT ![p] = "use"] /\ bpc[p] = "bread"
    BY Zenon, <1>4 DEF bread_valid, Goes
  <2>2. /\ bp'[p] \in valid
        /\ UNCHANGED <<blockno, valid, dirty, data, disk, idequeue, cmd, bp, holder>>
    BY Zenon, <1>4 DEF bread_valid
  <2>3. \A q \in Proc : q # p => bpc'[q] = bpc[q] /\ bp'[q] = bp[q]
    BY Zenon, <2>1, <2>2 DEF Fields
  <2>4. bpc'[p] = "use" /\ \A b \in OnQueue : holder'[b] = holder[b] /\ holder[b] # p
    BY Zenon, <1>1, <2>1, <2>2 DEF Fields
  <2> QED BY Zenon, <2>2, <2>3, <2>4, GoesOn
<1>5. ASSUME iderw_return(p) PROVE Driver'
  <2>1. PICK to \in {"use", "done"} : bpc' = [bpc EXCEPT ![p] = to]
    BY Zenon, <1>5 DEF iderw_return, Goes
  <2>2. /\ bp'[p] \in valid /\ bp[p] \notin dirty /\ bpc[p] \in {"read", "write"}
        /\ UNCHANGED <<blockno, valid, dirty, data, disk, idequeue, cmd, bp, holder>>
    BY Zenon, <1>5 DEF iderw_return, Goes
  <2>3. bp[p] \notin OnQueue
    BY Zenon, <2>2 DEF Driver, Flags
  <2>4. \A q \in Proc : q # p => bpc'[q] = bpc[q] /\ bp'[q] = bp[q]
    BY Zenon, <2>1, <2>2 DEF Fields
  <2>5. bpc'[p] = to /\ \A b \in OnQueue : holder'[b] = holder[b] /\ holder[b] # p
    BY <1>1, <2>1, <2>2, <2>3 DEF Fields
  <2> QED BY Zenon, <2>2, <2>4, <2>5, GoesOn
<1>6. ASSUME brelse_releasesleep(p) PROVE Driver'
  <2>1. bpc' = [bpc EXCEPT ![p] = "put"] /\ bpc[p] \in {"use", "done"}
    BY Zenon, <1>6 DEF brelse_releasesleep, Goes
  <2>2. /\ holder' = [holder EXCEPT ![bp[p]] = Nobody]
        /\ UNCHANGED <<blockno, valid, dirty, data, disk, idequeue, cmd, bp>>
    BY Zenon, <1>6 DEF brelse_releasesleep
  <2>3. bp[p] \notin OnQueue
    BY Zenon, <2>1, NotQueued DEF Driver
  <2>4. \A q \in Proc : q # p => bpc'[q] = bpc[q] /\ bp'[q] = bp[q]
    BY Zenon, <2>1, <2>2 DEF Fields
  <2>5. bpc'[p] = "put" /\ \A b \in OnQueue : holder'[b] = holder[b] /\ holder[b] # p
    BY Zenon, <1>1, <2>1, <2>2, <2>3 DEF Fields
  <2> QED BY Zenon, <2>2, <2>4, <2>5, GoesOn
<1>7. ASSUME brelse_put(p) PROVE Driver'
  <2>1. bpc' = [bpc EXCEPT ![p] = "idle"] /\ bpc[p] = "put" /\ bp' = [bp EXCEPT ![p] = NoBuf]
    BY Zenon, <1>7 DEF brelse_put, Goes
  <2>2. UNCHANGED <<blockno, valid, dirty, data, disk, idequeue, cmd, holder>>
    BY Zenon, <1>7 DEF brelse_put
  <2>3. \A q \in Proc : q # p => bpc'[q] = bpc[q] /\ bp'[q] = bp[q]
    BY Zenon, <2>1 DEF Fields
  <2>4. bpc'[p] = "idle" /\ \A b \in OnQueue : holder'[b] = holder[b] /\ holder[b] # p
    BY Zenon, <1>1, <2>1, <2>2 DEF Fields
  <2> QED BY Zenon, <2>2, <2>3, <2>4, GoesOn
<1> QED BY Zenon, <1>2, <1>3, <1>4, <1>5, <1>6, <1>7

-----------------------------------------------------------------------------
\* bget() recycles a buffer that is clean and that nobody has, so it is not
\* queued (bio.c:81-88).
LEMMA DriverRecycles ==
  ASSUME Fields, Listed, Owns, Referred, Driver, NEW p \in Proc, NEW k \in Block,
         bget_recycle(p, k)
  PROVE  Driver'
<1>1. PICK b \in Buf :
        /\ b \notin dirty /\ \A q \in Proc : bp[q] # b
        /\ blockno' = [blockno EXCEPT ![b] = k]
        /\ valid' = valid \ {b} /\ dirty' = dirty \ {b} /\ bp' = [bp EXCEPT ![p] = b]
        /\ bpc[p] = "idle" /\ bpc' = [bpc EXCEPT ![p] = "lock"]
        /\ UNCHANGED <<data, holder, idequeue, cmd, disk>>
  BY Zenon, Recycles
<1>2. b \notin OnQueue /\ OnQueue \subseteq Buf
  BY Zenon, <1>1, NotQueued DEF Driver
<1>3. /\ \A a \in Buf : a # b => blockno'[a] = blockno[a]
      /\ \A q \in Proc : q # p => bpc'[q] = bpc[q] /\ bp'[q] = bp[q]
      /\ bpc'[p] = "lock"
  BY Zenon, <1>1 DEF Fields
<1>4. OnQueue' = OnQueue /\ Started'
  BY Zenon, <1>1, <1>2, <1>3, StillStarted DEF Driver
<1>5. Flags'
  BY ZenonT(30), <1>1, <1>3, <1>4 DEF Driver, Flags, Fields
<1>6. Queued'
  <2>1. \A a \in OnQueue : holder[a] \in Proc /\ holder[a] # p
    BY Zenon, <1>1, <1>2, BcacheAssumption DEF Driver, Queued, Fields
  <2> QED BY <1>1, <1>3, <1>4, <2>1 DEF Driver, Queued
<1>7. Clean'
  BY ZenonT(30), <1>1, <1>3 DEF Driver, Clean, Fields
<1> QED BY Zenon, <1>4, <1>5, <1>6, <1>7 DEF Driver

\* A process that holds the lock of b has no rival for it, in or out of iderw().
LEMMA NoRival ==
  ASSUME Fields, Owns, Queued, NEW p \in Proc, bpc[p] \in {"bread", "use"}
  PROVE  \E b \in Buf : /\ bp[p] = b /\ holder[b] = p /\ b \notin OnQueue
                        /\ \A q \in Proc : q # p /\ bpc[q] \in {"read", "write"} => bp[q] # b
<1>1. bp[p] \in Buf /\ holder[bp[p]] = p
  BY Zenon DEF Owns, HasLock
<1>2. bp[p] \notin OnQueue
  BY Zenon, NotQueued
<1>3. \A q \in Proc : q # p /\ bpc[q] \in {"read", "write"} => bp[q] # bp[p]
  BY <1>1 DEF Owns, HasLock
<1> QED BY Zenon, <1>1, <1>2, <1>3

\* bread() of a block that is not in memory waits for the disk.
LEMMA DriverReads ==
  ASSUME Fields, Owns, Driver, NEW p \in Proc, bread_iderw(p)
  PROVE  Driver'
<1>1. /\ bpc[p] = "bread" /\ bpc' = [bpc EXCEPT ![p] = "read"] /\ bp[p] \notin valid
      /\ UNCHANGED <<blockno, valid, dirty, data, holder, disk, bp>>
  BY Zenon DEF bread_iderw, Goes
<1>2. PICK b \in Buf : /\ bp[p] = b /\ holder[b] = p /\ b \notin OnQueue
                       /\ \A q \in Proc : q # p /\ bpc[q] \in {"read", "write"} => bp[q] # b
  BY Zenon, <1>1, NoRival DEF Driver
<1>3. iderw(b, dirty', data')
  BY Zenon, <1>1, <1>2 DEF bread_iderw, iderw
<1>4. OnQueue' = OnQueue \cup {b} /\ Queued' /\ Started'
  BY Zenon, <1>1, <1>2, <1>3, Iderw DEF Driver
<1>5. Flags'
  BY Zenon, <1>1, <1>2, <1>4 DEF Driver, Flags, Fields
<1>6. Clean'
  BY Zenon, <1>1 DEF Driver, Clean
<1> QED BY Zenon, <1>4, <1>5, <1>6 DEF Driver

\* The log writes to a buffer it has locked and queues it.
LEMMA DriverWrites ==
  ASSUME Fields, Owns, Driver, NEW p \in Proc, bwrite(p)
  PROVE  Driver'
<1>1. /\ bpc[p] = "use" /\ bpc' = [bpc EXCEPT ![p] = "write"]
      /\ UNCHANGED <<blockno, valid, holder, disk, bp>>
  BY Zenon DEF bwrite, Goes
<1>2. PICK b \in Buf : /\ bp[p] = b /\ holder[b] = p /\ b \notin OnQueue
                       /\ \A q \in Proc : q # p /\ bpc[q] \in {"read", "write"} => bp[q] # b
  BY ZenonT(30), <1>1, NoRival DEF Driver
<1>3. b \in valid /\ OnQueue \subseteq Buf
  BY <1>1, <1>2 DEF Driver, Flags, Queued, OnQueue
<1>4. PICK v \in Val : data' = [data EXCEPT ![b] = v] /\ dirty' = dirty \cup {b}
  BY Zenon, <1>2 DEF bwrite
<1>5. iderw(b, dirty', data')
  BY Zenon, <1>2 DEF bwrite
<1>6. \A a \in Buf : a # b => data'[a] = data[a] /\ (a \in dirty' <=> a \in dirty)
  BY Zenon, <1>4 DEF Fields
<1>7. OnQueue' = OnQueue \cup {b} /\ Queued' /\ Started'
  BY Zenon, <1>1, <1>2, <1>3, <1>5, <1>6, Iderw DEF Driver
<1>8. Flags'
  BY ZenonT(30), <1>1, <1>2, <1>3, <1>4, <1>7 DEF Driver, Flags, Fields
<1>9. Clean'
  BY Zenon, <1>1, <1>4, <1>6 DEF Driver, Clean, Fields
<1> QED BY Zenon, <1>7, <1>8, <1>9 DEF Driver

\* log_write() changes and pins a buffer that is not queued (log.c:214-233).
LEMMA DriverPins ==
  ASSUME Fields, Owns, Driver, NEW p \in Proc, log_write(p)
  PROVE  Driver'
<1>1. /\ bpc[p] = "use" /\ bpc' = [bpc EXCEPT ![p] = "done"]
      /\ UNCHANGED <<blockno, valid, holder, idequeue, cmd, disk, bp>>
  BY Zenon DEF log_write, Goes
<1>2. PICK b \in Buf : /\ bp[p] = b /\ holder[b] = p /\ b \notin OnQueue
                       /\ \A q \in Proc : q # p /\ bpc[q] \in {"read", "write"} => bp[q] # b
  BY Zenon, <1>1, NoRival DEF Driver
<1>3. b \in valid /\ OnQueue \subseteq Buf
  BY <1>1, <1>2 DEF Driver, Flags, Queued, OnQueue
<1>4. PICK v \in Val : data' = [data EXCEPT ![b] = v] /\ dirty' = dirty \cup {b}
  BY Zenon, <1>2 DEF log_write
<1>5. \A a \in Buf : a # b => data'[a] = data[a] /\ (a \in dirty' <=> a \in dirty)
  BY Zenon, <1>4 DEF Fields
<1>6. OnQueue' = OnQueue /\ Started'
  BY Zenon, <1>1, <1>2, <1>3, <1>5, StillStarted DEF Driver
<1>7. Flags'
  BY ZenonT(30), <1>1, <1>2, <1>3, <1>4, <1>6 DEF Driver, Flags, Fields
<1>8. Queued'
  <2>1. \A a \in OnQueue : holder[a] \in Proc /\ holder[a] # p
    BY Zenon, <1>1, <1>3, BcacheAssumption DEF Driver, Queued, Fields
  <2> QED BY Zenon, <1>1, <1>6, <2>1 DEF Driver, Queued, Fields
<1>9. Clean'
  BY Zenon, <1>1, <1>4, <1>5 DEF Driver, Clean, Fields
<1> QED BY ZenonT(30), <1>6, <1>7, <1>8, <1>9 DEF Driver

\* ideintr() finishes the head of the queue and starts the next (ide.c:104-131).
LEMMA DriverInterrupt ==
  ASSUME Fields, Owns, OneBuffer, Driver, ideintr
  PROVE  Driver'
<1>1. PICK b \in Buf :
        /\ b = idequeue[1] /\ Head(idequeue) = b /\ idequeue # << >> /\ Len(idequeue) \in Nat \ {0}
        /\ blockno[b] \in Block /\ holder[b] # Nobody
        /\ bpc[holder[b]] \in {"read", "write"} /\ cmd = idestart(b, dirty, data)
  BY Zenon, DiskBusy DEF ideintr, Driver
<1>2. /\ idequeue' \in Seq(Buf) /\ OnQueue' = OnQueue \ {b}
      /\ \A m, j \in 1 .. Len(idequeue') : idequeue'[m] = idequeue'[j] => m = j
      /\ idequeue' # << >> => Head(idequeue') \in OnQueue'
  BY Zenon, <1>1, Dequeue DEF ideintr, Driver
<1>3. b \in OnQueue
  BY <1>1 DEF OnQueue
<1>4. /\ valid' = valid \cup {b} /\ dirty' = dirty \ {b}
      /\ UNCHANGED <<blockno, holder, bpc, bp>>
  BY Zenon, <1>1 DEF ideintr
<1>5. cmd.block = blockno[b] /\ (cmd.write <=> b \in dirty) /\ (b \in dirty => cmd.data = data[b])
  BY Zenon, <1>1 DEF idestart
<1>6. /\ data' = IF b \in dirty THEN data ELSE [data EXCEPT ![b] = disk[blockno[b]]]
      /\ disk' = IF b \in dirty THEN [disk EXCEPT ![blockno[b]] = data[b]] ELSE disk
  BY Zenon, <1>1, <1>5 DEF ideintr
<1>7. Flags'
  <2>1. \A q \in Proc : bpc[q] \in {"use", "write", "done"} => bp[q] \in valid'
    BY Zenon, <1>4 DEF Driver, Flags
  <2>2. \A q \in Proc : /\ bpc[q] = "read" => (bp[q] \in OnQueue' <=> bp[q] \notin valid')
                        /\ bpc[q] = "write" => (bp[q] \in OnQueue' <=> bp[q] \in dirty')
    BY Zenon, <1>2, <1>3, <1>4 DEF Driver, Flags
  <2>3. dirty' \subseteq valid' /\ \A a \in valid' : blockno[a] \in Block /\ data'[a] \in Val
    BY ZenonT(30), <1>1, <1>4, <1>6 DEF Driver, Flags, Fields
  <2> QED BY Zenon, <1>4, <2>1, <2>2, <2>3 DEF Flags
<1>8. Queued'
  BY Zenon, <1>2, <1>4 DEF Driver, Queued
<1>9. Started'
  BY Zenon DEF ideintr, Started, idestart
<1>10. Clean'
  <2>1. \A a \in valid : a # b => blockno[a] # blockno[b]
    BY Zenon, <1>1 DEF OneBuffer, Driver, Flags, Fields
  <2> QED BY <1>1, <1>4, <1>6, <2>1 DEF Driver, Clean, Flags, Fields
<1> QED BY Zenon, <1>7, <1>8, <1>9, <1>10 DEF Driver

\* A step keeps the flags, the queue and the disk's command together.
LEMMA NextDriver ==
  Fields /\ Listed /\ Owns /\ OneBuffer /\ Referred /\ Driver /\ [BcacheNext]_bcacheVars => Driver'
<1> SUFFICES ASSUME Fields, Listed, Owns, OneBuffer, Referred, Driver, [BcacheNext]_bcacheVars
             PROVE  Driver'
  BY Zenon
<1>1. CASE UNCHANGED <<blockno, valid, dirty, data, disk, idequeue, cmd, holder, bpc, bp>>
  <2>1. OnQueue' = OnQueue /\ Started'
    BY Zenon, <1>1, StillStarted DEF Driver
  <2> QED BY ZenonT(30), <1>1, <2>1 DEF Driver, Flags, Queued, Clean
<1>2. ASSUME NEW p \in Proc, NEW k \in Block, bget_panic(p, k) PROVE Driver'
  BY Zenon, <1>1, <1>2 DEF bget_panic
<1>3. CASE UNCHANGED bcacheVars
  BY Zenon, <1>1, <1>3 DEF bcacheVars
<1> QED
  BY Zenon, <1>2, <1>3, DriverGoesOn, DriverRecycles, DriverReads, DriverWrites, DriverPins,
     DriverInterrupt DEF BcacheNext, BcacheStep

-----------------------------------------------------------------------------
\* binit() puts every buffer into the list (bio.c:49-55).
LEMMA AllListed == BcacheInit => Listed
<1> SUFFICES ASSUME BcacheInit PROVE Listed
  BY Zenon
<1> DEFINE n == Cardinality(Buf)
<1>1. n \in Nat /\ ExistsBijection(1 .. n, Buf)
  BY Zenon, FS_CardinalityType, BcacheAssumption
<1>2. \E s \in [1 .. n -> Buf] : \A b \in Buf : \E i \in DOMAIN s : s[i] = b
  BY Zenon, <1>1 DEF ExistsBijection, Bijection, Surjection
<1>3. mru \in [1 .. n -> Buf] /\ \A b \in Buf : \E i \in DOMAIN mru : mru[i] = b
  BY Zenon, <1>2 DEF BcacheInit
<1> QED BY <1>1, <1>3 DEF Listed

\* The invariant holds after binit().
LEMMA InitBcache == BcacheInit => BcacheInv
<1> SUFFICES ASSUME BcacheInit PROVE BcacheInv
  BY Zenon
<1>1. Fields /\ Owns /\ OneBuffer
  BY Zenon, BcacheAssumption DEF BcacheInit, Fields, Owns, OneBuffer, HasLock, NoBuf
<1>2. Listed
  BY Zenon, AllListed
<1>3. Referred
  <2>1. \A b \in Buf : Users(b) = {}
    BY Zenon, BcacheAssumption DEF BcacheInit, Users, NoBuf
  <2> QED BY Zenon, <2>1, FS_EmptySet DEF BcacheInit, Referred
<1>4. Driver
  BY DEF BcacheInit, Driver, Flags, Queued, Started, Clean, OnQueue
<1>5. BuffersSuffice
  BY Zenon DEF BcacheInit, BuffersSuffice
<1> QED BY Zenon, <1>1, <1>2, <1>3, <1>4, <1>5 DEF BcacheInv

\* The invariant holds in every state the cache and the driver can reach
\* (bio.c:38-141, ide.c:103-168).
THEOREM CacheInvariant == BcacheSpec => []BcacheInv
<1>1. BcacheInv /\ [BcacheNext]_bcacheVars => BcacheInv'
  BY Zenon, NextFields, NextListed, NextOwns, NextOneBuffer, NextReferred, NextDriver, NextSuffice
     DEF BcacheInv, Driver
<1> QED BY <1>1, InitBcache, PTL DEF BcacheSpec

\* A block has one buffer, refcnt counts the processes that have it, the disk
\* works on the head of the queue, and bget() panics only when every buffer is
\* in use or dirty: for any number of buffers, blocks and processes.
THEOREM BuffersSoundHolds == BcacheSpec => []BuffersSound
<1>1. BcacheInv => BuffersSound
  <2> SUFFICES ASSUME BcacheInv PROVE BuffersSound
    BY Zenon
  <2> USE BcacheAssumption DEF BcacheInv, Driver
  <2>1. refcnt \in [Buf -> 0 .. Cardinality(Proc)]
    <3>1. \A b \in Buf : Cardinality(Users(b)) \in 0 .. Cardinality(Proc)
      <4> TAKE b \in Buf
      <4>1. Users(b) \subseteq Proc
        BY Zenon DEF Users
      <4>2. IsFiniteSet(Users(b)) /\ Cardinality(Users(b)) <= Cardinality(Proc)
        BY Zenon, <4>1, FS_Subset
      <4>3. Cardinality(Users(b)) \in Nat /\ Cardinality(Proc) \in Nat
        BY Zenon, <4>2, FS_CardinalityType
      <4> QED BY <4>2, <4>3
    <3> QED BY <3>1 DEF Fields, Referred
  <2>2. BcacheTypeOK
    BY Zenon, <2>1 DEF BcacheTypeOK, Fields, Listed, Queued
  <2>3. OneBufferPerBlock
    <3>1. ASSUME NEW k \in Block PROVE Cardinality(Cached(k)) <= 1
      <4>1. CASE Cached(k) = {}
        BY <4>1, FS_EmptySet
      <4>2. CASE Cached(k) # {}
        <5>1. PICK b \in Buf : Cached(k) = {b}
          BY Zenon, <4>2 DEF Cached, OneBuffer
        <5> QED BY <5>1, FS_Singleton
      <4> QED BY Zenon, <4>1, <4>2
    <3> QED BY Zenon, <3>1 DEF OneBufferPerBlock, Referred, Users
  <2>4. QueueMatchesDisk
    <3>1. cmd = NoCmd <=> idequeue = << >>
      <4>1. CASE idequeue = << >>
        BY Zenon, <4>1 DEF Started
      <4>2. CASE idequeue # << >>
        <5>1. Head(idequeue) \in OnQueue
          BY <4>2 DEF Queued, OnQueue
        <5>2. blockno[Head(idequeue)] \in Block
          <6>1. Head(idequeue) \in Buf /\ holder[Head(idequeue)] # Nobody
            BY Zenon, <5>1, NotQueued DEF Queued
          <6> QED BY <6>1 DEF Owns, HasLock, Fields
        <5>3. cmd.block # NoCmd.block
          BY Zenon, <4>2, <5>2 DEF Started, idestart, NoCmd
        <5> QED BY Zenon, <4>2, <5>3
      <4> QED BY Zenon, <4>1, <4>2
    <3>2. idequeue # << >> => cmd.block = blockno[Head(idequeue)]
      BY Zenon DEF Started, idestart
    <3>5. \A b \in OnQueue :
            \E p \in Proc : bp[p] = b /\ holder[b] = p /\ bpc[p] \in {"read", "write"}
      BY NotQueued DEF Queued, Owns, Fields
    <3> QED BY <3>1, <3>2, <3>5 DEF QueueMatchesDisk, Queued, OnQueue
  <2> QED BY Zenon, <2>2, <2>3, <2>4 DEF BuffersSound
<1> QED BY <1>1, CacheInvariant, PTL

-----------------------------------------------------------------------------
\* The value of a block is that of its valid buffer, or the disk's.
ValueIs ==
  \A k \in Block :
    /\ \A b \in valid : blockno[b] = k => BlockValue[k] = data[b]
    /\ (\A b \in valid : blockno[b] # k) => BlockValue[k] = disk[k]

\* One buffer per block makes that value unique.
LEMMA BlockHasValue == BcacheInv => ValueIs
<1> SUFFICES ASSUME BcacheInv, NEW k \in Block
             PROVE  /\ \A b \in valid : blockno[b] = k => BlockValue[k] = data[b]
                    /\ (\A b \in valid : blockno[b] # k) => BlockValue[k] = disk[k]
  BY Zenon DEF ValueIs
<1> DEFINE bs == {b \in Cached(k) : b \in valid}
<1>1. BlockValue[k] = IF bs = {} THEN disk[k] ELSE data[CHOOSE b \in bs : TRUE]
  BY Zenon DEF BlockValue
<1>2. ASSUME NEW b \in valid, blockno[b] = k PROVE BlockValue[k] = data[b]
  <2>1. bs = {b}
    BY Zenon, <1>2 DEF BcacheInv, Fields, OneBuffer, Cached
  <2>2. (CHOOSE a \in bs : TRUE) = b
    BY Zenon, <2>1
  <2> QED BY Zenon, <1>1, <2>1, <2>2
<1>3. (\A b \in valid : blockno[b] # k) => bs = {}
  BY Zenon DEF Cached
<1> QED BY Zenon, <1>1, <1>2, <1>3

\* BlockValue and BlockUsers, one block at a time.
LEMMA PerBlock ==
  /\ DOMAIN BlockValue = Block /\ DOMAIN BlockUsers = Block
  /\ \A k \in Block : \A p : p \in BlockUsers[k] <=>
       p \in Proc /\ bpc[p] \in HasLock /\ blockno[bp[p]] = k
  /\ (\A k \in Block : BlockValue'[k] = BlockValue[k]) => BlockValue' = BlockValue
  /\ (\A k \in Block : BlockUsers'[k] = BlockUsers[k]) => BlockUsers' = BlockUsers
BY Zenon DEF BlockValue, BlockUsers, HasLock

\* The process that has a buffer's lock is the only one that has its block.
LEMMA OnlyUser ==
  ASSUME BcacheInv, NEW k \in Block, NEW b \in Buf, blockno[b] = k
  PROVE  BlockUsers[k] = IF holder[b] = Nobody THEN {} ELSE {holder[b]}
<1>1. ASSUME NEW p \in Proc, bpc[p] \in HasLock, blockno[bp[p]] = k
      PROVE  holder[b] = p
  <2>1. bp[p] \in Buf /\ holder[bp[p]] = p
    BY Zenon, <1>1 DEF BcacheInv, Owns, HasLock
  <2>2. bp[p] = b
    BY Zenon, <1>1, <2>1 DEF BcacheInv, OneBuffer
  <2> QED BY Zenon, <2>1, <2>2
<1>2. holder[b] # Nobody => /\ holder[b] \in Proc /\ bpc[holder[b]] \in HasLock
                            /\ blockno[bp[holder[b]]] = k
  BY DEF BcacheInv, Owns, Fields
<1> QED BY <1>1, <1>2, PerBlock, BcacheAssumption

\* Writing to a buffer changes the value of its block and of no other.
LEMMA Writes ==
  ASSUME BcacheInv, BcacheInv', NEW b \in valid, NEW v \in Val,
         data' = [data EXCEPT ![b] = v], UNCHANGED <<blockno, valid, disk>>
  PROVE  BlockValue' = [BlockValue EXCEPT ![blockno[b]] = v]
<1>1. b \in Buf /\ valid \subseteq Buf /\ data \in [Buf -> Val \cup {NoBlock}]
  BY Zenon DEF BcacheInv, Fields
<1>2. ValueIs /\ ValueIs'
  <2>1. ValueIs
    BY Zenon, BlockHasValue
  <2>2. ValueIs'
    BY BlockHasValue, PTL
  <2> QED BY Zenon, <2>1, <2>2
<1>3. \A k \in Block : BlockValue'[k] = IF k = blockno[b] THEN v ELSE BlockValue[k]
  BY <1>1, <1>2 DEF ValueIs, BcacheInv, OneBuffer
<1>4. /\ BlockValue' \in [Block -> {BlockValue'[k] : k \in Block}]
      /\ BlockValue \in [Block -> {BlockValue[k] : k \in Block}]
  BY Zenon DEF BlockValue
<1> QED BY Zenon, <1>3, <1>4

\* Before and after a step the value of a block is that of its buffer.
LEMMA BothHaveValue == BcacheInv /\ BcacheInv' => ValueIs /\ ValueIs'
<1>1. BcacheInv => ValueIs
  BY Zenon, BlockHasValue
<1>2. BcacheInv' => ValueIs'
  BY BlockHasValue, PTL
<1> QED BY Zenon, <1>1, <1>2

\* bget() recycles a clean buffer, whose block has the value the disk has.
LEMMA StoreRecycles ==
  ASSUME BcacheInv, BcacheInv', NEW p \in Proc, NEW k \in Block, bget_recycle(p, k)
  PROVE  BlockValue' = BlockValue /\ BlockUsers' = BlockUsers
<1>1. PICK b \in Buf :
        /\ b \notin dirty /\ \A q \in Proc : bp[q] # b
        /\ \A a \in Buf : blockno[a] # k
        /\ blockno' = [blockno EXCEPT ![b] = k]
        /\ valid' = valid \ {b} /\ bp' = [bp EXCEPT ![p] = b]
        /\ bpc[p] = "idle" /\ bpc' = [bpc EXCEPT ![p] = "lock"]
        /\ UNCHANGED <<data, disk>>
  BY Zenon, Recycles DEF BcacheInv
<1>2. ValueIs /\ ValueIs' /\ Fields /\ OneBuffer /\ Clean /\ Owns
  BY Zenon, BothHaveValue DEF BcacheInv, Driver
<1>3. valid \subseteq Buf /\ \A a \in Buf : a # b => blockno'[a] = blockno[a]
  BY Zenon, <1>1, <1>2 DEF Fields
<1>4. blockno'[b] = k
  BY Zenon, <1>1, <1>2 DEF Fields
<1>5. ASSUME NEW j \in Block PROVE BlockValue'[j] = BlockValue[j]
  <2>1. CASE \E a \in valid : a # b /\ blockno[a] = j
    BY <1>1, <1>2, <1>3, <2>1 DEF ValueIs
  <2>2. CASE b \in valid /\ blockno[b] = j
    <3>1. BlockValue[j] = disk[j]
      BY ZenonT(30), <1>1, <1>2, <2>2 DEF ValueIs, Clean
    <3>2. \A a \in valid' : blockno'[a] # j
      BY ZenonT(30), <1>1, <1>2, <1>3, <2>2 DEF OneBuffer
    <3> QED BY Zenon, <1>1, <1>2, <3>1, <3>2 DEF ValueIs
  <2>3. CASE \A a \in valid : blockno[a] # j
    BY <1>1, <1>2, <1>3, <2>3 DEF ValueIs
  <2> QED BY Zenon, <2>1, <2>2, <2>3
<1>6. BlockUsers' = BlockUsers
  <2>1. \A q \in Proc : /\ bpc'[q] \in HasLock <=> bpc[q] \in HasLock
                        /\ bpc[q] \in HasLock => bp'[q] = bp[q] /\ bp[q] \in Buf /\ bp[q] # b
    BY SMTT(30), <1>1, <1>2 DEF Fields, Owns, HasLock
  <2>2. \A j \in Block : BlockUsers'[j] = BlockUsers[j]
    BY <1>3, <2>1 DEF BlockUsers, HasLock
  <2> QED BY Zenon, <2>2, PerBlock
<1> QED BY Zenon, <1>5, <1>6, PerBlock

\* A process that gets the lock of a buffer gets its block.
LEMMA StoreLocks ==
  ASSUME BcacheInv, NEW p \in Proc, bget_acquiresleep(p)
  PROVE  Store!Next
<1>1. Fields /\ Owns
  BY Zenon DEF BcacheInv
<1>2. PICK b \in Buf, k \in Block : /\ bp[p] = b /\ blockno[b] = k /\ holder[b] = Nobody
                                    /\ bpc[p] = "lock"
  BY Zenon, <1>1 DEF bget_acquiresleep, Goes, Owns
<1>3. BlockUsers[k] = {}
  BY Zenon, <1>2, OnlyUser
<1>4. bpc' = [bpc EXCEPT ![p] = "bread"] /\ UNCHANGED <<bp, blockno, valid, data, disk>>
  BY Zenon DEF bget_acquiresleep, Goes
<1>5. BlockUsers' = [BlockUsers EXCEPT ![k] = {p}]
  <2>1. \A j \in Block : BlockUsers'[j] = IF j = k THEN BlockUsers[j] \cup {p} ELSE BlockUsers[j]
    BY <1>1, <1>2, <1>4 DEF BlockUsers, Fields
  <2>2. BlockUsers' \in [Block -> SUBSET Proc] /\ BlockUsers \in [Block -> SUBSET Proc]
    BY Zenon DEF BlockUsers
  <2> QED BY Zenon, <1>3, <2>1, <2>2
<1>6. BlockValue' = BlockValue
  BY <1>4, SMTT(30) DEF BlockValue, Cached
<1> QED BY Zenon, <1>2, <1>3, <1>5, <1>6 DEF Store!Next, Store!Bread

\* A process that has the lock of a buffer has its block to itself.
LEMMA HolderIsUser ==
  ASSUME BcacheInv, NEW p \in Proc, bpc[p] \in {"use", "done"}
  PROVE  \E b \in valid, k \in Block : bp[p] = b /\ blockno[b] = k /\ BlockUsers[k] = {p}
<1>1. PICK b \in valid, k \in Block : bp[p] = b /\ blockno[b] = k /\ holder[b] = p /\ b \in Buf
  BY Zenon DEF BcacheInv, Driver, Owns, Flags, HasLock
<1>2. BlockUsers[k] = IF holder[b] = Nobody THEN {} ELSE {holder[b]}
  BY Zenon, <1>1, OnlyUser
<1> QED BY Zenon, <1>1, <1>2, BcacheAssumption

\* A process changes the value of the block it has, by log_write() or bwrite().
LEMMA StoreWrites ==
  ASSUME BcacheInv, BcacheInv', NEW p \in Proc, log_write(p) \/ bwrite(p)
  PROVE  Store!Next
<1>1. /\ bpc[p] = "use" /\ UNCHANGED <<blockno, valid, disk, bp>>
      /\ \E to \in {"done", "write"} : bpc' = [bpc EXCEPT ![p] = to]
  BY Zenon DEF log_write, bwrite, Goes
<1>2. PICK b \in valid, k \in Block : bp[p] = b /\ blockno[b] = k /\ BlockUsers[k] = {p}
  BY Zenon, <1>1, HolderIsUser
<1>3. PICK v \in Val : data' = [data EXCEPT ![b] = v]
  BY Zenon, <1>2 DEF log_write, bwrite
<1>4. BlockValue' = [BlockValue EXCEPT ![k] = v]
  BY Zenon, <1>1, <1>2, <1>3, Writes
<1>5. BlockUsers' = BlockUsers
  BY <1>1 DEF BlockUsers, BcacheInv, Fields
<1> QED BY Zenon, <1>2, <1>4, <1>5 DEF Store!Next, Store!Write

\* The interrupt brings the buffer and the disk to the same value, the one the
\* block had: the buffer's when it was dirty, the disk's when it was not valid.
LEMMA StoreInterrupt ==
  ASSUME BcacheInv, BcacheInv', ideintr
  PROVE  BlockValue' = BlockValue /\ BlockUsers' = BlockUsers
<1>1. ValueIs /\ ValueIs' /\ Fields /\ OneBuffer /\ Flags /\ Clean /\ Owns /\ Queued /\ Started
  BY Zenon, BothHaveValue DEF BcacheInv, Driver
<1>2. PICK b \in Buf : /\ Head(idequeue) = b /\ blockno[b] \in Block
                       /\ cmd = idestart(b, dirty, data)
  BY Zenon, <1>1, DiskBusy DEF ideintr
<1>3. cmd.block = blockno[b] /\ (cmd.write <=> b \in dirty) /\ (b \in dirty => cmd.data = data[b])
  BY Zenon, <1>2 DEF idestart
<1>4. /\ valid' = valid \cup {b} /\ UNCHANGED blockno
      /\ data' = IF b \in dirty THEN data ELSE [data EXCEPT ![b] = disk[blockno[b]]]
      /\ disk' = IF b \in dirty THEN [disk EXCEPT ![blockno[b]] = data[b]] ELSE disk
  <2>1. valid' = valid \cup {b} /\ UNCHANGED blockno
    BY Zenon, <1>2 DEF ideintr
  <2>2. data' = IF b \in dirty THEN data ELSE [data EXCEPT ![b] = disk[cmd.block]]
    BY Zenon, <1>2 DEF ideintr
  <2>3. disk' = IF cmd.write THEN [disk EXCEPT ![cmd.block] = cmd.data] ELSE disk
    BY Zenon, <1>2 DEF ideintr
  <2> QED BY Zenon, <1>3, <2>1, <2>2, <2>3
<1>5. ASSUME NEW j \in Block PROVE BlockValue'[j] = BlockValue[j]
  <2>1. CASE j = blockno[b]
    <3>1. BlockValue'[j] = data'[b]
      BY <1>1, <1>4, <2>1 DEF ValueIs
    <3>2. CASE b \in valid
      BY <1>1, <1>2, <1>4, <2>1, <3>1, <3>2 DEF ValueIs, Clean, Fields
    <3>3. CASE b \notin valid
      <4>1. b \notin dirty /\ \A a \in valid : blockno[a] # j
        BY Zenon, <1>1, <2>1, <3>3 DEF Flags, OneBuffer, Fields
      <4>2. BlockValue[j] = disk[j]
        BY Zenon, <1>1, <4>1 DEF ValueIs
      <4> QED BY ZenonT(30), <1>1, <1>4, <2>1, <3>1, <4>1, <4>2 DEF Fields
    <3> QED BY Zenon, <3>2, <3>3
  <2>2. CASE j # blockno[b]
    <3>1. \A a \in valid' : blockno'[a] = j => a \in valid /\ data'[a] = data[a]
      BY Zenon, <1>1, <1>4, <2>2 DEF Fields
    <3>2. disk'[j] = disk[j] /\ \A a \in valid : a \in valid' /\ blockno'[a] = blockno[a]
      BY Zenon, <1>1, <1>2, <1>4, <2>2 DEF Fields
    <3>3. CASE \E a \in valid : blockno[a] = j
      BY <1>1, <3>1, <3>2, <3>3 DEF ValueIs
    <3>4. CASE \A a \in valid : blockno[a] # j
      BY ZenonT(30), <1>1, <1>4, <3>1, <3>2, <3>4 DEF ValueIs
    <3> QED BY Zenon, <3>3, <3>4
  <2> QED BY Zenon, <2>1, <2>2
<1>6. BlockUsers' = BlockUsers
  BY Zenon DEF ideintr, BlockUsers
<1> QED BY Zenon, <1>5, <1>6, PerBlock

\* A process that releases the lock gives the block up.
LEMMA StoreReleases ==
  ASSUME BcacheInv, NEW p \in Proc, brelse_releasesleep(p)
  PROVE  Store!Next
<1>1. /\ bpc[p] \in {"use", "done"} /\ bpc' = [bpc EXCEPT ![p] = "put"]
      /\ UNCHANGED <<bp, blockno, valid, data, disk>>
  BY Zenon DEF brelse_releasesleep, Goes
<1>2. PICK b \in valid, k \in Block : bp[p] = b /\ blockno[b] = k /\ BlockUsers[k] = {p}
  BY Zenon, <1>1, HolderIsUser
<1>3. BlockUsers' = [BlockUsers EXCEPT ![k] = {}]
  <2>1. \A j \in Block : BlockUsers'[j] = IF j = k THEN BlockUsers[j] \ {p} ELSE BlockUsers[j]
    BY <1>1, <1>2 DEF BlockUsers, BcacheInv, Fields
  <2>2. BlockUsers' \in [Block -> SUBSET Proc] /\ BlockUsers \in [Block -> SUBSET Proc]
    BY Zenon DEF BlockUsers
  <2> QED BY ZenonT(30), <1>2, <2>1, <2>2
<1>4. BlockValue' = BlockValue
  BY <1>1 DEF BlockValue, Cached
<1> QED BY Zenon, <1>2, <1>3, <1>4 DEF Store!Next, Store!Brelse

\* The store stays as it is when no buffer changes and nobody gets or gives up
\* a lock.
LEMMA SameStore ==
  ASSUME UNCHANGED <<blockno, valid, data, disk>>,
         \A q \in Proc : /\ bpc'[q] \in HasLock <=> bpc[q] \in HasLock
                         /\ bpc[q] \in HasLock => bp'[q] = bp[q]
  PROVE  BlockValue' = BlockValue /\ BlockUsers' = BlockUsers
<1>1. BlockValue' = BlockValue
  BY DEF BlockValue, Cached
<1>2. ASSUME NEW k \in Block PROVE BlockUsers'[k] = BlockUsers[k]
  <2>1. BlockUsers[k] = {p \in Proc : bpc[p] \in HasLock /\ blockno[bp[p]] = k}
    BY Zenon DEF BlockUsers, HasLock
  <2>2. BlockUsers'[k] = {p \in Proc : bpc'[p] \in HasLock /\ blockno'[bp'[p]] = k}
    BY Zenon DEF BlockUsers, HasLock
  <2> QED BY Zenon, <2>1, <2>2
<1> QED BY Zenon, <1>1, <1>2, PerBlock

\* The other steps touch neither the value of a block nor who has it.
LEMMA StoreIdles ==
  ASSUME Fields, NEW p \in Proc
  PROVE  (\/ \E k \in Block : bget_hit(p, k) \/ bget_panic(p, k)
          \/ bread_valid(p) \/ bread_iderw(p) \/ iderw_return(p) \/ brelse_put(p))
         => BlockValue' = BlockValue /\ BlockUsers' = BlockUsers
<1>1. ASSUME NEW from, NEW to, Goes(p, from, to), from \in HasLock <=> to \in HasLock
      PROVE  \A q \in Proc : /\ bpc'[q] \in HasLock <=> bpc[q] \in HasLock
                             /\ q # p => bpc'[q] = bpc[q]
  BY Zenon, <1>1 DEF Fields, Goes
<1>2. ASSUME NEW k \in Block, bget_hit(p, k) PROVE BlockValue' = BlockValue /\ BlockUsers' = BlockUsers
  <2>1. Goes(p, "idle", "lock") /\ UNCHANGED <<blockno, valid, data, disk>>
    BY Zenon, <1>2 DEF bget_hit
  <2>2. bpc[p] \notin HasLock /\ \A q \in Proc : q # p => bp'[q] = bp[q]
    BY ZenonT(30), <1>2, <2>1 DEF bget_hit, Goes, HasLock, Fields
  <2> QED BY Zenon, <1>1, <2>1, <2>2, SameStore DEF HasLock
<1>3. ASSUME NEW k \in Block, bget_panic(p, k) PROVE BlockValue' = BlockValue /\ BlockUsers' = BlockUsers
  BY Zenon, <1>3, SameStore DEF bget_panic
<1>4. ASSUME bread_valid(p) PROVE BlockValue' = BlockValue /\ BlockUsers' = BlockUsers
  <2>1. Goes(p, "bread", "use") /\ UNCHANGED <<blockno, valid, data, disk, bp>>
    BY Zenon, <1>4 DEF bread_valid
  <2> QED BY Zenon, <1>1, <2>1, SameStore DEF HasLock
<1>5. ASSUME bread_iderw(p) PROVE BlockValue' = BlockValue /\ BlockUsers' = BlockUsers
  <2>1. Goes(p, "bread", "read") /\ UNCHANGED <<blockno, valid, data, disk, bp>>
    BY Zenon, <1>5 DEF bread_iderw
  <2> QED BY Zenon, <1>1, <2>1, SameStore DEF HasLock
<1>6. ASSUME iderw_return(p) PROVE BlockValue' = BlockValue /\ BlockUsers' = BlockUsers
  <2>1. /\ Goes(p, "read", "use") \/ Goes(p, "write", "done")
        /\ UNCHANGED <<blockno, valid, data, disk, bp>>
    BY Zenon, <1>6 DEF iderw_return
  <2> QED BY Zenon, <1>1, <2>1, SameStore DEF HasLock
<1>7. ASSUME brelse_put(p) PROVE BlockValue' = BlockValue /\ BlockUsers' = BlockUsers
  <2>1. Goes(p, "put", "idle") /\ UNCHANGED <<blockno, valid, data, disk>>
    BY Zenon, <1>7 DEF brelse_put
  <2>2. bpc[p] \notin HasLock /\ \A q \in Proc : q # p => bp'[q] = bp[q]
    BY Zenon, <1>7, <2>1 DEF brelse_put, Goes, HasLock, Fields
  <2> QED BY Zenon, <1>1, <2>1, <2>2, SameStore DEF HasLock
<1> QED BY Zenon, <1>2, <1>3, <1>4, <1>5, <1>6, <1>7

\* Every step of the cache and the driver is a step of the block store, or
\* leaves it alone.
LEMMA StepIsStore ==
  ASSUME BcacheInv, BcacheInv', BcacheNext
  PROVE  [Store!Next]_(Store!vars)
<1>1. BlockValue' = BlockValue /\ BlockUsers' = BlockUsers => UNCHANGED Store!vars
  BY Zenon DEF Store!vars
<1>2. Fields
  BY Zenon DEF BcacheInv
<1> QED
  BY ZenonT(30), <1>1, <1>2, StoreRecycles, StoreLocks, StoreWrites, StoreInterrupt, StoreReleases,
     StoreIdles DEF BcacheNext, BcacheStep

\* The buffer cache and the disk driver implement one value per block, which
\* only the process that has the block changes (bio.c:1-16), whatever is
\* recycled, queued or half done.
THEOREM CacheIsCoherentHolds == BcacheSpec => CacheIsCoherent
<1>1. BcacheInit => Store!Init
  <2> SUFFICES ASSUME BcacheInit PROVE Store!Init
    BY Zenon
  <2>1. BlockValue = disk /\ disk \in [Block -> Val]
    BY Zenon DEF BcacheInit, BlockValue
  <2>2. BlockUsers = [k \in Block |-> {}]
    BY Zenon DEF BcacheInit, BlockUsers
  <2> QED BY Zenon, <2>1, <2>2 DEF Store!Init
<1>2. BcacheInv /\ BcacheInv' /\ BcacheNext => [Store!Next]_(Store!vars)
  BY Zenon, StepIsStore
<1>3. UNCHANGED bcacheVars => UNCHANGED Store!vars
  <2> SUFFICES ASSUME UNCHANGED bcacheVars PROVE UNCHANGED Store!vars
    BY Zenon
  <2>1. UNCHANGED <<blockno, valid, data, disk, bpc, bp>>
    BY Zenon DEF bcacheVars
  <2>2. BlockValue' = BlockValue
    BY <2>1 DEF BlockValue, Cached
  <2>3. BlockUsers' = BlockUsers
    BY Zenon, <2>1 DEF BlockUsers
  <2> QED BY Zenon, <2>2, <2>3 DEF Store!vars
<1> QED BY <1>1, <1>2, <1>3, CacheInvariant, PTL DEF BcacheSpec, CacheIsCoherent, Store!Spec

-----------------------------------------------------------------------------
\* Who holds the spinlock lk->lk, by program location.
LkHolder == \A p \in Proc :
  lk = p <=> slpc[p] \in {"test", "sleep", "release_lk", "wakeup", "release_lk2"}

\* Who holds ptable.lock.
PtableHolder == \A p \in Proc : ptable = p <=> slpc[p] \in {"release_lk", "sched"}

\* The owner is the process between acquiresleep() and releasesleep().
OwnerHolds == /\ locked <=> owner # Nobody
              /\ \A p \in Proc : owner = p <=> slpc[p] \in {"crit", "release"}

\* Only a process inside sched() is not RUNNING.
OnlyAsleepSleeps == \A p \in Proc : state[p] # "RUNNING" => slpc[p] = "asleep"

\* NoLostWakeup for the whole way into sleep(), from the test on.
Falling(p) == slpc[p] \in {"sleep", "release_lk", "sched"} \/ state[p] = "SLEEPING"
WakeupComing == \A p \in Proc : Falling(p) =>
                  locked \/ \E q \in Proc : slpc[q] = "wakeup"

\* The inductive invariant.
IInv == SlTypeOK /\ LkHolder /\ PtableHolder /\ OwnerHolds /\ OnlyAsleepSleeps /\ WakeupComing

\* The invariant holds when nobody has used the lock yet.
LEMMA InitIInv == SlInit => IInv
BY Zenon, NobodyAssumption
   DEF SlInit, IInv, SlTypeOK, PC, LkHolder, PtableHolder, OwnerHolds,
       OnlyAsleepSleeps, WakeupComing, Falling

\* Every step of acquiresleep(), sleep(), releasesleep(), wakeup() and kill()
\* preserves it.  The two steps that matter are releasesleep(), which may leave
\* a process on its way into sleep() only because its own wakeup() is still to
\* come, and wakeup(), which finds nobody half way because it holds both locks.
LEMMA NextIInv == IInv /\ [SlNext]_slvars => IInv'
<1> SUFFICES ASSUME IInv, [SlNext]_slvars PROVE IInv'
  BY Zenon
<1> USE NobodyAssumption DEF IInv, SlTypeOK, PC, LkHolder, PtableHolder, OwnerHolds,
                             OnlyAsleepSleeps, WakeupComing, Falling, Step
<1>1. ASSUME NEW p \in Proc, acquiresleep(p) PROVE IInv'
  BY <1>1 DEF acquiresleep
<1>2. ASSUME NEW p \in Proc, must_sleep(p) PROVE IInv'
  BY ZenonT(30), <1>2 DEF must_sleep
<1>3. ASSUME NEW p \in Proc, take(p) PROVE IInv'
  BY <1>3 DEF take
<1>4. ASSUME NEW p \in Proc, sleep_ptable(p) PROVE IInv'
  BY <1>4 DEF sleep_ptable
<1>5. ASSUME NEW p \in Proc, sleep_release(p) PROVE IInv'
  BY <1>5 DEF sleep_release
<1>6. ASSUME NEW p \in Proc, sleep_sched(p) PROVE IInv'
  BY <1>6 DEF sleep_sched
<1>7. ASSUME NEW p \in Proc, sleep_resume(p) PROVE IInv'
  BY <1>7 DEF sleep_resume
<1>8. ASSUME NEW p \in Proc, sleep_reacquire(p) PROVE IInv'
  BY <1>8 DEF sleep_reacquire
<1>9. ASSUME NEW p \in Proc, finish(p) PROVE IInv'
  BY <1>9 DEF finish
<1>10. ASSUME NEW p \in Proc, releasesleep(p) PROVE IInv'
  BY ZenonT(30), <1>10 DEF releasesleep
<1>11. ASSUME NEW p \in Proc, wakeup(p) PROVE IInv'
  BY <1>11 DEF wakeup
<1>12. ASSUME NEW p \in Proc, release_lk2(p) PROVE IInv'
  BY <1>12 DEF release_lk2
<1>13. ASSUME NEW p \in Proc, want(p) PROVE IInv'
  BY <1>13 DEF want
<1>14. ASSUME NEW p \in Proc, kill(p) PROVE IInv'
  BY ZenonT(30), <1>14 DEF kill
<1>15. CASE UNCHANGED slvars
  BY Zenon, <1>15 DEF slvars
<1> QED
  BY Zenon, <1>1, <1>2, <1>3, <1>4, <1>5, <1>6, <1>7, <1>8, <1>9, <1>10, <1>11, <1>12, <1>13, <1>14,
     <1>15, Zenon DEF SlNext, Run

\* The invariant holds in every state.
LEMMA InvariantHolds == SlSpec => []IInv
BY InitIInv, NextIInv, PTL DEF SlSpec

\* IInv contains the type invariant of the lock and its processes.
THEOREM TypeCorrect == SlSpec => []SlTypeOK
BY InvariantHolds, PTL DEF IInv

\* At most one process is between acquiresleep() and releasesleep(), and
\* lk->pid names it.
THEOREM HolderOwnsHolds == SlSpec => []HolderOwns
<1>1. IInv => HolderOwns
  BY Zenon, NobodyAssumption DEF IInv, OwnerHolds, HolderOwns, SlTypeOK
<1> QED
  BY <1>1, InvariantHolds, PTL

\* sleep() and wakeup() lose no wakeup.
THEOREM NoLostWakeupHolds == SlSpec => []NoLostWakeup
<1>1. IInv => NoLostWakeup
  BY Zenon DEF IInv, WakeupComing, Falling, NoLostWakeup
<1> QED
  BY <1>1, InvariantHolds, PTL

\* Sleep locks implement a mutex whose owner is lk->pid.
THEOREM SleepLockIsMutex == SlSpec => IsMutex
<1>1. SlInit => M!Init
  BY Zenon DEF SlInit, M!Init
<1>2. IInv /\ [SlNext]_slvars => [M!Next]_owner
  <2> SUFFICES ASSUME IInv, [SlNext]_slvars PROVE [M!Next]_owner
    BY Zenon
  <2> USE DEF IInv, SlTypeOK, OwnerHolds, M!Next, M!Acquire, M!Release
  <2>1. ASSUME NEW p \in Proc, take(p) PROVE M!Acquire(p)
    BY Zenon, <2>1 DEF take
  <2>2. ASSUME NEW p \in Proc, releasesleep(p) PROVE M!Release(p)
    BY Zenon, <2>2 DEF releasesleep, Step
  <2>3. ASSUME NEW p \in Proc, Run(p) \/ want(p) \/ kill(p), ~take(p), ~releasesleep(p)
        PROVE  owner' = owner
    BY Zenon, <2>3 DEF Run, acquiresleep, must_sleep, sleep_ptable, sleep_release, sleep_sched,
                sleep_resume, sleep_reacquire, finish, wakeup, release_lk2, want, kill
  <2>4. CASE UNCHANGED slvars
    BY Zenon, <2>4 DEF slvars
  <2> QED
    BY Zenon, <2>1, <2>2, <2>3, <2>4 DEF SlNext
<1> QED
  BY <1>1, <1>2, InvariantHolds, PTL DEF SlSpec, IsMutex, M!Spec

\* acquiresleep() and releasesleep() hand the lock on and leave nobody asleep.
THEOREM SleepLockSoundHolds == SlSpec => []SleepLockSound
BY TypeCorrect, HolderOwnsHolds, NoLostWakeupHolds, PTL DEF SleepLockSound

-----------------------------------------------------------------------------
Holding == {"wlocked", "wsleep", "rlocked", "rsleep"}
Writing == {"write", "wlocked", "wsleep", "wasleep"}
Reading == {"read", "rlocked", "rsleep", "rasleep"}

\* p->lock is held by the process that is between acquire() and release().
PipeLock == \A p \in PipeProc : ppc[p] \in Holding <=> plock = p

\* A process keeps its end open for as long as its read() or write() lasts.
HasEnd == \A p \in PipeProc : /\ ppc[p] \in Writing => p \in writefd
                              /\ ppc[p] \in Reading => p \in readfd

\* What the test before sleep() has found is still so when sleep() is called:
\* p->lock is held in between.
AboutToSleep ==
  \A p \in PipeProc : /\ ppc[p] = "wsleep" => Full /\ readfd # {}
                      /\ ppc[p] = "rsleep" => nread = nwrite /\ writefd # {}

\* piperead() has copied a byte only while it holds p->lock.
MovedByHolder == moved => \E r \in PipeProc : ppc[r] = "rlocked"

\* Why a sleeper sleeps, also while the lock is held: the writer that has put
\* bytes into the pipe, or the reader that has taken some, has still to call
\* wakeup().
ReadersWait ==
  \A p \in PipeProc : ppc[p] = "rasleep" =>
    /\ writefd # {}
    /\ nread = nwrite \/ pkilled \ {p} # {} \/ \E w \in PipeProc : ppc[w] = "wlocked"
WritersWait ==
  \A p \in PipeProc : ppc[p] = "wasleep" => readfd # {} /\ (Full \/ moved)

\* A piperead() that has copied no byte has all of them still to copy.
StillToRead ==
  \A p \in PipeProc : ppc[p] \in Reading => left[p] > 0 \/ (ppc[p] = "rlocked" /\ moved)

\* The counters are never further apart than the ring is long.
RingBound == Count <= PIPESIZE

\* The inductive invariant.
Waiting == /\ PipeLock /\ HasEnd /\ AboutToSleep /\ MovedByHolder /\ StillToRead
           /\ ReadersWait /\ WritersWait
PipeInv == PipeTypeOK /\ Waiting /\ RingBound

-----------------------------------------------------------------------------
\* Unsigned arithmetic, for "% PIPESIZE" and for the counters that wrap around
\* (pipe.c:93, pipe.c:116).

\* The division p->nwrite % PIPESIZE rests on.
LEMMA ModDiv ==
  ASSUME NEW a \in Nat, NEW P \in Nat \ {0}
  PROVE  \E q \in Nat : a = q * P + (a % P)
<1>1. a = (a \div P) * P + (a % P)
  OBVIOUS
<1>2. a \div P \in Nat
  OBVIOUS
<1> QED BY Zenon, <1>1, <1>2

\* A remainder, from the division.
LEMMA ModIs ==
  ASSUME NEW P \in Nat \ {0}, NEW q \in Nat, NEW r \in 0 .. P - 1
  PROVE  (q * P + r) % P = r
OBVIOUS

\* Bytes less than PIPESIZE apart are in different places of p->data.
LEMMA ModDiffer ==
  ASSUME NEW P \in Nat \ {0}, NEW a \in Nat, NEW k \in 1 .. P - 1
  PROVE  (a + k) % P # a % P
<1> SUFFICES ASSUME (a + k) % P = a % P PROVE FALSE
  BY Zenon
<1>1. PICK q \in Nat : a = q * P + (a % P)
  BY Zenon, ModDiv
<1>2. PICK s \in Nat : a + k = s * P + ((a + k) % P)
  <2>1. a + k \in Nat
    OBVIOUS
  <2> QED BY <2>1, ModDiv, Zenon
<1>3. a % P \in Nat
  OBVIOUS
<1>4. s * P = q * P + k
  BY <1>1, <1>2, <1>3
<1>5. CASE s <= q
  <2>1. s * P <= q * P
    BY <1>5
  <2> QED BY <2>1, <1>4
<1>6. CASE s >= q + 1
  <2>1. s * P >= (q + 1) * P
    BY <1>6
  <2>2. (q + 1) * P = q * P + P
    OBVIOUS
  <2> QED BY <2>1, <2>2, <1>4
<1> QED BY <1>5, <1>6

\* A counter that wraps around goes on in the same place of p->data, because
\* PIPESIZE divides the range of a uint.
LEMMA ModAdd ==
  ASSUME NEW P \in Nat \ {0}, NEW a \in Nat, NEW U \in Nat, U % P = 0
  PROVE  (a + U) % P = a % P
<1>1. PICK q \in Nat : a = q * P + (a % P)
  BY Zenon, ModDiv
<1>2. PICK s \in Nat : U = s * P + (U % P)
  BY Zenon, ModDiv
<1>3. a % P \in 0 .. P - 1
  OBVIOUS
<1>4. a + U = (q + s) * P + (a % P) /\ q + s \in Nat
  BY <1>1, <1>2, <1>3
<1>5. ((q + s) * P + (a % P)) % P = a % P
  BY <1>3, <1>4, ModIs, Zenon
<1> QED BY Zenon, <1>5, <1>4

\* How many bytes are in the pipe, from counters that may have wrapped.
Bytes(r, w) == (w + UInt - r) % UInt

\* The number of bytes is the difference of the counters, on either side of
\* the wrap.
LEMMA BytesIs ==
  ASSUME NEW r \in 0 .. UInt - 1, NEW w \in 0 .. UInt - 1
  PROVE  /\ Bytes(r, w) = IF w >= r THEN w - r ELSE w + UInt - r
         /\ Bytes(r, w) \in 0 .. UInt - 1
<1>1. UInt \in Nat \ {0} /\ w + UInt - r \in 0 .. 2 * UInt - 1
  BY PipeAssumption
<1>2. Bytes(r, w) = IF w + UInt - r < UInt THEN w + UInt - r ELSE w + UInt - r - UInt
  BY <1>1 DEF Bytes
<1> QED BY <1>1, <1>2

\* p->nwrite++ adds a byte (pipe.c:93).
LEMMA BytesWrite ==
  ASSUME NEW r \in 0 .. UInt - 1, NEW w \in 0 .. UInt - 1, Bytes(r, w) < UInt - 1
  PROVE  /\ (w + 1) % UInt \in 0 .. UInt - 1
         /\ Bytes(r, (w + 1) % UInt) = Bytes(r, w) + 1
<1>1. UInt \in Nat \ {0} /\ w + 1 \in 0 .. 2 * UInt - 1
  BY PipeAssumption
<1>2. (w + 1) % UInt = IF w + 1 < UInt THEN w + 1 ELSE w + 1 - UInt
  BY <1>1
<1>3. (w + 1) % UInt \in 0 .. UInt - 1
  BY <1>1, <1>2
<1> DEFINE x == (w + 1) % UInt
<1>4. x = IF w + 1 < UInt THEN w + 1 ELSE w + 1 - UInt
  BY Zenon, <1>2
<1>5. x \in 0 .. UInt - 1
  BY Zenon, <1>3
<1>6. Bytes(r, x) = Bytes(r, w) + 1
  <2> HIDE DEF x
  <2>1. Bytes(r, w) = IF w >= r THEN w - r ELSE w + UInt - r
    BY Zenon, BytesIs
  <2>2. Bytes(r, x) = IF x >= r THEN x - r ELSE x + UInt - r
    BY Zenon, <1>5, BytesIs
  <2> QED BY <2>1, <2>2, <1>4, <1>1
<1> QED BY Zenon, <1>3, <1>6

\* p->nread++ takes one out (pipe.c:116).
LEMMA BytesRead ==
  ASSUME NEW r \in 0 .. UInt - 1, NEW w \in 0 .. UInt - 1, r # w
  PROVE  /\ (r + 1) % UInt \in 0 .. UInt - 1
         /\ Bytes((r + 1) % UInt, w) = Bytes(r, w) - 1
         /\ Bytes(r, w) > 0
<1>1. UInt \in Nat \ {0} /\ r + 1 \in 0 .. 2 * UInt - 1
  BY PipeAssumption
<1> DEFINE x == (r + 1) % UInt
<1>2. x = IF r + 1 < UInt THEN r + 1 ELSE r + 1 - UInt
  BY <1>1
<1>3. x \in 0 .. UInt - 1
  BY <1>1, <1>2
<1> HIDE DEF x
<1>4. Bytes(r, w) = IF w >= r THEN w - r ELSE w + UInt - r
  BY Zenon, BytesIs
<1>5. Bytes(x, w) = IF w >= x THEN w - x ELSE w + UInt - x
  BY Zenon, <1>3, BytesIs
<1>6. Bytes(x, w) = Bytes(r, w) - 1 /\ Bytes(r, w) > 0
  BY <1>1, <1>2, <1>4, <1>5
<1> QED BY Zenon, <1>3, <1>6 DEF x

\* "p->nwrite == p->nread + PIPESIZE" holds of a pipe with PIPESIZE bytes, also
\* when the sum wraps around (pipe.c:85).
LEMMA FullIs ==
  ASSUME NEW r \in 0 .. UInt - 1, NEW w \in 0 .. UInt - 1
  PROVE  w = (r + PIPESIZE) % UInt <=> Bytes(r, w) = PIPESIZE
<1> DEFINE y == r + PIPESIZE
<1>1. UInt \in Nat \ {0} /\ y \in 0 .. 2 * UInt - 1 /\ y = r + PIPESIZE
  BY PipeAssumption
<1> HIDE DEF y
<1>2. y % UInt = IF y < UInt THEN y ELSE y - UInt
  BY <1>1
<1>3. Bytes(r, w) = IF w >= r THEN w - r ELSE w + UInt - r
  BY Zenon, BytesIs
<1>4. y < UInt => (w = y % UInt <=> Bytes(r, w) = PIPESIZE)
  BY <1>1, <1>2, <1>3, PipeAssumption
<1>5. y >= UInt => (w = y % UInt <=> Bytes(r, w) = PIPESIZE)
  BY <1>1, <1>2, <1>3, PipeAssumption
<1>6. w = y % UInt <=> Bytes(r, w) = PIPESIZE
  BY <1>4, <1>5, <1>1
<1> QED BY Zenon, <1>6 DEF y

-----------------------------------------------------------------------------
\* A step keeps the types: the wrapping increments of pipe.c:93 and pipe.c:116
\* stay in the range of a uint.
LEMMA NextPipeType == PipeTypeOK /\ [PipeNext]_pipeVars => PipeTypeOK'
<1> SUFFICES ASSUME PipeTypeOK, [PipeNext]_pipeVars PROVE PipeTypeOK'
  BY Zenon
<1> USE PipeAssumption DEF PipeTypeOK
<1>0. CASE UNCHANGED pipeVars
  BY Zenon, <1>0 DEF pipeVars
<1>1. ASSUME NEW p \in PipeProc, pipe_acquire(p) PROVE PipeTypeOK'
  BY Zenon, <1>1 DEF pipe_acquire, Move, At
<1>2. ASSUME NEW p \in PipeProc, sleep_on_pipe(p) PROVE PipeTypeOK'
  BY Zenon, <1>2 DEF sleep_on_pipe, Move, At
<1>3. ASSUME NEW p \in PipeProc, pipewrite_byte(p) PROVE PipeTypeOK'
  BY <1>3 DEF pipewrite_byte, At
<1>4. ASSUME NEW p \in PipeProc, pipewrite_full(p) PROVE PipeTypeOK'
  BY <1>4 DEF pipewrite_full, At, WakeReaders
<1>5. ASSUME NEW p \in PipeProc, pipewrite_return(p) PROVE PipeTypeOK'
  BY Zenon, <1>5 DEF pipewrite_return, At, WakeReaders
<1>6. ASSUME NEW p \in PipeProc, piperead_empty(p) PROVE PipeTypeOK'
  BY <1>6 DEF piperead_empty, At
<1>7. ASSUME NEW p \in PipeProc, piperead_byte(p) PROVE PipeTypeOK'
  BY <1>7 DEF piperead_byte, At
<1>8. ASSUME NEW p \in PipeProc, piperead_return(p) PROVE PipeTypeOK'
  BY Zenon, <1>8 DEF piperead_return, At, WakeWriters
<1>9. ASSUME NEW p \in PipeProc, call_pipe(p) PROVE PipeTypeOK'
  BY Zenon, <1>9 DEF call_pipe, Move, At
<1>10. ASSUME NEW p \in PipeProc, pipeclose(p) PROVE PipeTypeOK'
  BY Zenon, <1>10 DEF pipeclose, At, WakeReaders, WakeWriters
<1>11. ASSUME NEW p \in PipeProc, pipe_kill(p) PROVE PipeTypeOK'
  BY Zenon, <1>11 DEF pipe_kill, At
<1> QED
  BY Zenon, <1>0, <1>1, <1>2, <1>3, <1>4, <1>5, <1>6, <1>7, <1>8, <1>9, <1>10, <1>11 DEF PipeNext, PipeKernel

\* A step keeps the reasons for which processes sleep: a wakeup() that is due
\* is due from the process that holds p->lock.
LEMMA NextWaiting == PipeTypeOK /\ Waiting /\ [PipeNext]_pipeVars => Waiting'
<1> SUFFICES ASSUME PipeTypeOK, Waiting, [PipeNext]_pipeVars PROVE Waiting'
  BY Zenon
<1> USE PipeAssumption DEF PipeTypeOK, Waiting
<1>0. CASE UNCHANGED pipeVars
  BY Zenon, <1>0 DEF pipeVars, PipeLock, HasEnd, AboutToSleep, MovedByHolder, StillToRead,
              ReadersWait, WritersWait, Full, Holding, Writing, Reading
<1>1. ASSUME NEW p \in PipeProc, pipe_acquire(p) PROVE Waiting'
  <2> USE <1>1 DEF pipe_acquire, Move, At
  <2>1. PipeLock'
    BY Zenon DEF PipeLock, Holding
  <2>2. HasEnd'
    BY Zenon DEF HasEnd, Writing, Reading
  <2>3. AboutToSleep'
    BY Zenon DEF AboutToSleep, Full, PipeLock, Holding
  <2>4. MovedByHolder'
    BY Zenon DEF MovedByHolder, PipeLock, Holding
  <2>5. ReadersWait'
    BY DEF ReadersWait, AboutToSleep, PipeLock, Holding, HasEnd, Reading
  <2>6. WritersWait'
    BY Zenon DEF WritersWait, AboutToSleep, MovedByHolder, PipeLock, Holding, Full
  <2>7. StillToRead'
    BY ZenonT(30) DEF StillToRead, MovedByHolder, PipeLock, Reading, Holding
  <2> QED BY Zenon, <2>1, <2>2, <2>3, <2>4, <2>5, <2>6, <2>7
<1>2. ASSUME NEW p \in PipeProc, sleep_on_pipe(p) PROVE Waiting'
  <2> USE <1>2 DEF sleep_on_pipe, Move, At
  <2>1. PipeLock'
    BY ZenonT(30) DEF PipeLock, Holding
  <2>2. HasEnd'
    BY ZenonT(30) DEF HasEnd, Writing, Reading
  <2>3. AboutToSleep'
    BY Zenon DEF AboutToSleep, Full, PipeLock, Holding
  <2>4. MovedByHolder'
    BY Zenon DEF MovedByHolder, PipeLock, Holding
  <2>5. ReadersWait'
    BY Zenon DEF ReadersWait, AboutToSleep, PipeLock, Holding, HasEnd, Reading
  <2>6. WritersWait'
    BY Zenon DEF WritersWait, AboutToSleep, MovedByHolder, PipeLock, Holding, Full
  <2>7. StillToRead'
    BY ZenonT(30) DEF StillToRead, MovedByHolder, PipeLock, Reading, Holding
  <2> QED BY Zenon, <2>1, <2>2, <2>3, <2>4, <2>5, <2>6, <2>7
<1>3. ASSUME NEW p \in PipeProc, pipewrite_byte(p) PROVE Waiting'
  <2> USE <1>3 DEF pipewrite_byte, At
  <2>1. PipeLock'
    BY Zenon DEF PipeLock, Holding
  <2>2. HasEnd'
    BY Zenon DEF HasEnd, Writing, Reading
  <2>3. AboutToSleep'
    BY Zenon DEF AboutToSleep, Full, PipeLock, Holding
  <2>4. MovedByHolder'
    BY Zenon DEF MovedByHolder, PipeLock, Holding
  <2>5. ReadersWait'
    BY Zenon DEF ReadersWait, AboutToSleep, PipeLock, Holding, HasEnd, Reading
  <2>6. WritersWait'
    BY Zenon DEF WritersWait, AboutToSleep, MovedByHolder, PipeLock, Holding, Full
  <2>7. StillToRead'
    BY Zenon DEF StillToRead, MovedByHolder, PipeLock, Reading, Holding
  <2> QED BY Zenon, <2>1, <2>2, <2>3, <2>4, <2>5, <2>6, <2>7
<1>4. ASSUME NEW p \in PipeProc, pipewrite_full(p) PROVE Waiting'
  <2> USE <1>4 DEF pipewrite_full, At, WakeReaders
  <2>1. PipeLock'
    BY DEF PipeLock, Holding
  <2>2. HasEnd'
    BY DEF HasEnd, Writing, Reading
  <2>3. AboutToSleep'
    BY ZenonT(30) DEF AboutToSleep, Full, PipeLock, Holding
  <2>4. MovedByHolder'
    BY Zenon DEF MovedByHolder, PipeLock, Holding
  <2>5. ReadersWait'
    BY DEF ReadersWait, AboutToSleep, PipeLock, Holding, HasEnd, Reading
  <2>6. WritersWait'
    BY Zenon DEF WritersWait, AboutToSleep, MovedByHolder, PipeLock, Holding, Full
  <2>7. StillToRead'
    BY DEF StillToRead, MovedByHolder, PipeLock, Reading, Holding
  <2> QED BY Zenon, <2>1, <2>2, <2>3, <2>4, <2>5, <2>6, <2>7
<1>5. ASSUME NEW p \in PipeProc, pipewrite_return(p) PROVE Waiting'
  <2> USE <1>5 DEF pipewrite_return, At, WakeReaders
  <2>1. PipeLock'
    BY Zenon DEF PipeLock, Holding
  <2>2. HasEnd'
    BY Zenon DEF HasEnd, Writing, Reading
  <2>3. AboutToSleep'
    BY Zenon DEF AboutToSleep, Full, PipeLock, Holding
  <2>4. MovedByHolder'
    BY Zenon DEF MovedByHolder, PipeLock, Holding
  <2>5. ReadersWait'
    BY Zenon DEF ReadersWait, AboutToSleep, PipeLock, Holding, HasEnd, Reading
  <2>6. WritersWait'
    BY Zenon DEF WritersWait, AboutToSleep, MovedByHolder, PipeLock, Holding, Full
  <2>7. StillToRead'
    BY Zenon DEF StillToRead, MovedByHolder, PipeLock, Reading, Holding
  <2> QED BY Zenon, <2>1, <2>2, <2>3, <2>4, <2>5, <2>6, <2>7
<1>6. ASSUME NEW p \in PipeProc, piperead_empty(p) PROVE Waiting'
  <2> USE <1>6 DEF piperead_empty, At
  <2>1. PipeLock'
    BY ZenonT(30) DEF PipeLock, Holding
  <2>2. HasEnd'
    BY ZenonT(30) DEF HasEnd, Writing, Reading
  <2>3. AboutToSleep'
    BY ZenonT(30) DEF AboutToSleep, Full, PipeLock, Holding
  <2>4. MovedByHolder'
    BY Zenon DEF MovedByHolder, PipeLock, Holding
  <2>5. ReadersWait'
    BY Zenon DEF ReadersWait, AboutToSleep, PipeLock, Holding, HasEnd, Reading
  <2>6. WritersWait'
    BY ZenonT(30) DEF WritersWait, AboutToSleep, MovedByHolder, PipeLock, Holding, Full
  <2>7. StillToRead'
    BY ZenonT(30) DEF StillToRead, MovedByHolder, PipeLock, Reading, Holding
  <2> QED BY Zenon, <2>1, <2>2, <2>3, <2>4, <2>5, <2>6, <2>7
<1>7. ASSUME NEW p \in PipeProc, piperead_byte(p) PROVE Waiting'
  <2> USE <1>7 DEF piperead_byte, At
  <2>1. PipeLock'
    BY Zenon DEF PipeLock, Holding
  <2>2. HasEnd'
    BY Zenon DEF HasEnd, Writing, Reading
  <2>3. AboutToSleep'
    BY Zenon DEF AboutToSleep, Full, PipeLock, Holding
  <2>4. MovedByHolder'
    BY Zenon DEF MovedByHolder, PipeLock, Holding
  <2>5. ReadersWait'
    BY Zenon DEF ReadersWait, AboutToSleep, PipeLock, Holding, HasEnd, Reading
  <2>6. WritersWait'
    BY Zenon DEF WritersWait, AboutToSleep, MovedByHolder, PipeLock, Holding, Full
  <2>7. StillToRead'
    BY Zenon DEF StillToRead, MovedByHolder, PipeLock, Reading, Holding
  <2> QED BY Zenon, <2>1, <2>2, <2>3, <2>4, <2>5, <2>6, <2>7
<1>8. ASSUME NEW p \in PipeProc, piperead_return(p) PROVE Waiting'
  <2> USE <1>8 DEF piperead_return, At, WakeWriters
  <2>1. PipeLock'
    BY Zenon DEF PipeLock, Holding
  <2>2. HasEnd'
    BY Zenon DEF HasEnd, Writing, Reading
  <2>3. AboutToSleep'
    BY Zenon DEF AboutToSleep, Full, PipeLock, Holding
  <2>4. MovedByHolder'
    BY Zenon DEF MovedByHolder, PipeLock, Holding
  <2>5. ReadersWait'
    BY DEF ReadersWait, AboutToSleep, PipeLock, Holding, HasEnd, Reading
  <2>6. WritersWait'
    BY Zenon DEF WritersWait, AboutToSleep, MovedByHolder, PipeLock, Holding, Full
  <2>7. StillToRead'
    BY Zenon DEF StillToRead, MovedByHolder, PipeLock, Reading, Holding
  <2> QED BY Zenon, <2>1, <2>2, <2>3, <2>4, <2>5, <2>6, <2>7
<1>9. ASSUME NEW p \in PipeProc, call_pipe(p) PROVE Waiting'
  <2> USE <1>9 DEF call_pipe, Move, At
  <2>1. PipeLock'
    BY DEF PipeLock, Holding
  <2>2. HasEnd'
    BY DEF HasEnd, Writing, Reading
  <2>3. AboutToSleep'
    BY DEF AboutToSleep, Full, PipeLock, Holding
  <2>4. MovedByHolder'
    BY Zenon DEF MovedByHolder, PipeLock, Holding
  <2>5. ReadersWait'
    BY DEF ReadersWait, AboutToSleep, PipeLock, Holding, HasEnd, Reading
  <2>6. WritersWait'
    BY ZenonT(30) DEF WritersWait, AboutToSleep, MovedByHolder, PipeLock, Holding, Full
  <2>7. StillToRead'
    BY DEF StillToRead, MovedByHolder, PipeLock, Reading, Holding
  <2> QED BY Zenon, <2>1, <2>2, <2>3, <2>4, <2>5, <2>6, <2>7
<1>10. ASSUME NEW p \in PipeProc, pipeclose(p) PROVE Waiting'
  <2> USE <1>10 DEF pipeclose, At, WakeReaders, WakeWriters
  <2>1. PipeLock'
    BY ZenonT(30) DEF PipeLock, Holding
  <2>2. HasEnd'
    BY DEF HasEnd, Writing, Reading
  <2>3. AboutToSleep'
    BY DEF AboutToSleep, Full, PipeLock, Holding
  <2>4. MovedByHolder'
    BY Zenon DEF MovedByHolder, PipeLock, Holding
  <2>5. ReadersWait'
    BY DEF ReadersWait, AboutToSleep, PipeLock, Holding, HasEnd, Reading
  <2>6. WritersWait'
    BY ZenonT(30) DEF WritersWait, AboutToSleep, MovedByHolder, PipeLock, Holding, Full
  <2>7. StillToRead'
    BY DEF StillToRead, MovedByHolder, PipeLock, Reading, Holding
  <2> QED BY Zenon, <2>1, <2>2, <2>3, <2>4, <2>5, <2>6, <2>7
<1>11. ASSUME NEW p \in PipeProc, pipe_kill(p) PROVE Waiting'
  <2> USE <1>11 DEF pipe_kill, At
  <2>1. PipeLock'
    BY Zenon DEF PipeLock, Holding
  <2>2. HasEnd'
    BY Zenon DEF HasEnd, Writing, Reading
  <2>3. AboutToSleep'
    BY Zenon DEF AboutToSleep, Full, PipeLock, Holding
  <2>4. MovedByHolder'
    BY Zenon DEF MovedByHolder, PipeLock, Holding
  <2>5. ReadersWait'
    BY Zenon DEF ReadersWait, AboutToSleep, PipeLock, Holding, HasEnd, Reading
  <2>6. WritersWait'
    BY Zenon DEF WritersWait, AboutToSleep, MovedByHolder, PipeLock, Holding, Full
  <2>7. StillToRead'
    BY Zenon DEF StillToRead, MovedByHolder, PipeLock, Reading, Holding
  <2> QED BY Zenon, <2>1, <2>2, <2>3, <2>4, <2>5, <2>6, <2>7
<1> QED
  BY Zenon, <1>0, <1>1, <1>2, <1>3, <1>4, <1>5, <1>6, <1>7, <1>8, <1>9, <1>10, <1>11 DEF PipeNext, PipeKernel

\* A step that copies no byte changes neither the counters nor p->data.
LEMMA OtherSteps ==
  ASSUME PipeNext
  PROVE  \/ \E p \in PipeProc : pipewrite_byte(p) \/ piperead_byte(p)
         \/ UNCHANGED <<ring, nread, nwrite, lastread>>
BY ZenonT(30) DEF PipeNext, PipeKernel, pipe_acquire, sleep_on_pipe, pipewrite_full, pipewrite_return, piperead_empty, piperead_return, call_pipe, pipeclose, pipe_kill

\* A step keeps the counters within PIPESIZE of each other: pipewrite() tests
\* for a full pipe before every byte.
LEMMA NextBound == PipeTypeOK /\ RingBound /\ [PipeNext]_pipeVars => RingBound'
<1> SUFFICES ASSUME PipeTypeOK, RingBound, [PipeNext]_pipeVars PROVE RingBound'
  BY Zenon
<1>1. nread \in 0 .. UInt - 1 /\ nwrite \in 0 .. UInt - 1
  BY Zenon DEF PipeTypeOK
<1>2. Bytes(nread, nwrite) \in 0 .. PIPESIZE
  BY <1>1, BytesIs, PipeAssumption DEF RingBound, Count, Bytes
<1>3. ASSUME NEW p \in PipeProc, pipewrite_byte(p) PROVE RingBound'
  <2>1. Bytes(nread, nwrite) # PIPESIZE
    BY Zenon, <1>1, <1>3, FullIs DEF pipewrite_byte, Full
  <2>2. Bytes(nread, nwrite') = Bytes(nread, nwrite) + 1
    <3>1. Bytes(nread, nwrite) < UInt - 1
      BY <1>2, <2>1, PipeAssumption
    <3>2. Bytes(nread, (nwrite + 1) % UInt) = Bytes(nread, nwrite) + 1
      BY Zenon, <1>1, <3>1, BytesWrite
    <3> QED BY Zenon, <1>3, <3>2 DEF pipewrite_byte
  <2>3. Bytes(nread, nwrite') <= PIPESIZE
    BY <1>2, <2>1, <2>2, PipeAssumption
  <2> QED BY Zenon, <1>3, <2>3 DEF RingBound, Count, Bytes, pipewrite_byte
<1>4. ASSUME NEW p \in PipeProc, piperead_byte(p) PROVE RingBound'
  <2>1. Bytes(nread', nwrite) = Bytes(nread, nwrite) - 1
    BY Zenon, <1>1, <1>4, BytesRead DEF piperead_byte
  <2>2. Bytes(nread', nwrite) <= PIPESIZE
    BY <1>2, <2>1, PipeAssumption
  <2> QED BY Zenon, <1>4, <2>2 DEF RingBound, Count, Bytes, piperead_byte
<1>5. CASE UNCHANGED <<nread, nwrite>>
  BY Zenon, <1>5 DEF RingBound, Count
<1> QED BY Zenon, <1>3, <1>4, <1>5, OtherSteps DEF pipeVars

\* The invariant holds when pipealloc() has made the pipe.
LEMMA InitPipe == PipeInit => PipeInv
<1> SUFFICES ASSUME PipeInit PROVE PipeInv
  BY Zenon
<1>1. PipeTypeOK
  <2>1. ring \in [0 .. PIPESIZE - 1 -> Byte] /\ lastread \in Byte
    BY Zenon, PipeAssumption DEF PipeInit
  <2>2. readfd \subseteq PipeProc /\ writefd \subseteq PipeProc
    BY Zenon, EndsAssumption DEF PipeInit
  <2>3. nread \in 0 .. UInt - 1 /\ nwrite \in 0 .. UInt - 1
    BY PipeAssumption DEF PipeInit
  <2>4. left \in [PipeProc -> Nat] /\ moved \in BOOLEAN /\ sawEof \in BOOLEAN
    BY Zenon DEF PipeInit
  <2>5. ppc = [p \in PipeProc |-> "idle"] /\ plock = Nobody /\ pkilled = {}
    BY Zenon DEF PipeInit
  <2> QED BY Zenon, <2>1, <2>2, <2>3, <2>4, <2>5 DEF PipeTypeOK
<1>2. Waiting
  BY Zenon, PipeAssumption DEF PipeInit, Waiting, PipeLock, HasEnd, AboutToSleep, MovedByHolder,
     StillToRead, ReadersWait, WritersWait, Holding, Writing, Reading
<1>3. RingBound
  <2>1. Bytes(0, 0) = 0
    BY BytesIs, PipeAssumption
  <2> QED BY <2>1, PipeAssumption DEF PipeInit, RingBound, Count, Bytes
<1> QED BY Zenon, <1>1, <1>2, <1>3 DEF PipeInv

\* The invariant of the pipe holds in every reachable state, whoever reads,
\* writes, closes or is killed (pipe.c:59-121).
THEOREM PipeInvariant == PipeSpec => []PipeInv
<1>1. PipeInv /\ [PipeNext]_pipeVars => PipeInv'
  BY Zenon, NextPipeType, NextWaiting, NextBound DEF PipeInv
<1> QED BY <1>1, InitPipe, PTL DEF PipeSpec

\* No wakeup is lost at either end of the pipe, by kill() or by a close, but the
\* one that a killed writer owes (pipe.c:86): for any processes and sizes.
THEOREM PipeSoundHolds == PipeSpec => []PipeSound
<1>1. PipeInv => PipeSound
  <2> SUFFICES ASSUME PipeInv PROVE PipeSleepers
    BY Zenon DEF PipeInv, PipeSound
  <2>1. plock = Nobody => \A p \in PipeProc : ppc[p] \notin Holding
    BY Zenon, PipeAssumption DEF PipeInv, Waiting, PipeLock
  <2> QED BY Zenon, <2>1 DEF PipeInv, Waiting, ReadersWait, WritersWait, MovedByHolder, Holding,
             PipeSleepers
<1> QED BY <1>1, PipeInvariant, PTL

-----------------------------------------------------------------------------
\* The queue, in terms of p->data and the two counters.
Queue(d, r, w) == [i \in 1 .. Bytes(r, w) |-> d[(r + i - 1) % PIPESIZE]]

\* The next byte goes where the queue ends (pipe.c:93).
LEMMA SlotWrite ==
  ASSUME NEW r \in 0 .. UInt - 1, NEW w \in 0 .. UInt - 1
  PROVE  (r + Bytes(r, w)) % PIPESIZE = w % PIPESIZE
<1>1. Bytes(r, w) = IF w >= r THEN w - r ELSE w + UInt - r
  BY Zenon, BytesIs
<1>2. w \in Nat /\ UInt \in Nat /\ PIPESIZE \in Nat \ {0} /\ UInt % PIPESIZE = 0
  BY PipeAssumption
<1>3. (w + UInt) % PIPESIZE = w % PIPESIZE
  BY Zenon, <1>2, ModAdd
<1>4. r + Bytes(r, w) = w \/ r + Bytes(r, w) = w + UInt
  BY <1>1, <1>2
<1> QED BY Zenon, <1>3, <1>4

\* It overwrites no byte of the queue.
LEMMA SlotApart ==
  ASSUME NEW r \in 0 .. UInt - 1, NEW w \in 0 .. UInt - 1, Bytes(r, w) < PIPESIZE,
         NEW i \in 1 .. Bytes(r, w)
  PROVE  (r + i - 1) % PIPESIZE # w % PIPESIZE
<1> DEFINE a == r + i - 1
           k == Bytes(r, w) - i + 1
<1>1. Bytes(r, w) \in Nat /\ PIPESIZE \in Nat \ {0}
  BY BytesIs, PipeAssumption
<1>2. a \in Nat /\ k \in 1 .. PIPESIZE - 1 /\ a + k = r + Bytes(r, w)
  BY <1>1
<1> HIDE DEF a, k
<1>3. (a + k) % PIPESIZE # a % PIPESIZE
  BY Zenon, <1>1, <1>2, ModDiffer
<1> QED BY Zenon, <1>2, <1>3, SlotWrite DEF a

\* When p->nread wraps around, the rest of the queue stays where it is.
LEMMA SlotRead ==
  ASSUME NEW r \in 0 .. UInt - 1, NEW i \in Nat
  PROVE  (((r + 1) % UInt) + i) % PIPESIZE = (r + 1 + i) % PIPESIZE
<1> DEFINE x == (r + 1) % UInt
<1>1. UInt \in Nat \ {0} /\ PIPESIZE \in Nat \ {0} /\ UInt % PIPESIZE = 0
  BY PipeAssumption
<1>2. x \in Nat /\ (x = r + 1 \/ x + UInt = r + 1)
  BY <1>1
<1> HIDE DEF x
<1>3. x + i \in Nat /\ (x + i = r + 1 + i \/ x + i + UInt = r + 1 + i)
  BY <1>1, <1>2
<1>4. (x + i + UInt) % PIPESIZE = (x + i) % PIPESIZE
  BY Zenon, <1>1, <1>3, ModAdd
<1>5. (x + i) % PIPESIZE = (r + 1 + i) % PIPESIZE
  BY Zenon, <1>3, <1>4
<1> QED BY Zenon, <1>5 DEF x

\* pipewrite() appends to the queue (pipe.c:93).
LEMMA QueueWrite ==
  ASSUME NEW d \in [0 .. PIPESIZE - 1 -> Byte], NEW b \in Byte,
         NEW r \in 0 .. UInt - 1, NEW w \in 0 .. UInt - 1, Bytes(r, w) < PIPESIZE
  PROVE  /\ Len(Queue(d, r, w)) = Bytes(r, w)
         /\ Queue([d EXCEPT ![w % PIPESIZE] = b], r, (w + 1) % UInt)
              = Append(Queue(d, r, w), b)
<1> DEFINE n == Bytes(r, w)
           e == [d EXCEPT ![w % PIPESIZE] = b]
           q == Queue(d, r, w)
<1>1. n \in Nat /\ PIPESIZE \in Nat \ {0}
  BY BytesIs, PipeAssumption
<1>2. Bytes(r, (w + 1) % UInt) = n + 1
  BY <1>1, BytesWrite, PipeAssumption
<1>3. \A i \in 1 .. n + 1 : (r + i - 1) % PIPESIZE \in 0 .. PIPESIZE - 1
  BY <1>1
<1>4. q \in Seq(Byte) /\ Len(q) = n
  BY <1>1, <1>3 DEF Queue
<1>5. \A i \in 1 .. n : e[(r + i - 1) % PIPESIZE] = d[(r + i - 1) % PIPESIZE]
  BY <1>1, <1>3, SlotApart
<1>6. w % PIPESIZE \in 0 .. PIPESIZE - 1 /\ e[(r + n) % PIPESIZE] = b
  BY <1>1, SlotWrite
<1>7. Queue(e, r, (w + 1) % UInt) = [i \in 1 .. n + 1 |-> e[(r + i - 1) % PIPESIZE]]
  BY Zenon, <1>2 DEF Queue
<1>8. Append(q, b) = [i \in 1 .. n + 1 |-> IF i = n + 1 THEN b ELSE q[i]]
  BY <1>1, <1>4
<1>9. \A i \in 1 .. n + 1 : e[(r + i - 1) % PIPESIZE] = IF i = n + 1 THEN b ELSE q[i]
  <2> SUFFICES ASSUME NEW i \in 1 .. n + 1
               PROVE  e[(r + i - 1) % PIPESIZE] = IF i = n + 1 THEN b ELSE q[i]
    BY Zenon
  <2>1. CASE i = n + 1
    <3>1. r + i - 1 = r + n
      BY <1>1, <2>1
    <3> QED BY Zenon, <1>6, <2>1, <3>1
  <2>2. CASE i # n + 1
    <3>1. i \in 1 .. n
      BY <1>1, <2>2
    <3>2. q[i] = d[(r + i - 1) % PIPESIZE]
      BY Zenon, <3>1 DEF Queue
    <3> QED BY Zenon, <1>5, <2>2, <3>1, <3>2
  <2> QED BY Zenon, <2>1, <2>2
<1> QED BY Zenon, <1>4, <1>7, <1>8, <1>9

\* piperead() takes the first byte of the queue (pipe.c:116).
LEMMA QueueRead ==
  ASSUME NEW d \in [0 .. PIPESIZE - 1 -> Byte],
         NEW r \in 0 .. UInt - 1, NEW w \in 0 .. UInt - 1, r # w
  PROVE  /\ Queue(d, r, w) # << >>
         /\ d[r % PIPESIZE] = Head(Queue(d, r, w))
         /\ Queue(d, (r + 1) % UInt, w) = Tail(Queue(d, r, w))
<1> DEFINE n == Bytes(r, w)
           q == Queue(d, r, w)
           x == (r + 1) % UInt
<1>1. n \in Nat \ {0} /\ PIPESIZE \in Nat \ {0} /\ Bytes(x, w) = n - 1 /\ x \in Nat
  <2>1. n \in 0 .. UInt - 1
    BY Zenon, BytesIs
  <2>2. x \in 0 .. UInt - 1 /\ Bytes(x, w) = n - 1 /\ n > 0
    BY Zenon, BytesRead
  <2> QED BY <2>1, <2>2, PipeAssumption
<1>2. \A i \in 1 .. n : (r + i - 1) % PIPESIZE \in 0 .. PIPESIZE - 1
  BY <1>1
<1>3. q \in Seq(Byte) /\ Len(q) = n
  BY <1>1, <1>2 DEF Queue
<1>4. q # << >> /\ Head(q) = q[1] /\ Tail(q) = [i \in 1 .. n - 1 |-> q[i + 1]]
  BY <1>1, <1>3, SMTT(30)
<1>5. Queue(d, x, w) = [i \in 1 .. n - 1 |-> d[(x + i - 1) % PIPESIZE]]
  BY Zenon, <1>1 DEF Queue
<1>6. \A i \in 1 .. n - 1 : (x + i - 1) % PIPESIZE = (r + (i + 1) - 1) % PIPESIZE
  <2> SUFFICES ASSUME NEW i \in 1 .. n - 1
               PROVE  (x + i - 1) % PIPESIZE = (r + (i + 1) - 1) % PIPESIZE
    BY Zenon
  <2>1. i - 1 \in Nat
    OBVIOUS
  <2>2. (x + (i - 1)) % PIPESIZE = (r + 1 + (i - 1)) % PIPESIZE
    BY Zenon, <2>1, SlotRead
  <2>3. x + (i - 1) = x + i - 1 /\ r + 1 + (i - 1) = r + (i + 1) - 1
    BY <1>1
  <2> QED BY Zenon, <2>2, <2>3
<1>7. \A i \in 1 .. n - 1 : i + 1 \in 1 .. n /\ q[i + 1] = d[(r + (i + 1) - 1) % PIPESIZE]
  BY <1>1 DEF Queue
<1>8. Queue(d, x, w) = Tail(q)
  <2>1. \A i \in 1 .. n - 1 : d[(x + i - 1) % PIPESIZE] = q[i + 1]
    BY <1>6, <1>7, Zenon
  <2> HIDE DEF n, q, x
  <2> QED BY Zenon, <1>4, <1>5, <2>1
<1>9. d[r % PIPESIZE] = q[1]
  BY <1>1 DEF Queue
<1> QED BY Zenon, <1>4, <1>8, <1>9

\* The queue that the refinement mapping of PipeIsFifo names.
LEMMA QueueIs ==
  /\ [i \in 1 .. Count |-> ring[(nread + i - 1) % PIPESIZE]] = Queue(ring, nread, nwrite)
  /\ [i \in 1 .. Count' |-> ring'[(nread' + i - 1) % PIPESIZE]] = Queue(ring', nread', nwrite')
BY Zenon DEF Queue, Bytes, Count

\* Every step of the pipe is a step of the queue, or leaves it alone.
LEMMA StepIsFifo ==
  ASSUME PipeInv, PipeNext
  PROVE  [Fifo!Next]_(Fifo!vars)
<1> DEFINE q == Queue(ring, nread, nwrite)
           qn == Queue(ring', nread', nwrite')
<1>1. /\ ring \in [0 .. PIPESIZE - 1 -> Byte]
      /\ nread \in 0 .. UInt - 1 /\ nwrite \in 0 .. UInt - 1
  BY Zenon DEF PipeInv, PipeTypeOK
<1>2. ASSUME NEW p \in PipeProc, pipewrite_byte(p) PROVE Fifo!Write
  <2>1. PICK b \in Byte : ring' = [ring EXCEPT ![nwrite % PIPESIZE] = b]
    BY Zenon, <1>2 DEF pipewrite_byte
  <2>2. Bytes(nread, nwrite) < PIPESIZE
    <3>1. Bytes(nread, nwrite) # PIPESIZE
      BY Zenon, <1>1, <1>2, FullIs DEF pipewrite_byte, Full
    <3>2. Bytes(nread, nwrite) <= PIPESIZE /\ Bytes(nread, nwrite) \in 0 .. UInt - 1
      BY Zenon, <1>1, BytesIs DEF PipeInv, RingBound, Count, Bytes
    <3> QED BY <3>1, <3>2, PipeAssumption
  <2>3. Len(q) < PIPESIZE /\ qn = Append(q, b)
    BY Zenon, <1>1, <1>2, <2>1, <2>2, QueueWrite DEF pipewrite_byte
  <2>4. writefd # {} /\ UNCHANGED <<writefd, lastread, sawEof>>
    BY Zenon, <1>2 DEF pipewrite_byte, At, PipeInv, Waiting, HasEnd, Writing
  <2> QED BY Zenon, <2>3, <2>4, QueueIs DEF Fifo!Write
<1>3. ASSUME NEW p \in PipeProc, piperead_byte(p) PROVE Fifo!Read
  <2>1. q # << >> /\ lastread' = Head(q) /\ qn = Tail(q)
    BY Zenon, <1>1, <1>3, QueueRead DEF piperead_byte
  <2>2. UNCHANGED <<writefd, sawEof>>
    BY Zenon, <1>3 DEF piperead_byte
  <2> QED BY Zenon, <2>1, <2>2, QueueIs DEF Fifo!Read
<1>4. ASSUME NEW p \in PipeProc, piperead_return(p) PROVE [Fifo!Next]_(Fifo!vars)
  <2>1. qn = q /\ UNCHANGED <<writefd, lastread>>
    BY Zenon, <1>4 DEF piperead_return
  <2>2. CASE moved
    BY Zenon, <1>4, <2>1, <2>2, QueueIs DEF piperead_return, Fifo!vars, PipeInv, PipeTypeOK
  <2>3. CASE ~moved
    <3>1. left[p] > 0
      BY Zenon, <1>4, <2>3 DEF piperead_return, At, PipeInv, Waiting, StillToRead, Reading
    <3>2. nread = nwrite /\ writefd = {} /\ sawEof' = TRUE
      <4>1. left[p] # 0
        BY <3>1
      <4>2. nread = nwrite /\ writefd = {}
        BY Zenon, <1>4, <2>3, <4>1 DEF piperead_return
      <4>3. sawEof' = TRUE
        BY <1>4, <2>3, Zenon DEF piperead_return
      <4> QED BY Zenon, <4>2, <4>3
    <3>3. Bytes(nread, nwrite) = 0
      BY <1>1, <3>2, BytesIs
    <3>4. q = << >>
      BY <3>3 DEF Queue
    <3>5. Fifo!Eof
      BY Zenon, <2>1, <3>2, <3>4, QueueIs DEF Fifo!Eof
    <3> QED BY Zenon, <3>5 DEF Fifo!Next
  <2> QED BY Zenon, <2>2, <2>3 DEF PipeInv, PipeTypeOK
<1>5. ASSUME NEW p \in PipeProc, pipeclose(p) PROVE [Fifo!Next]_(Fifo!vars)
  <2>1. qn = q /\ UNCHANGED <<lastread, sawEof>>
    BY Zenon, <1>5 DEF pipeclose
  <2>2. CASE writefd # {} /\ writefd' = {}
    <3>1. Fifo!Close
      BY Zenon, <2>1, <2>2, QueueIs DEF Fifo!Close
    <3> QED BY Zenon, <3>1 DEF Fifo!Next
  <2>3. CASE (writefd # {}) = (writefd' # {})
    BY Zenon, <2>1, <2>3, QueueIs DEF Fifo!vars
  <2> QED BY Zenon, <1>5, <2>2, <2>3 DEF pipeclose
<1>6. ASSUME UNCHANGED <<ring, nread, nwrite, writefd, lastread, sawEof>>
      PROVE  UNCHANGED Fifo!vars
  BY Zenon, <1>6 DEF Fifo!vars, Count
<1>7. \/ \E p \in PipeProc : pipewrite_byte(p) \/ piperead_byte(p)
      \/ \E p \in PipeProc : piperead_return(p) \/ pipeclose(p)
      \/ UNCHANGED <<ring, nread, nwrite, writefd, lastread, sawEof>>
  BY DEF PipeNext, PipeKernel, pipe_acquire, sleep_on_pipe, pipewrite_full,
         pipewrite_return, piperead_empty, call_pipe, pipe_kill
<1> QED BY Zenon, <1>2, <1>3, <1>4, <1>5, <1>6, <1>7 DEF Fifo!Next

\* A pipe is a first-in first-out queue of at most PIPESIZE bytes, whatever the
\* number of readers and writers, across the wrap of the counters and of the
\* ring, and with kills and closes at any point; a reader is told of the end of
\* the file only when the queue is empty and the write end closed.
THEOREM PipeIsFifoHolds == PipeSpec => PipeIsFifo
<1>1. PipeInit => Fifo!Init
  <2> SUFFICES ASSUME PipeInit PROVE Fifo!Init
    BY Zenon
  <2>1. Bytes(nread, nwrite) = 0 /\ lastread \in Byte
    BY InitPipe, BytesIs, PipeAssumption DEF PipeInv, PipeTypeOK, PipeInit
  <2>2. Queue(ring, nread, nwrite) = << >>
    BY <2>1 DEF Queue
  <2>3. writefd # {} /\ sawEof = FALSE
    BY Zenon, EndsAssumption DEF PipeInit
  <2> QED BY Zenon, <2>1, <2>2, <2>3, QueueIs DEF Fifo!Init
<1>2. PipeInv /\ PipeNext => [Fifo!Next]_(Fifo!vars)
  BY Zenon, StepIsFifo
<1>3. UNCHANGED pipeVars => UNCHANGED Fifo!vars
  BY Zenon DEF pipeVars, Fifo!vars, Count
<1> QED BY <1>1, <1>2, <1>3, PipeInvariant, PTL DEF PipeSpec, PipeIsFifo, Fifo!Spec
=============================================================================
