----------------------------- MODULE LogProofs -----------------------------
(***************************************************************************)
(* For any number of processes, blocks, log sizes and power failures: what *)
(* begin_op() reserves is enough, log_write() never finds the log full, and *)
(* the log is atomic and durable.  The first part says who is where: who is *)
(* in a system call, who commits, who has a buffer locked.  The second     *)
(* counts the blocks, the third follows their contents.                    *)
(***************************************************************************)
EXTENDS Log, FiniteSetTheorems, TLAPS

\* The processes between begin_op() and end_op().
Active == {p \in Proc : InOp(p)}

\* The process inside commit().
Committer(p) == pc[p] \in {"write_log", "install", "done"}

\* outstanding counts the calls that are in, and commit() runs alone, in the
\* process that found it to be zero.
Counted == /\ outstanding = Cardinality(Active)
           /\ committing <=> \E p \in Proc : Committer(p)
           /\ committing => outstanding = 0
           /\ \A p, q \in Proc : Committer(p) /\ Committer(q) => p = q

\* Nothing runs before recover_from_log() is over.
BootAlone == boot # "up" => ~panic /\ \A p \in Proc : pc[p] = "idle"

\* A buffer is locked by one process, from the change to the end of
\* log_write(), and that process has counted the block as its own.
Locked ==
  /\ \A p \in Proc : pc[p] = "log_write" => buf[p] \in wrote[p]
  /\ \A p \in Proc : pc[p] # "log_write" => buf[p] = NoBlock
  /\ \A p, q \in Proc : buf[p] = buf[q] /\ p # q => buf[p] = NoBlock

\* What a call has written it has written within its bound.
Bounded == \A p \in Proc : /\ IsFiniteSet(wrote[p])
                           /\ Cardinality(wrote[p]) <= opblocks
                           /\ ~InOp(p) => wrote[p] = {}

\* When nobody is in and nobody commits the log is empty.
Drained == /\ (boot = "up" /\ outstanding = 0 /\ ~committing) => lh = << >>
           /\ boot = "read_head" => lh = << >>
           /\ \A p \in Proc : pc[p] = "done" => lh = << >>

Structure == Counted /\ BootAlone /\ Locked /\ Bounded /\ Drained

-----------------------------------------------------------------------------
\* The blocks of a call that are in the log.
Spent(p) == {b \in wrote[p] : Logged(b)}

\* What is left of the reservations: a ticket for every block a call in
\* progress may still add to the log.
Reserve == {r \in Active \X (1 .. MAXOPBLOCKS) : r[2] > Cardinality(Spent(r[1]))}

\* The log and what is reserved fit in the header.
Reserved == Len(lh) + Cardinality(Reserve) <= LOGSIZE /\ Len(hd) <= LOGSIZE

\* With calls that use less than they reserve there is slack: a ticket nobody
\* will use, given back by a call that has ended or kept by two that have not;
\* a call alone since the last commit is the only one to have filled the log.
Slack == opblocks < MAXOPBLOCKS =>
  /\ ~panic
  /\ Len(lh) <= LOGSIZE - 1 /\ Len(hd) <= LOGSIZE - 1
  /\ \/ Len(lh) + Cardinality(Reserve) <= LOGSIZE - 1
     \/ \A p \in Active : \E q \in Active : p # q
     \/ \A p \in Active : Len(lh) <= Cardinality(Spent(p))

\* The inductive invariant of the space argument.
SpaceInv == TypeOK /\ Structure /\ Reserved /\ Slack

-----------------------------------------------------------------------------
\* The calls in progress, and the tickets they could hold, are finitely many.
LEMMA Finite == /\ IsFiniteSet(Active) /\ Cardinality(Active) \in Nat
                /\ IsFiniteSet(Active \X (1 .. MAXOPBLOCKS))
                /\ Cardinality(Active \X (1 .. MAXOPBLOCKS)) = Cardinality(Active) * MAXOPBLOCKS
<1>1. IsFiniteSet(Active)
  BY Zenon, ProcAssumption, FS_Subset DEF Active
<1>2. Cardinality(Active) \in Nat
  BY Zenon, <1>1, FS_CardinalityType
<1>3. IsFiniteSet(1 .. MAXOPBLOCKS) /\ Cardinality(1 .. MAXOPBLOCKS) = MAXOPBLOCKS
  BY SizeAssumption, FS_Interval
<1> QED
  BY Zenon, <1>1, <1>2, <1>3, FS_Product

\* The tickets are finitely many, and no more than all the calls may use.
ReserveFits == /\ IsFiniteSet(Reserve) /\ Cardinality(Reserve) \in Nat
               /\ Cardinality(Reserve) <= Cardinality(Active) * MAXOPBLOCKS
\* They are: a call has at most MAXOPBLOCKS of them (log.c:132).
LEMMA ReserveFinite == ReserveFits
BY Finite, FS_Subset, FS_CardinalityType DEF Reserve, ReserveFits

\* Whoever is in a system call is counted.
LEMMA InIsCounted == Counted => \A p \in Proc : InOp(p) => outstanding \in Nat \ {0} /\ ~committing
<1> SUFFICES ASSUME Counted, NEW p \in Proc, InOp(p) PROVE outstanding \in Nat \ {0} /\ ~committing
  BY Zenon
<1>1. Active # {}
  BY Zenon DEF Active
<1>2. Cardinality(Active) # 0
  BY Zenon, <1>1, Finite, FS_EmptySet
<1> QED
  BY Zenon, <1>2, Finite DEF Counted

\* TypeOK is preserved.
LEMMA NextType == SpaceInv /\ Next => TypeOK'
<1> SUFFICES ASSUME SpaceInv, Next PROVE TypeOK'
  BY Zenon
<1>0. UNCHANGED opblocks /\ Len(lh) <= LOGSIZE
  BY ReserveFinite, SizeAssumption DEF ReserveFits, Next, SpaceInv, Reserved, TypeOK
<1>1. ASSUME NEW p \in Proc, Call(p) PROVE TypeOK'
  BY Zenon, <1>1, <1>0, SizeAssumption DEF Call, SpaceInv, TypeOK, disk, log, ProcPC, BootPC
<1>2. ASSUME NEW p \in Proc, begin_op_sleep(p) PROVE TypeOK'
  BY Zenon, <1>2, <1>0, SizeAssumption DEF begin_op_sleep, SpaceInv, TypeOK, disk, log, ProcPC, BootPC
<1>3. ASSUME NEW p \in Proc, begin_op(p) PROVE TypeOK'
  BY <1>3, <1>0, SizeAssumption DEF begin_op, SpaceInv, TypeOK, disk, log, ProcPC, BootPC
<1>4. ASSUME NEW p \in Proc, bread(p) PROVE TypeOK'
  BY Zenon, <1>4, <1>0, SizeAssumption DEF bread, SpaceInv, TypeOK, disk, log, ProcPC, BootPC
<1>5. ASSUME NEW p \in Proc, NEW b \in Block, NEW v \in Val, modify(p, b, v) PROVE TypeOK'
  BY Zenon, <1>5, <1>0, SizeAssumption DEF modify, SpaceInv, TypeOK, disk, log, ProcPC, BootPC
<1>6. ASSUME NEW p \in Proc, log_write(p) PROVE TypeOK'
  <2>1. buf[p] \in Block
    BY Zenon, <1>6 DEF log_write, SpaceInv, Structure, Locked, TypeOK
  <2>2. lh' \in Seq(Block)
    BY <1>6, <2>1 DEF log_write, SpaceInv, TypeOK
  <2> QED
    BY Zenon, <1>6, <2>1, <2>2, <1>0 DEF log_write, SpaceInv, TypeOK, disk, log, ProcPC, BootPC
<1>7. ASSUME NEW p \in Proc, end_op(p) PROVE TypeOK'
  <2>1. outstanding' \in Nat
    BY <1>7, InIsCounted, SizeAssumption DEF end_op, SpaceInv, Structure, TypeOK, InOp
  <2>2. pc' \in [Proc -> ProcPC]
    BY Zenon, <1>7 DEF end_op, Awake, SpaceInv, TypeOK, ProcPC
  <2>3. committing' \in BOOLEAN /\ panic' \in BOOLEAN
    BY Zenon, <1>7 DEF end_op, SpaceInv, TypeOK
  <2> QED
    BY Zenon, <1>7, <2>1, <2>2, <2>3, <1>0 DEF end_op, SpaceInv, TypeOK, disk, log
<1>8. ASSUME NEW p \in Proc, write_log(p) PROVE TypeOK'
  <2>1. lh[tail] \in Block
    BY <1>8 DEF write_log, SpaceInv, TypeOK
  <2>2. Read(lh[tail]) \in Val
    BY Zenon, <2>1 DEF Read, SpaceInv, TypeOK
  <2>3. logd' \in [1 .. LOGSIZE -> Val]
    BY Zenon, <1>8, <2>2 DEF write_log, SpaceInv, TypeOK
  <2>4. tail' \in Nat \ {0}
    BY <1>8 DEF write_log, SpaceInv, TypeOK
  <2> QED
    BY Zenon, <1>8, <2>3, <2>4, <1>0 DEF write_log, SpaceInv, TypeOK, disk, log
<1>9. ASSUME NEW p \in Proc, write_head(p) PROVE TypeOK'
  BY <1>9, <1>0, SizeAssumption DEF write_head, SpaceInv, TypeOK, disk, log, ProcPC, BootPC
<1>10. ASSUME NEW p \in Proc, install_trans(p) PROVE TypeOK'
  <2>1. lh[tail] \in Block /\ logd[tail] \in Val
    BY <1>10, <1>0, SizeAssumption DEF install_trans, InstallBlock, SpaceInv, TypeOK
  <2> QED
    BY <1>10, <2>1, <1>0 DEF install_trans, InstallBlock, SpaceInv, TypeOK, disk, log
<1>11. ASSUME NEW p \in Proc, erase_head(p) PROVE TypeOK'
  BY <1>11, <1>0, SizeAssumption DEF erase_head, ClearLog, SpaceInv, TypeOK, disk, log, ProcPC, BootPC
<1>12. ASSUME NEW p \in Proc, commit_done(p) PROVE TypeOK'
  BY Zenon, <1>12, <1>0, SizeAssumption DEF commit_done, Awake, SpaceInv, TypeOK, disk, log, ProcPC, BootPC
<1>13. ASSUME bget_recycle PROVE TypeOK'
  BY Zenon, <1>13, <1>0, SizeAssumption DEF bget_recycle, SpaceInv, TypeOK, disk, log, ProcPC, BootPC
<1>14. ASSUME read_head PROVE TypeOK'
  BY Zenon, <1>14, <1>0, SizeAssumption DEF read_head, SpaceInv, TypeOK, disk, log, ProcPC, BootPC
<1>15. ASSUME recover_install PROVE TypeOK'
  <2>1. lh[tail] \in Block /\ logd[tail] \in Val
    BY <1>15, <1>0, SizeAssumption DEF recover_install, InstallBlock, SpaceInv, TypeOK
  <2> QED
    BY <1>15, <2>1, <1>0 DEF recover_install, InstallBlock, SpaceInv, TypeOK, disk, log
<1>16. ASSUME recover_clear PROVE TypeOK'
  BY <1>16, <1>0, SizeAssumption DEF recover_clear, ClearLog, SpaceInv, TypeOK, disk, log, ProcPC, BootPC
<1>17. ASSUME crash PROVE TypeOK'
  <2>1. crashes' \in 0 .. MaxCrashes
    BY <1>17, SizeAssumption DEF crash, SpaceInv, TypeOK
  <2>2. pc' \in [Proc -> ProcPC] /\ buf' \in [Proc -> Block \cup {NoBlock}]
    BY Zenon, <1>17 DEF crash, ProcPC
  <2>3. cache' \in [Block -> Val \cup {NoBuf}] /\ wrote' \in [Proc -> SUBSET Block]
    BY Zenon, <1>17 DEF crash
  <2>4. UNCHANGED <<home, logd, hd>> /\ lh' \in Seq(Block)
    BY <1>17 DEF crash, disk
  <2>5. tail' \in Nat \ {0} /\ boot' \in BootPC /\ outstanding' \in Nat
    BY <1>17 DEF crash, BootPC
  <2> QED
    BY Zenon, <1>17, <2>1, <2>2, <2>3, <2>4, <2>5, <1>0 DEF crash, SpaceInv, TypeOK
<1> QED
  BY <1>1, <1>2, <1>3, <1>4, <1>5, <1>6, <1>7, <1>8, <1>9,
     <1>10, <1>11, <1>12, <1>13, <1>14, <1>15, <1>16, <1>17 DEF Next, Commit, Recover

\* outstanding counts the calls, and commit() runs alone.
LEMMA NextCounted == SpaceInv /\ Next => (Counted /\ BootAlone)'
<1> SUFFICES ASSUME SpaceInv, Next PROVE (Counted /\ BootAlone)'
  BY Zenon
<1>0. TypeOK /\ Counted /\ BootAlone /\ pc \in [Proc -> ProcPC]
  BY Zenon DEF SpaceInv, Structure, TypeOK
<1>1. ASSUME NEW p \in Proc, Call(p) PROVE (Counted /\ BootAlone)'
  <2>1. Active' = Active /\ \A q \in Proc : Committer(q)' = Committer(q)
    BY <1>1, <1>0 DEF Call, Active, InOp, Committer, disk, log
  <2> QED
    BY Zenon, <1>1, <2>1, <1>0 DEF Call, Up, Counted, BootAlone, disk, log
<1>2. ASSUME NEW p \in Proc, begin_op_sleep(p) PROVE (Counted /\ BootAlone)'
  <2>1. Active' = Active /\ \A q \in Proc : Committer(q)' = Committer(q)
    BY <1>2, <1>0 DEF begin_op_sleep, Active, InOp, Committer, disk, log
  <2> QED
    BY Zenon, <1>2, <2>1, <1>0 DEF begin_op_sleep, Up, Counted, BootAlone, disk, log
<1>3. ASSUME NEW p \in Proc, begin_op(p) PROVE (Counted /\ BootAlone)'
  <2>1. Active' = Active \cup {p} /\ p \notin Active
    BY Zenon, <1>3, <1>0 DEF begin_op, Active, InOp
  <2>2. Cardinality(Active') = Cardinality(Active) + 1
    BY Zenon, <2>1, Finite, FS_AddElement
  <2>3. ~committing /\ committing' = committing /\ \A q \in Proc : Committer(q)' = Committer(q)
    BY <1>3, <1>0 DEF begin_op, MustWait, Committer
  <2> QED
    BY <1>3, <2>2, <2>3, <1>0 DEF begin_op, Counted, BootAlone, Up
<1>4. ASSUME NEW p \in Proc, bread(p) PROVE (Counted /\ BootAlone)'
  <2>1. Active' = Active /\ \A q \in Proc : Committer(q)' = Committer(q)
    BY Zenon, <1>4, <1>0 DEF bread, Active, InOp, Committer, disk, log
  <2> QED
    BY Zenon, <1>4, <2>1, <1>0 DEF bread, Counted, BootAlone, disk, log
<1>5. ASSUME NEW p \in Proc, NEW b \in Block, NEW v \in Val, modify(p, b, v) PROVE (Counted /\ BootAlone)'
  <2>1. Active' = Active /\ \A q \in Proc : Committer(q)' = Committer(q)
    BY <1>5, <1>0 DEF modify, Active, InOp, Committer, disk, log
  <2> QED
    BY Zenon, <1>5, <2>1, <1>0 DEF modify, Counted, BootAlone, disk, log
<1>6. ASSUME NEW p \in Proc, log_write(p) PROVE (Counted /\ BootAlone)'
  <2>1. Active' = Active /\ \A q \in Proc : Committer(q)' = Committer(q)
    BY <1>6, <1>0 DEF log_write, Active, InOp, Committer, disk, log
  <2> QED
    BY Zenon, <1>6, <2>1, <1>0 DEF log_write, Counted, BootAlone, disk, log
<1>7. ASSUME NEW p \in Proc, end_op(p) PROVE (Counted /\ BootAlone)'
  <2>1. Active' = Active \ {p} /\ p \in Active
    BY Zenon, <1>7, <1>0 DEF end_op, Awake, Active, InOp
  <2>2. Cardinality(Active') = Cardinality(Active) - 1
    BY Zenon, <2>1, Finite, FS_RemoveElement
  <2>3. ~committing /\ \A q \in Proc : ~Committer(q)
    BY Zenon, <1>7, <1>0, InIsCounted DEF end_op, InOp, Counted
  <2>4. \A q \in Proc \ {p} : ~Committer(q)'
    BY Zenon, <1>7, <2>3, <1>0 DEF end_op, Awake, Committer
  <2>5. committing' <=> Committer(p)'
    BY Zenon, <1>7, <2>3, <1>0 DEF end_op, Awake, Committer
  <2>6. outstanding' = Cardinality(Active')
    BY Zenon, <1>7, <2>2, <1>0 DEF end_op, Counted
  <2>7. committing' => outstanding' = 0
    BY Zenon, <1>7, <2>3 DEF end_op
  <2> QED
    BY <1>7, <2>4, <2>5, <2>6, <2>7, <1>0 DEF end_op, Counted, BootAlone, Up
<1>8. ASSUME NEW p \in Proc, write_log(p) PROVE (Counted /\ BootAlone)'
  <2>1. Active' = Active /\ \A q \in Proc : Committer(q)' = Committer(q)
    BY Zenon, <1>8, <1>0 DEF write_log, Active, InOp, Committer, disk, log
  <2> QED
    BY Zenon, <1>8, <2>1, <1>0 DEF write_log, Counted, BootAlone, disk, log
<1>9. ASSUME NEW p \in Proc, write_head(p) PROVE (Counted /\ BootAlone)'
  <2>1. Active' = Active /\ \A q \in Proc : Committer(q)' = Committer(q)
    BY <1>9, <1>0 DEF write_head, Active, InOp, Committer, disk, log
  <2> QED
    BY Zenon, <1>9, <2>1, <1>0 DEF write_head, Counted, BootAlone, disk, log
<1>10. ASSUME NEW p \in Proc, install_trans(p) PROVE (Counted /\ BootAlone)'
  <2>1. Active' = Active /\ \A q \in Proc : Committer(q)' = Committer(q)
    BY Zenon, <1>10, <1>0 DEF install_trans, Active, InOp, Committer, disk, log
  <2> QED
    BY Zenon, <1>10, <2>1, <1>0 DEF install_trans, Counted, BootAlone, disk, log
<1>11. ASSUME NEW p \in Proc, erase_head(p) PROVE (Counted /\ BootAlone)'
  <2>1. Active' = Active /\ \A q \in Proc : Committer(q)' = Committer(q)
    BY <1>11, <1>0 DEF erase_head, Active, InOp, Committer, disk, log
  <2> QED
    BY Zenon, <1>11, <2>1, <1>0 DEF erase_head, Counted, BootAlone, disk, log
<1>12. ASSUME NEW p \in Proc, commit_done(p) PROVE (Counted /\ BootAlone)'
  <2>1. Active' = Active
    BY Zenon, <1>12, <1>0 DEF commit_done, Awake, Active, InOp
  <2>2. \A q \in Proc : ~Committer(q)'
    BY Zenon, <1>12, <1>0 DEF commit_done, Awake, Counted, Committer
  <2> QED
    BY Zenon, <1>12, <2>1, <2>2, <1>0 DEF commit_done, Counted, BootAlone, Up
<1>13. ASSUME bget_recycle PROVE (Counted /\ BootAlone)'
  <2>1. Active' = Active /\ \A q \in Proc : Committer(q)' = Committer(q)
    BY Zenon, <1>13, <1>0 DEF bget_recycle, Active, InOp, Committer, disk, log
  <2> QED
    BY Zenon, <1>13, <2>1, <1>0 DEF bget_recycle, Counted, BootAlone, disk, log
<1>14. ASSUME read_head PROVE (Counted /\ BootAlone)'
  <2>1. Active' = Active /\ \A q \in Proc : Committer(q)' = Committer(q)
    BY Zenon, <1>14, <1>0 DEF read_head, Active, InOp, Committer, disk, log
  <2> QED
    BY Zenon, <1>14, <2>1, <1>0 DEF read_head, Counted, BootAlone, disk, log
<1>15. ASSUME recover_install PROVE (Counted /\ BootAlone)'
  <2>1. Active' = Active /\ \A q \in Proc : Committer(q)' = Committer(q)
    BY Zenon, <1>15, <1>0 DEF recover_install, Active, InOp, Committer, disk, log
  <2> QED
    BY Zenon, <1>15, <2>1, <1>0 DEF recover_install, Counted, BootAlone, disk, log
<1>16. ASSUME recover_clear PROVE (Counted /\ BootAlone)'
  <2>1. Active' = Active /\ \A q \in Proc : Committer(q)' = Committer(q)
    BY Zenon, <1>16, <1>0 DEF recover_clear, Active, InOp, Committer, disk, log
  <2> QED
    BY Zenon, <1>16, <2>1, <1>0 DEF recover_clear, Counted, BootAlone, disk, log
<1>17. ASSUME crash PROVE (Counted /\ BootAlone)'
  <2>1. Active' = {} /\ \A q \in Proc : ~Committer(q)' /\ pc'[q] = "idle"
    BY <1>17 DEF crash, Active, InOp, Committer
  <2> QED
    BY Zenon, <1>17, <2>1, FS_EmptySet DEF crash, Counted, BootAlone
<1> QED
  BY <1>1, <1>2, <1>3, <1>4, <1>5, <1>6, <1>7, <1>8, <1>9,
     <1>10, <1>11, <1>12, <1>13, <1>14, <1>15, <1>16, <1>17 DEF Next, Commit, Recover

\* One process at a time changes a buffer, within the bound of its call.
LEMMA NextLocked == SpaceInv /\ Next => (Locked /\ Bounded)'
<1> SUFFICES ASSUME SpaceInv, Next PROVE (Locked /\ Bounded)'
  BY Zenon
<1>0. /\ Locked /\ Bounded /\ UNCHANGED opblocks /\ opblocks \in OpBlocks
      /\ pc \in [Proc -> ProcPC] /\ wrote \in [Proc -> SUBSET Block]
      /\ buf \in [Proc -> Block \cup {NoBlock}]
  BY Zenon DEF SpaceInv, Structure, TypeOK, Next
<1>1. ASSUME NEW p \in Proc, Call(p) PROVE (Locked /\ Bounded)'
  BY Zenon, <1>1, <1>0 DEF Call, Locked, Bounded, InOp, disk, log
<1>2. ASSUME NEW p \in Proc, begin_op_sleep(p) PROVE (Locked /\ Bounded)'
  BY Zenon, <1>2, <1>0 DEF begin_op_sleep, Locked, Bounded, InOp, disk, log
<1>3. ASSUME NEW p \in Proc, begin_op(p) PROVE (Locked /\ Bounded)'
  BY Zenon, <1>3, <1>0 DEF begin_op, Locked, Bounded, InOp, disk, log
<1>4. ASSUME NEW p \in Proc, bread(p) PROVE (Locked /\ Bounded)'
  BY Zenon, <1>4, <1>0 DEF bread, Locked, Bounded, InOp, disk, log
<1>5. ASSUME NEW p \in Proc, NEW b \in Block, NEW v \in Val, modify(p, b, v) PROVE (Locked /\ Bounded)'
  <2>1. IsFiniteSet(wrote[p] \cup {b})
    BY Zenon, <1>0, FS_AddElement DEF Bounded
  <2>2. Bounded'
    BY Zenon, <1>5, <2>1, <1>0 DEF modify, Bounded, InOp
  <2>3. Locked'
    BY Zenon, <1>5, <1>0, ValueAssumption DEF modify, Locked
  <2> QED
    BY Zenon, <2>2, <2>3
<1>6. ASSUME NEW p \in Proc, log_write(p) PROVE (Locked /\ Bounded)'
  BY Zenon, <1>6, <1>0 DEF log_write, Locked, Bounded, InOp, disk, log
<1>7. ASSUME NEW p \in Proc, end_op(p) PROVE (Locked /\ Bounded)'
  <2>1. Bounded'
    BY <1>7, <1>0, FS_EmptySet, SizeAssumption DEF end_op, Awake, Bounded, InOp
  <2>2. Locked'
    BY <1>7, <1>0 DEF end_op, Awake, Locked
  <2> QED
    BY Zenon, <2>1, <2>2
<1>8. ASSUME NEW p \in Proc, write_log(p) PROVE (Locked /\ Bounded)'
  BY Zenon, <1>8, <1>0 DEF write_log, Locked, Bounded, InOp, disk, log
<1>9. ASSUME NEW p \in Proc, write_head(p) PROVE (Locked /\ Bounded)'
  BY Zenon, <1>9, <1>0 DEF write_head, Locked, Bounded, InOp, disk, log
<1>10. ASSUME NEW p \in Proc, install_trans(p) PROVE (Locked /\ Bounded)'
  BY Zenon, <1>10, <1>0 DEF install_trans, InstallBlock, Locked, Bounded, InOp, disk, log
<1>11. ASSUME NEW p \in Proc, erase_head(p) PROVE (Locked /\ Bounded)'
  BY Zenon, <1>11, <1>0 DEF erase_head, ClearLog, Locked, Bounded, InOp, disk, log
<1>12. ASSUME NEW p \in Proc, commit_done(p) PROVE (Locked /\ Bounded)'
  BY Zenon, <1>12, <1>0 DEF commit_done, Awake, Locked, Bounded, InOp, disk, log
<1>13. ASSUME bget_recycle PROVE (Locked /\ Bounded)'
  BY Zenon, <1>13, <1>0 DEF bget_recycle, Locked, Bounded, InOp, disk, log
<1>14. ASSUME read_head PROVE (Locked /\ Bounded)'
  BY Zenon, <1>14, <1>0 DEF read_head, Locked, Bounded, InOp, disk, log
<1>15. ASSUME recover_install PROVE (Locked /\ Bounded)'
  BY Zenon, <1>15, <1>0 DEF recover_install, InstallBlock, Locked, Bounded, InOp, disk, log
<1>16. ASSUME recover_clear PROVE (Locked /\ Bounded)'
  BY Zenon, <1>16, <1>0 DEF recover_clear, ClearLog, Locked, Bounded, InOp, disk, log
<1>17. ASSUME crash PROVE (Locked /\ Bounded)'
  <2>1. Bounded'
    BY <1>17, <1>0, FS_EmptySet, SizeAssumption DEF crash, Bounded, InOp
  <2>2. Locked'
    BY Zenon, <1>17, <1>0 DEF crash, Locked
  <2> QED
    BY Zenon, <2>1, <2>2
<1> QED
  BY Zenon, <1>1, <1>2, <1>3, <1>4, <1>5, <1>6, <1>7, <1>8, <1>9,
     <1>10, <1>11, <1>12, <1>13, <1>14, <1>15, <1>16, <1>17 DEF Next, Commit, Recover

\* commit() leaves the log empty.
LEMMA NextDrained == SpaceInv /\ Next => Drained'
<1> SUFFICES ASSUME SpaceInv, Next PROVE Drained'
  BY Zenon
<1>0. /\ Counted /\ BootAlone /\ Drained
      /\ lh \in Seq(Block) /\ outstanding \in Nat /\ pc \in [Proc -> ProcPC]
  BY Zenon DEF SpaceInv, Structure, TypeOK
<1>1. ASSUME NEW p \in Proc, Call(p) PROVE Drained'
  BY Zenon, <1>1, <1>0 DEF Call, Up, Drained, Counted, Committer, BootAlone, disk, log
<1>2. ASSUME NEW p \in Proc, begin_op_sleep(p) PROVE Drained'
  BY Zenon, <1>2, <1>0 DEF begin_op_sleep, Up, Drained, Counted, Committer, BootAlone, disk, log
<1>3. ASSUME NEW p \in Proc, begin_op(p) PROVE Drained'
  <2>1. outstanding' # 0 /\ \A q \in Proc : pc[q] # "done" /\ pc'[q] # "done"
    BY <1>3, <1>0, InIsCounted DEF begin_op, Counted, Committer, InOp, MustWait, disk, log
  <2> QED
    BY Zenon, <1>3, <2>1, <1>0 DEF begin_op, Drained, BootAlone
<1>4. ASSUME NEW p \in Proc, bread(p) PROVE Drained'
  <2>1. outstanding' # 0 /\ \A q \in Proc : pc[q] # "done" /\ pc'[q] # "done"
    BY Zenon, <1>4, <1>0, InIsCounted DEF bread, Counted, Committer, InOp, disk, log
  <2> QED
    BY Zenon, <1>4, <2>1, <1>0 DEF bread, Drained, BootAlone
<1>5. ASSUME NEW p \in Proc, NEW b \in Block, NEW v \in Val, modify(p, b, v) PROVE Drained'
  <2>1. outstanding' # 0 /\ \A q \in Proc : pc[q] # "done" /\ pc'[q] # "done"
    BY Zenon, <1>5, <1>0, InIsCounted DEF modify, Counted, Committer, InOp, disk, log
  <2> QED
    BY Zenon, <1>5, <2>1, <1>0 DEF modify, Drained, BootAlone
<1>6. ASSUME NEW p \in Proc, log_write(p) PROVE Drained'
  <2>1. outstanding' # 0 /\ \A q \in Proc : pc[q] # "done" /\ pc'[q] # "done"
    BY Zenon, <1>6, <1>0, InIsCounted DEF log_write, Counted, Committer, InOp, disk, log
  <2> QED
    BY Zenon, <1>6, <2>1, <1>0 DEF log_write, Drained, BootAlone
<1>7. ASSUME NEW p \in Proc, end_op(p) PROVE Drained'
  <2>1. \A q \in Proc : pc[q] # "done"
    BY Zenon, <1>7, <1>0, InIsCounted DEF end_op, Counted, Committer, InOp
  <2> QED
    BY <1>7, <2>1, <1>0 DEF end_op, Awake, Drained, Up
<1>8. ASSUME NEW p \in Proc, write_log(p) PROVE Drained'
  BY Zenon, <1>8, <1>0 DEF write_log, Up, Drained, Counted, Committer, BootAlone, disk, log
<1>9. ASSUME NEW p \in Proc, write_head(p) PROVE Drained'
  BY Zenon, <1>9, <1>0 DEF write_head, Up, Drained, Counted, Committer, BootAlone, disk, log
<1>10. ASSUME NEW p \in Proc, install_trans(p) PROVE Drained'
  BY Zenon, <1>10, <1>0 DEF install_trans, InstallBlock, Up, Drained, Counted, Committer, BootAlone, disk, log
<1>11. ASSUME NEW p \in Proc, erase_head(p) PROVE Drained'
  BY Zenon, <1>11, <1>0 DEF erase_head, ClearLog, Up, Drained, Counted, Committer, BootAlone, disk, log
<1>12. ASSUME NEW p \in Proc, commit_done(p) PROVE Drained'
  BY Zenon, <1>12, <1>0 DEF commit_done, Awake, Up, Drained, Counted, Committer, BootAlone, disk, log
<1>13. ASSUME bget_recycle PROVE Drained'
  BY Zenon, <1>13, <1>0 DEF bget_recycle, Up, Drained, Counted, Committer, BootAlone, disk, log
<1>14. ASSUME read_head PROVE Drained'
  BY Zenon, <1>14, <1>0 DEF read_head, Up, Drained, Counted, Committer, BootAlone, disk, log
<1>15. ASSUME recover_install PROVE Drained'
  BY Zenon, <1>15, <1>0 DEF recover_install, InstallBlock, Up, Drained, Counted, Committer, BootAlone, disk, log
<1>16. ASSUME recover_clear PROVE Drained'
  BY Zenon, <1>16, <1>0 DEF recover_clear, ClearLog, Up, Drained, Counted, Committer, BootAlone, disk, log
<1>17. ASSUME crash PROVE Drained'
  BY Zenon, <1>17, <1>0 DEF crash, Up, Drained, Counted, Committer, BootAlone, disk, log
<1> QED
  BY Zenon, <1>1, <1>2, <1>3, <1>4, <1>5, <1>6, <1>7, <1>8, <1>9,
     <1>10, <1>11, <1>12, <1>13, <1>14, <1>15, <1>16, <1>17 DEF Next, Commit, Recover

-----------------------------------------------------------------------------
\* A call has logged no more blocks than it wrote.
SpentFits == \A p \in Proc :
  /\ IsFiniteSet(Spent(p)) /\ Cardinality(Spent(p)) \in Nat
  /\ Cardinality(wrote[p]) \in Nat /\ Cardinality(Spent(p)) <= Cardinality(wrote[p])
\* log_write() puts a block into the log header once (log.c:224-230).
LEMMA SpentBounded == Bounded => SpentFits
<1> SUFFICES ASSUME Bounded, NEW p \in Proc
             PROVE /\ IsFiniteSet(Spent(p)) /\ Cardinality(Spent(p)) \in Nat
                   /\ Cardinality(wrote[p]) \in Nat
                   /\ Cardinality(Spent(p)) <= Cardinality(wrote[p])
  BY Zenon DEF SpentFits
<1>1. IsFiniteSet(wrote[p]) /\ Spent(p) \in SUBSET wrote[p]
  BY Zenon DEF Bounded, Spent
<1> QED
  BY Zenon, <1>1, FS_Subset, FS_CardinalityType

\* A call that uses less than it reserves keeps its last ticket.
LEMMA Ticket == Bounded /\ opblocks \in OpBlocks /\ opblocks < MAXOPBLOCKS =>
                  \A p \in Active : <<p, MAXOPBLOCKS>> \in Reserve
BY SpentBounded, SizeAssumption DEF SpentFits, Active, Reserve, Bounded

\* Tickets are only used up: as the calls in progress log their blocks, and
\* when one of them ends.
LEMMA ReserveShrinks ==
  ASSUME Bounded, Bounded', Active' \subseteq Active,
         \A q \in Active' : Spent(q) \subseteq Spent(q)'
  PROVE  /\ Reserve' \subseteq Reserve /\ IsFiniteSet(Reserve')
         /\ Cardinality(Reserve) \in Nat /\ Cardinality(Reserve') \in Nat
         /\ Cardinality(Reserve') <= Cardinality(Reserve)
         /\ \A r \in Reserve : r \notin Reserve' => Cardinality(Reserve') <= Cardinality(Reserve) - 1
<1>0. SpentFits'
  BY SpentBounded, PTL
<1>1. \A q \in Proc : IsFiniteSet(Spent(q)') /\ Cardinality(Spent(q)') \in Nat
  BY Zenon, <1>0 DEF SpentFits
<1>2. \A q \in Active' : Cardinality(Spent(q)) <= Cardinality(Spent(q)')
  <2> TAKE q \in Active'
  <2>1. q \in Proc
    BY Zenon DEF Active
  <2> QED
    BY Zenon, <2>1, <1>1, FS_Subset
<1>3. Reserve' \subseteq Reserve
  BY <1>1, <1>2, SpentBounded, SizeAssumption DEF SpentFits, Reserve, Active
<1>4. IsFiniteSet(Reserve) /\ Cardinality(Reserve) \in Nat
  BY Zenon, ReserveFinite DEF ReserveFits
<1>5. IsFiniteSet(Reserve') /\ Cardinality(Reserve') <= Cardinality(Reserve)
  BY Zenon, <1>3, <1>4, FS_Subset
<1>6. Cardinality(Reserve') \in Nat
  BY Zenon, <1>5, FS_CardinalityType
<1>7. ASSUME NEW r \in Reserve, r \notin Reserve'
      PROVE  Cardinality(Reserve') <= Cardinality(Reserve) - 1
  <2>1. Reserve' \subseteq Reserve \ {r}
    BY Zenon, <1>3, <1>7
  <2>2. IsFiniteSet(Reserve \ {r}) /\ Cardinality(Reserve \ {r}) = Cardinality(Reserve) - 1
    BY Zenon, <1>4, FS_RemoveElement
  <2> QED
    BY <2>1, <2>2, FS_Subset
<1> QED
  BY Zenon, <1>3, <1>4, <1>5, <1>6, <1>7

\* A step that neither logs a block nor lets a call in or out.
LEMMA SameReserve ==
  ASSUME SpaceInv, UNCHANGED <<opblocks, lh, wrote, panic>>, Active' = Active, hd' \in {hd, lh}
  PROVE  (Reserved /\ Slack)'
<1>1. \A q \in Proc : Spent(q)' = Spent(q)
  BY Zenon DEF Spent, Logged
<1>2. Reserve' = Reserve
  BY Zenon, <1>1 DEF Reserve, Active
<1>3. Cardinality(Reserve) \in Nat
  BY Zenon, ReserveFinite DEF ReserveFits
<1>4. Reserved'
  BY <1>2, <1>3, SizeAssumption DEF SpaceInv, Reserved, TypeOK
<1>5. Slack'
  BY Zenon, <1>1, <1>2 DEF SpaceInv, Slack, Active
<1> QED
  BY Zenon, <1>4, <1>5

\* A step after which no call is in progress.
LEMMA NobodyReserves ==
  ASSUME SpaceInv, UNCHANGED opblocks, panic' => panic, Active' = {},
         lh' \in {lh, hd, << >>}, hd' \in {hd, << >>}
  PROVE  (Reserved /\ Slack)'
<1>1. Reserve' = {}
  BY Zenon DEF Reserve
<1>2. Cardinality(Reserve') = 0 /\ Cardinality(Reserve) \in Nat
  BY Zenon, <1>1, FS_EmptySet, ReserveFinite DEF ReserveFits
<1>3. Reserved'
  BY <1>2, SizeAssumption DEF SpaceInv, Reserved, TypeOK
<1>4. Slack'
  BY SizeAssumption, LogSizeAssumption DEF SpaceInv, Slack, TypeOK
<1> QED
  BY Zenon, <1>3, <1>4

\* Among calls that use less than they reserve a call still finds room for two
\* blocks: one more than log_write() asks for.
LEMMA RoomForTwo ==
  ASSUME SpaceInv, opblocks < MAXOPBLOCKS, NEW p \in Active
  PROVE  Len(lh) <= LOGSIZE - 2
<1>0. Bounded /\ opblocks \in OpBlocks /\ p \in Proc /\ lh \in Seq(Block)
  BY Zenon DEF SpaceInv, Structure, TypeOK, Active
<1>1. /\ <<p, MAXOPBLOCKS>> \in Reserve
      /\ IsFiniteSet(Reserve) /\ Cardinality(Reserve) \in Nat
  BY Zenon, <1>0, Ticket, ReserveFinite DEF ReserveFits
<1>2. Cardinality(Reserve) >= 1
  BY <1>1, FS_EmptySet
<1>3. CASE Len(lh) + Cardinality(Reserve) <= LOGSIZE - 1
  BY <1>0, <1>1, <1>2, <1>3, SizeAssumption
<1>4. ASSUME NEW q \in Active, p # q PROVE Len(lh) <= LOGSIZE - 2
  <2>1. <<q, MAXOPBLOCKS>> \in Reserve /\ <<q, MAXOPBLOCKS>> # <<p, MAXOPBLOCKS>>
    BY Zenon, <1>0, <1>4, Ticket
  <2>2. Cardinality(Reserve \ {<<p, MAXOPBLOCKS>>}) = Cardinality(Reserve) - 1
    BY <1>1, FS_RemoveElement, Zenon
  <2>a. IsFiniteSet(Reserve \ {<<p, MAXOPBLOCKS>>})
    BY <1>1, FS_RemoveElement, Zenon
  <2>b. Reserve \ {<<p, MAXOPBLOCKS>>} # {}
    BY <2>1, Zenon
  <2>3. Cardinality(Reserve \ {<<p, MAXOPBLOCKS>>}) # 0
    BY <2>a, <2>b, FS_EmptySet, Zenon
  <2> QED
    BY <1>0, <1>1, <1>2, <2>2, <2>3, SizeAssumption DEF SpaceInv, Reserved
<1>5. CASE Len(lh) <= Cardinality(Spent(p))
  BY <1>0, <1>5, SpentBounded, SizeAssumption, LogSizeAssumption DEF SpentFits, Bounded
<1> QED
  BY Zenon, <1>3, <1>4, <1>5 DEF SpaceInv, Slack

\* log_write() adds a block to the log and uses up a ticket of its call.
LEMMA OneMore ==
  ASSUME SpaceInv, UNCHANGED <<opblocks, wrote, hd, panic>>, Active' = Active,
         NEW p \in Active, pc[p] = "log_write", ~Logged(buf[p]),
         lh' = Append(lh, buf[p]), Bounded'
  PROVE  (Reserved /\ Slack)'
<1>0. /\ p \in Proc /\ buf[p] \in wrote[p] /\ buf[p] \in Block /\ lh \in Seq(Block)
      /\ Bounded /\ opblocks \in OpBlocks /\ SpentFits
  BY Zenon, SpentBounded DEF SpaceInv, Structure, Locked, TypeOK, Active
<1>1. Len(lh') = Len(lh) + 1 /\ Len(lh) \in Nat
  BY <1>0
<1>2. \A b : Logged(b)' <=> Logged(b) \/ b = buf[p]
  BY <1>0, <1>1 DEF Logged
<1>3. \A q \in Proc : Spent(q) \subseteq Spent(q)'
  BY Zenon, <1>2 DEF Spent
<1>4. Spent(p)' = Spent(p) \cup {buf[p]} /\ buf[p] \notin Spent(p)
  BY Zenon, <1>0, <1>2 DEF Spent
<1>5. Cardinality(Spent(p)') = Cardinality(Spent(p)) + 1
  <2>1. IsFiniteSet(Spent(p))
    BY Zenon, <1>0 DEF SpentFits
  <2> QED
    BY <2>1, <1>4, FS_AddElement, Zenon
<1>6. SpentFits'
  BY SpentBounded, PTL
<1>7. Cardinality(Spent(p)') <= MAXOPBLOCKS /\ Cardinality(Spent(p)) \in Nat
  BY <1>0, <1>6, SizeAssumption DEF SpentFits, Bounded
<1>8. DEFINE r == <<p, Cardinality(Spent(p)) + 1>>
<1>9. r \in Reserve /\ r \notin Reserve'
  BY <1>5, <1>7, SizeAssumption DEF Reserve
<1>10. /\ Cardinality(Reserve') <= Cardinality(Reserve) - 1
       /\ Cardinality(Reserve) \in Nat /\ Cardinality(Reserve') \in Nat /\ IsFiniteSet(Reserve')
  BY Zenon, <1>0, <1>3, <1>9, ReserveShrinks DEF Active
<1>11. Reserved'
  BY <1>0, <1>1, <1>10, SizeAssumption DEF SpaceInv, Reserved
<1>12. ASSUME opblocks < MAXOPBLOCKS PROVE Len(lh') <= LOGSIZE - 1
  BY <1>0, <1>1, <1>12, RoomForTwo, SizeAssumption
<1>13. CASE Len(lh) + Cardinality(Reserve) <= LOGSIZE - 1
  BY <1>0, <1>1, <1>10, <1>11, <1>12, <1>13, SizeAssumption DEF SpaceInv, Slack
<1>14. CASE \E q \in Active : p # q
  <2>1. \A q \in Active' : \E t \in Active' : q # t
    BY Zenon, <1>14
  <2> QED
    BY Zenon, <2>1, <1>11, <1>12 DEF SpaceInv, Slack
<1>15. CASE Active = {p} /\ Len(lh) <= Cardinality(Spent(p))
  <2>1. \A q \in Active' : Len(lh') <= Cardinality(Spent(q)')
    BY <1>1, <1>5, <1>7, <1>15
  <2> QED
    BY Zenon, <2>1, <1>11, <1>12 DEF SpaceInv, Slack
<1>16. CASE opblocks >= MAXOPBLOCKS
  BY SMTT(30), <1>0, <1>11, <1>16, SizeAssumption DEF Slack
<1> QED
  BY <1>0, <1>13, <1>14, <1>15, <1>16, SizeAssumption DEF SpaceInv, Slack

\* The reservation argument, step by step.
LEMMA NextReserved == SpaceInv /\ Next => (Reserved /\ Slack)'
<1> SUFFICES ASSUME SpaceInv, Next PROVE (Reserved /\ Slack)'
  BY Zenon
<1>0. /\ TypeOK /\ Counted /\ BootAlone /\ Locked /\ Bounded /\ Drained /\ Reserved /\ Slack
      /\ SpaceInv /\ UNCHANGED opblocks /\ pc \in [Proc -> ProcPC]
  BY Zenon DEF SpaceInv, Structure, TypeOK, Next
<1>a. committing => Active = {}
  BY Zenon, <1>0, Finite, FS_EmptySet DEF Counted
<1>c. Bounded' /\ Counted'
  BY Zenon, <1>0, NextLocked, NextCounted
<1>b. Bounded' /\ SpentFits /\ SpentFits'
  BY <1>0, <1>c, SpentBounded, PTL
<1>1. ASSUME NEW p \in Proc, Call(p) PROVE (Reserved /\ Slack)'
  <2>1. UNCHANGED <<lh, wrote, panic>> /\ Active' = Active /\ hd' \in {hd, lh}
    BY Zenon, <1>1, <1>0 DEF Call, Active, InOp, disk, log
  <2> QED
    BY Zenon, <2>1, <1>0, SameReserve
<1>2. ASSUME NEW p \in Proc, begin_op_sleep(p) PROVE (Reserved /\ Slack)'
  <2>1. UNCHANGED <<lh, wrote, panic>> /\ Active' = Active /\ hd' \in {hd, lh}
    BY Zenon, <1>2, <1>0 DEF begin_op_sleep, Active, InOp, disk, log
  <2> QED
    BY Zenon, <2>1, <1>0, SameReserve
<1>3. ASSUME NEW p \in Proc, begin_op(p) PROVE (Reserved /\ Slack)'
  <2>1. Active' = Active \cup {p} /\ p \notin Active
    BY Zenon, <1>3, <1>0 DEF begin_op, Active, InOp
  <2>2. ReserveFits'
    BY ReserveFinite, PTL
  <2>3. Len(lh) + (outstanding + 1) * MAXOPBLOCKS <= LOGSIZE /\ ~committing
    BY <1>3, <1>0, SizeAssumption DEF begin_op, MustWait, TypeOK
  <2>4. Cardinality(Reserve') <= (outstanding + 1) * MAXOPBLOCKS /\ Cardinality(Reserve') \in Nat
    BY Zenon, <1>3, <2>2, <1>c DEF ReserveFits, begin_op, Counted
  <2>5. (outstanding + 1) * MAXOPBLOCKS \in Nat
    BY <1>0, SizeAssumption DEF TypeOK
  <2>a. UNCHANGED <<lh, hd>> /\ Len(lh) \in Nat /\ Len(hd) <= LOGSIZE
    BY <1>3, <1>0 DEF begin_op, Reserved, TypeOK, disk
  <2>b. PICK n \in Nat : n = (outstanding + 1) * MAXOPBLOCKS
    BY Zenon, <2>5
  <2>c. Len(lh) + n <= LOGSIZE /\ Cardinality(Reserve') <= n
    BY <2>b, <2>3, <2>4, Zenon
  <2>d. Len(lh) + Cardinality(Reserve') <= LOGSIZE
    BY <2>a, <2>c, <2>4, SizeAssumption
  <2>6. Reserved'
    BY Zenon, <2>a, <2>d DEF Reserved
  <2>7. CASE Active = {}
    <3>1. lh = << >>
      BY Zenon, <1>3, <2>3, <2>7, <1>0, FS_EmptySet DEF begin_op, Up, Counted, Drained
    <3>2. \A q \in Active' : Len(lh') <= Cardinality(Spent(q)')
      BY <1>3, <3>1, <1>b DEF begin_op, SpentFits, Active
    <3> QED
      BY Zenon, <1>3, <2>6, <3>2, <1>0 DEF begin_op, Slack, disk
  <2>8. CASE Active # {}
    <3>1. \A q \in Active' : \E r \in Active' : q # r
      BY Zenon, <2>1, <2>8
    <3> QED
      BY Zenon, <1>3, <2>6, <3>1, <1>0 DEF begin_op, Slack, disk
  <2> QED
    BY Zenon, <2>6, <2>7, <2>8
<1>4. ASSUME NEW p \in Proc, bread(p) PROVE (Reserved /\ Slack)'
  <2>1. UNCHANGED <<lh, wrote, panic>> /\ Active' = Active /\ hd' \in {hd, lh}
    BY Zenon, <1>4, <1>0 DEF bread, Active, InOp, disk, log
  <2> QED
    BY Zenon, <2>1, <1>0, SameReserve
<1>5. ASSUME NEW p \in Proc, NEW b \in Block, NEW v \in Val, modify(p, b, v) PROVE (Reserved /\ Slack)'
  <2>1. Active' = Active /\ p \in Active
    BY Zenon, <1>5, <1>0 DEF modify, Active, InOp
  <2>2. \A q \in Proc : Spent(q) \subseteq Spent(q)'
    BY Zenon, <1>5, <1>0 DEF modify, Spent, Logged, TypeOK, log
  <2>3. Cardinality(Reserve') <= Cardinality(Reserve) /\ Cardinality(Reserve) \in Nat /\ Cardinality(Reserve') \in Nat
    BY Zenon, <2>1, <2>2, <1>0, <1>b, ReserveShrinks DEF Active
  <2>4. Reserved'
    BY <1>5, <2>3, <1>0, SizeAssumption DEF modify, Reserved, TypeOK, disk, log
  <2>5. \A q \in Active : Cardinality(Spent(q)) <= Cardinality(Spent(q)')
    BY Zenon, <2>2, <1>b, FS_Subset DEF SpentFits, Active
  <2>6. ASSUME opblocks < MAXOPBLOCKS PROVE Len(lh) <= LOGSIZE - 2
    BY Zenon, <2>1, <2>6, <1>0, RoomForTwo
  <2>7. opblocks < MAXOPBLOCKS => ~panic'
    BY <1>5, <2>6, <1>0, SizeAssumption, LogSizeAssumption, InIsCounted, SMTT(30)
       DEF modify, TooBig, TypeOK, InOp
  <2>a. UNCHANGED <<lh, hd, opblocks>> /\ Len(lh) \in Nat
    <3>1. UNCHANGED <<lh, hd>>
      BY Zenon, <1>5 DEF modify, disk, log
    <3>2. lh \in Seq(Block)
      BY Zenon, <1>0 DEF TypeOK
    <3> QED
      BY <3>1, <3>2, <1>0
  <2>b. Len(lh) + Cardinality(Reserve) <= LOGSIZE - 1 => Len(lh) + Cardinality(Reserve') <= LOGSIZE - 1
    BY <2>3, <2>a, SizeAssumption
  <2>c. ASSUME NEW q \in Active, Len(lh) <= Cardinality(Spent(q))
        PROVE  Len(lh) <= Cardinality(Spent(q)')
    <3>1. Cardinality(Spent(q)) \in Nat /\ Cardinality(Spent(q)') \in Nat
      BY Zenon, <2>c, <1>b DEF SpentFits, Active
    <3> QED
      BY <2>c, <2>5, <2>a, <3>1
  <2>8. Slack'
    BY Zenon, <2>1, <2>7, <2>a, <2>b, <2>c, <1>0 DEF Slack
  <2> QED
    BY Zenon, <2>4, <2>8
<1>6. ASSUME NEW p \in Proc, log_write(p) PROVE (Reserved /\ Slack)'
  <2>1. Active' = Active /\ p \in Active /\ UNCHANGED <<wrote, hd, panic>>
    BY Zenon, <1>6, <1>0 DEF log_write, Active, InOp, disk
  <2>2. CASE Logged(buf[p])
    BY Zenon, <1>6, <2>1, <2>2, <1>0, SameReserve DEF log_write
  <2>3. CASE ~Logged(buf[p])
    BY Zenon, <1>6, <2>1, <2>3, <1>0, <1>b, <1>c, OneMore DEF log_write
  <2> QED
    BY Zenon, <2>2, <2>3
<1>7. ASSUME NEW p \in Proc, end_op(p) PROVE (Reserved /\ Slack)'
  <2>1. Active' = Active \ {p} /\ p \in Active
    BY Zenon, <1>7, <1>0 DEF end_op, Awake, Active, InOp
  <2>2. \A q \in Active' : Spent(q) \subseteq Spent(q)'
    BY Zenon, <1>7, <2>1, <1>0 DEF end_op, Spent, Logged, TypeOK, Active
  <2>3. /\ Cardinality(Reserve') <= Cardinality(Reserve)
        /\ Cardinality(Reserve) \in Nat /\ Cardinality(Reserve') \in Nat
        /\ \A r \in Reserve : r \notin Reserve' => Cardinality(Reserve') <= Cardinality(Reserve) - 1
    BY Zenon, <2>1, <2>2, <1>0, <1>b, ReserveShrinks
  <2>4. Reserved'
    BY <1>7, <2>3, <1>0, SizeAssumption DEF end_op, Reserved, TypeOK, disk
  <2>5. ~panic'
    BY Zenon, <1>7, <1>0, InIsCounted DEF end_op, InOp
  <2>6. ASSUME opblocks < MAXOPBLOCKS PROVE Cardinality(Reserve') <= Cardinality(Reserve) - 1
    <3>1. <<p, MAXOPBLOCKS>> \in Reserve
      BY Zenon, <2>1, <2>6, <1>0, Ticket DEF TypeOK
    <3>2. <<p, MAXOPBLOCKS>> \notin Reserve'
      BY Zenon, <2>1 DEF Reserve
    <3> QED
      BY Zenon, <3>1, <3>2, <2>3
  <2>a. UNCHANGED <<lh, hd, opblocks>> /\ Len(lh) \in Nat
    BY <1>7, <1>0 DEF end_op, TypeOK, disk
  <2>b. opblocks < MAXOPBLOCKS => Len(lh) + Cardinality(Reserve') <= LOGSIZE - 1
    BY <2>3, <2>6, <2>a, <1>0, SizeAssumption DEF Reserved
  <2>7. Slack'
    BY Zenon, <2>5, <2>a, <2>b, <1>0 DEF Slack
  <2> QED
    BY Zenon, <2>4, <2>7
<1>8. ASSUME NEW p \in Proc, write_log(p) PROVE (Reserved /\ Slack)'
  <2>1. UNCHANGED <<lh, wrote, panic>> /\ Active' = Active /\ hd' \in {hd, lh}
    BY Zenon, <1>8, <1>0 DEF write_log, Active, InOp, disk, log
  <2> QED
    BY Zenon, <2>1, <1>0, SameReserve
<1>9. ASSUME NEW p \in Proc, write_head(p) PROVE (Reserved /\ Slack)'
  <2>1. UNCHANGED <<lh, wrote, panic>> /\ Active' = Active /\ hd' \in {hd, lh}
    BY Zenon, <1>9, <1>0 DEF write_head, Active, InOp, disk, log
  <2> QED
    BY Zenon, <2>1, <1>0, SameReserve
<1>10. ASSUME NEW p \in Proc, install_trans(p) PROVE (Reserved /\ Slack)'
  <2>1. UNCHANGED <<lh, wrote, panic>> /\ Active' = Active /\ hd' \in {hd, lh}
    BY Zenon, <1>10, <1>0 DEF install_trans, Active, InOp, disk, log
  <2> QED
    BY Zenon, <2>1, <1>0, SameReserve
<1>11. ASSUME NEW p \in Proc, erase_head(p) PROVE (Reserved /\ Slack)'
  <2>1. Active' = {} /\ (panic' => panic)
    BY Zenon, <1>11, <1>0, <1>a DEF erase_head, Counted, Active, InOp, Committer, BootAlone, disk, log
  <2>2. lh' \in {lh, hd, << >>} /\ hd' \in {hd, << >>}
    BY Zenon, <1>11 DEF erase_head, ClearLog, disk, log
  <2> QED
    BY Zenon, <2>1, <2>2, <1>0, NobodyReserves
<1>12. ASSUME NEW p \in Proc, commit_done(p) PROVE (Reserved /\ Slack)'
  <2>1. UNCHANGED <<lh, wrote, panic>> /\ Active' = Active /\ hd' \in {hd, lh}
    BY Zenon, <1>12, <1>0 DEF commit_done, Awake, Active, InOp, disk, log
  <2> QED
    BY Zenon, <2>1, <1>0, SameReserve
<1>13. ASSUME bget_recycle PROVE (Reserved /\ Slack)'
  <2>1. UNCHANGED <<lh, wrote, panic>> /\ Active' = Active /\ hd' \in {hd, lh}
    BY Zenon, <1>13, <1>0 DEF bget_recycle, Active, InOp, disk, log
  <2> QED
    BY Zenon, <2>1, <1>0, SameReserve
<1>14. ASSUME read_head PROVE (Reserved /\ Slack)'
  <2>1. Active' = {} /\ (panic' => panic)
    BY Zenon, <1>14, <1>0, <1>a DEF read_head, Active, InOp, Committer, BootAlone, disk, log
  <2>2. lh' \in {lh, hd, << >>} /\ hd' \in {hd, << >>}
    BY Zenon, <1>14 DEF read_head, ClearLog, disk, log
  <2> QED
    BY Zenon, <2>1, <2>2, <1>0, NobodyReserves
<1>15. ASSUME recover_install PROVE (Reserved /\ Slack)'
  <2>1. UNCHANGED <<lh, wrote, panic>> /\ Active' = Active /\ hd' \in {hd, lh}
    BY Zenon, <1>15, <1>0 DEF recover_install, Active, InOp, disk, log
  <2> QED
    BY Zenon, <2>1, <1>0, SameReserve
<1>16. ASSUME recover_clear PROVE (Reserved /\ Slack)'
  <2>1. Active' = {} /\ (panic' => panic)
    BY Zenon, <1>16, <1>0, <1>a DEF recover_clear, Active, InOp, Committer, BootAlone, disk, log
  <2>2. lh' \in {lh, hd, << >>} /\ hd' \in {hd, << >>}
    BY Zenon, <1>16 DEF recover_clear, ClearLog, disk, log
  <2> QED
    BY Zenon, <2>1, <2>2, <1>0, NobodyReserves
<1>17. ASSUME crash PROVE (Reserved /\ Slack)'
  <2>1. Active' = {} /\ (panic' => panic)
    BY Zenon, <1>17, <1>0, <1>a DEF crash, Active, InOp, Committer, BootAlone, disk, log
  <2>2. lh' \in {lh, hd, << >>} /\ hd' \in {hd, << >>}
    BY Zenon, <1>17 DEF crash, ClearLog, disk, log
  <2> QED
    BY Zenon, <2>1, <2>2, <1>0, NobodyReserves
<1> QED
  BY Zenon, <1>1, <1>2, <1>3, <1>4, <1>5, <1>6, <1>7, <1>8, <1>9,
     <1>10, <1>11, <1>12, <1>13, <1>14, <1>15, <1>16, <1>17 DEF Next, Commit, Recover

-----------------------------------------------------------------------------
\* The space invariant holds when the machine is switched on.
LEMMA InitSpace == Init => SpaceInv
<1> SUFFICES ASSUME Init PROVE SpaceInv
  BY Zenon
<1>1. TypeOK
  <2>1. logd \in [1 .. LOGSIZE -> Val] /\ hd \in Seq(Block) /\ lh \in Seq(Block)
    BY DEF Init
  <2>2. cache \in [Block -> Val \cup {NoBuf}] /\ wrote \in [Proc -> SUBSET Block]
    BY Zenon DEF Init
  <2>3. pc \in [Proc -> ProcPC] /\ buf \in [Proc -> Block \cup {NoBlock}]
    BY Zenon DEF Init, ProcPC
  <2>4. crashes \in 0 .. MaxCrashes /\ outstanding \in Nat /\ tail \in Nat \ {0} /\ boot \in BootPC
    BY SizeAssumption DEF Init, BootPC
  <2> QED
    BY Zenon, <2>1, <2>2, <2>3, <2>4 DEF Init, TypeOK
<1>2. Active = {} /\ Reserve = {}
  BY Zenon DEF Init, Active, InOp, Reserve
<1>3. Cardinality(Active) = 0 /\ Cardinality(Reserve) = 0
  BY Zenon, <1>2, FS_EmptySet
<1>4. Structure
  BY <1>1, <1>3, FS_EmptySet, SizeAssumption
     DEF Init, Structure, Counted, Committer, BootAlone, Locked, Bounded, Drained, TypeOK
<1>5. Reserved /\ Slack
  BY <1>2, <1>3, SizeAssumption, LogSizeAssumption DEF Init, Reserved, Slack
<1> QED
  BY Zenon, <1>1, <1>4, <1>5 DEF SpaceInv

\* ... and for good.
THEOREM SpaceInvariant == Spec => []SpaceInv
<1>1. SpaceInv /\ Next => SpaceInv'
  BY Zenon, NextType, NextCounted, NextLocked, NextDrained, NextReserved DEF SpaceInv, Structure
<1>2. ASSUME SpaceInv, UNCHANGED <<vars, opblocks>> PROVE SpaceInv'
  <2>1. TypeOK'
    BY Zenon, <1>2 DEF SpaceInv, vars, TypeOK
  <2>2. Active' = Active
    BY Zenon, <1>2 DEF vars, Active, InOp
  <2>3. Structure'
    BY Zenon, <1>2, <2>2 DEF SpaceInv, vars, Structure, Counted, Committer, BootAlone, Locked,
                      Bounded, Drained, InOp
  <2>4. (Reserved /\ Slack)'
    BY Zenon, <1>2, <2>2, SameReserve DEF vars
  <2> QED
    BY Zenon, <2>1, <2>3, <2>4 DEF SpaceInv
<1> QED
  BY InitSpace, <1>1, <1>2, PTL DEF Spec

\* Whatever the calls write, log.lh.block[] never overflows, although
\* log_write() tests lh.n before it holds log.lock; and with calls that write
\* fewer blocks than they reserve none of the panics of log.c is reached and the
\* log stays within the blocks mkfs gave it.
THEOREM LogSpaceHolds == Spec => []LogSpace
<1>1. SpaceInv => LogSpace
  <2> SUFFICES ASSUME SpaceInv PROVE LogSpace
    BY Zenon
  <2>1. Len(lh) \in Nat /\ opblocks \in Nat
    BY SizeAssumption DEF SpaceInv, TypeOK
  <2> QED
    BY <2>1, ReserveFinite, SizeAssumption, LogSizeAssumption
       DEF SpaceInv, Reserved, ReserveFits, Slack, LogSpace, LogFits, HeaderFits, SmallCallsFit
<1> QED
  BY <1>1, SpaceInvariant, PTL
-----------------------------------------------------------------------------
\* commit() is between its two write_head().
Installing == \E p \in Proc : pc[p] = "install"

\* The header on the disk is empty except between those two, when it is the
\* one in memory; until recovery has read it, it may be anything.
HeadOnDisk == /\ boot = "install" => hd = lh
              /\ boot = "up" => hd = IF Installing THEN lh ELSE << >>

\* No block is in the log twice.
Distinct == /\ \A i, j \in 1 .. Len(lh) : lh[i] = lh[j] => i = j
            /\ \A i, j \in 1 .. Len(hd) : hd[i] = hd[j] => i = j

\* Every loop over the log starts at its first block.
FromFirst == (\A p \in Proc : pc[p] \notin {"write_log", "install"}) /\ boot # "install" => tail = 1

\* write_log() has copied the blocks before tail; install_trans() finds all of
\* them copied, and has written home the ones before tail.
Copied ==
  \A i \in 1 .. Len(lh) :
    /\ i < tail /\ (\E p \in Proc : pc[p] = "write_log") => logd[i] = Read(lh[i])
    /\ Installing => logd[i] = Read(lh[i])
    /\ i < tail /\ (Installing \/ boot = "install") => logd[i] = home[lh[i]]

\* B_DIRTY keeps a logged block in the cache until it is written home.
Pinned == boot = "up" => \A i \in 1 .. Len(lh) : lh[i] \in dirty \/ (Installing /\ i < tail)

\* A cached block that differs from its home is in the log or locked.
Clean == \A b \in Block :
  \/ cache[b] = NoBuf
  \/ cache[b] = home[b]
  \/ (boot = "up" /\ (Logged(b) \/ \E p \in Proc : buf[p] = b))

\* The inductive invariant of the atomicity argument.
DiskInv == HeadOnDisk /\ Distinct /\ FromFirst /\ Copied /\ Pinned /\ Clean

-----------------------------------------------------------------------------
\* While a call is in progress nobody is inside commit(), and nothing is
\* committed that is not installed.
Calm == /\ boot = "up" /\ ~Installing /\ hd = << >>
        /\ \A q \in Proc : pc[q] \notin {"write_log", "install", "done"}
\* end_op() commits only when the last call ends (log.c:154-156).
LEMMA CalmInOp == SpaceInv /\ DiskInv => \A p \in Proc : InOp(p) => Calm
<1> SUFFICES ASSUME SpaceInv, DiskInv, NEW p \in Proc, InOp(p) PROVE Calm
  BY Zenon
<1>1. ~committing
  BY Zenon, InIsCounted DEF SpaceInv, Structure
<1>2. \A q \in Proc : pc[q] \notin {"write_log", "install", "done"}
  BY Zenon, <1>1 DEF SpaceInv, Structure, Counted, Committer
<1>3. boot = "up"
  BY Zenon DEF SpaceInv, Structure, BootAlone, InOp
<1> QED
  BY Zenon, <1>2, <1>3 DEF Calm, Installing, DiskInv, HeadOnDisk

\* While commit() writes no buffer is locked.
LEMMA NoneLocked == SpaceInv => \A p \in Proc : Committer(p) =>
  /\ boot = "up"
  /\ \A q \in Proc : buf[q] = NoBlock /\ ~InOp(q) /\ (Committer(q) => q = p)
<1> SUFFICES ASSUME SpaceInv, NEW p \in Proc, Committer(p)
             PROVE  /\ boot = "up"
                    /\ \A q \in Proc : buf[q] = NoBlock /\ ~InOp(q) /\ (Committer(q) => q = p)
  BY Zenon
<1>1. Counted /\ Locked /\ BootAlone
  BY Zenon DEF SpaceInv, Structure
<1>2. committing /\ boot = "up"
  BY Zenon, <1>1 DEF Counted, BootAlone, Committer
<1>3. \A q \in Proc : ~InOp(q)
  BY Zenon, <1>1, <1>2, InIsCounted
<1> QED
  BY Zenon, <1>1, <1>2, <1>3 DEF Counted, Locked, InOp

\* A step that touches no disk block, no buffer and no log.
LEMMA SameDisk ==
  ASSUME DiskInv, UNCHANGED <<home, logd, hd, cache, dirty, lh, tail, boot, buf>>,
         \A q \in Proc : /\ pc'[q] = "install" <=> pc[q] = "install"
                         /\ pc'[q] = "write_log" <=> pc[q] = "write_log"
  PROVE  DiskInv'
<1>1. Installing' <=> Installing
  BY Zenon DEF Installing
<1>2. (HeadOnDisk /\ Distinct /\ FromFirst /\ Pinned)'
  BY <1>1 DEF DiskInv, HeadOnDisk, Distinct, FromFirst, Pinned
<1>3. Copied'
  BY Zenon, <1>1 DEF DiskInv, Copied, Read
<1>4. Clean'
  BY Zenon DEF DiskInv, Clean, Logged
<1> QED
  BY Zenon, <1>2, <1>3, <1>4 DEF DiskInv

\* install_trans() writes one block home, in a commit or in a recovery.
LEMMA InstallDisk ==
  ASSUME SpaceInv, DiskInv, InstallBlock, UNCHANGED <<logd, hd, lh, boot, pc, buf>>,
         (boot = "up" /\ Installing /\ Installing') \/ (boot = "install" /\ ~Installing /\ ~Installing')
  PROVE  DiskInv'
<1>0. /\ home \in [Block -> Val] /\ cache \in [Block -> Val \cup {NoBuf}] /\ lh \in Seq(Block)
      /\ logd \in [1 .. LOGSIZE -> Val] /\ tail \in Nat \ {0} /\ Len(lh) <= LOGSIZE
      /\ HeadOnDisk /\ Distinct /\ FromFirst /\ Copied /\ Pinned /\ Clean
  BY ReserveFinite, SizeAssumption DEF SpaceInv, TypeOK, DiskInv, Reserved, ReserveFits
<1>1. tail \in 1 .. Len(lh) /\ lh[tail] \in Block /\ logd[tail] \in Val /\ tail' = tail + 1
  BY <1>0, SizeAssumption DEF InstallBlock
<1>2. /\ home'[lh[tail]] = logd[tail] /\ cache'[lh[tail]] = logd[tail]
      /\ \A b \in Block : b # lh[tail] => home'[b] = home[b] /\ cache'[b] = cache[b]
  BY Zenon, <1>0, <1>1 DEF InstallBlock
<1>3. \A i \in 1 .. Len(lh) : lh[i] \in Block /\ (i # tail => lh[i] # lh[tail])
  BY <1>0, <1>1 DEF Distinct
<1>4. (HeadOnDisk /\ Distinct)'
  BY <1>0 DEF HeadOnDisk, Distinct
<1>5. FromFirst'
  BY Zenon, <1>0 DEF FromFirst, Installing
<1>6. Pinned'
  BY <1>0, <1>1, <1>3 DEF Pinned, InstallBlock
<1>7. ASSUME NEW i \in 1 .. Len(lh), i < tail' PROVE logd[i] = home'[lh[i]]
  BY <1>0, <1>1, <1>2, <1>3, <1>7 DEF Copied
<1>8. ASSUME NEW i \in 1 .. Len(lh), Installing PROVE logd[i] = Read(lh[i])'
  <2>1. CASE i = tail
    BY Zenon, <1>1, <1>2, <2>1, ValueAssumption DEF Read
  <2>2. CASE i # tail
    BY <1>0, <1>2, <1>3, <1>8, <2>2 DEF Copied, Read
  <2> QED
    BY Zenon, <2>1, <2>2
<1>9. (\E p \in Proc : pc[p] = "write_log") => ~Installing /\ boot = "up"
  BY Zenon, NoneLocked DEF Committer, Installing
<1>10. Copied'
  BY Zenon, <1>7, <1>8, <1>9 DEF Copied
<1>11. Clean'
  BY <1>0, <1>2 DEF Clean, Logged
<1> QED
  BY Zenon, <1>4, <1>5, <1>6, <1>10, <1>11 DEF DiskInv

\* The second write_head(), when all blocks are home.
LEMMA ClearDisk ==
  ASSUME SpaceInv, DiskInv, tail > Len(lh), Installing \/ boot = "install",
         lh' = << >>, hd' = << >>, tail' = 1, boot' = "up", UNCHANGED <<home, cache>>,
         \A q \in Proc : pc'[q] \notin {"write_log", "install"} /\ buf[q] = NoBlock
  PROVE  DiskInv'
<1>0. /\ lh \in Seq(Block) /\ Clean /\ Copied /\ tail \in Nat
      /\ cache \in [Block -> Val \cup {NoBuf}]
  BY Zenon DEF SpaceInv, TypeOK, DiskInv
<1>1. ~Installing'
  BY Zenon DEF Installing
<1>2. (HeadOnDisk /\ Distinct /\ FromFirst /\ Pinned /\ Copied)'
  BY <1>1 DEF HeadOnDisk, Distinct, FromFirst, Pinned, Copied
<1>3. ASSUME NEW b \in Block PROVE cache[b] = NoBuf \/ cache[b] = home[b]
  <2>1. CASE boot # "up" \/ ~Logged(b)
    BY Zenon, <1>0, <2>1, ValueAssumption DEF Clean
  <2>2. CASE boot = "up" /\ Logged(b)
    <3>1. PICK i \in 1 .. Len(lh) : lh[i] = b
      BY Zenon, <2>2 DEF Logged
    <3>2. i < tail
      BY <1>0, <3>1
    <3> QED
      BY Zenon, <1>0, <2>2, <3>1, <3>2 DEF Copied, Read
  <2> QED
    BY Zenon, <2>1, <2>2
<1>4. Clean'
  BY <1>3 DEF Clean
<1> QED
  BY Zenon, <1>2, <1>4 DEF DiskInv

\* What bget() may recycle is what the disk holds.
LEMMA Evictable ==
  ASSUME SpaceInv, DiskInv, NEW b \in Block, cache[b] # NoBuf, b \notin dirty,
         \A q \in Proc : buf[q] # b
  PROVE  cache[b] = home[b]
<1>0. Clean /\ Pinned /\ Copied
  BY Zenon DEF DiskInv
<1>1. CASE ~(boot = "up" /\ Logged(b))
  BY Zenon, <1>0, <1>1 DEF Clean
<1>2. CASE boot = "up" /\ Logged(b)
  <2>1. PICK i \in 1 .. Len(lh) : lh[i] = b
    BY Zenon, <1>2 DEF Logged
  <2>2. Installing /\ i < tail
    BY Zenon, <1>0, <1>2, <2>1 DEF Pinned
  <2> QED
    BY Zenon, <1>0, <2>1, <2>2 DEF Copied, Read
<1> QED
  BY Zenon, <1>1, <1>2

\* Every step preserves it.
LEMMA NextDisk == SpaceInv /\ DiskInv /\ Next => DiskInv'
<1> SUFFICES ASSUME SpaceInv, DiskInv, Next PROVE DiskInv'
  BY Zenon
<1>0. /\ SpaceInv /\ DiskInv /\ BootAlone /\ Locked
      /\ HeadOnDisk /\ Distinct /\ FromFirst /\ Copied /\ Pinned /\ Clean
      /\ home \in [Block -> Val] /\ cache \in [Block -> Val \cup {NoBuf}] /\ lh \in Seq(Block)
      /\ hd \in Seq(Block) /\ tail \in Nat \ {0} /\ pc \in [Proc -> ProcPC]
      /\ buf \in [Proc -> Block \cup {NoBlock}] /\ wrote \in [Proc -> SUBSET Block]
  BY Zenon DEF SpaceInv, Structure, TypeOK, DiskInv
<1>a. logd \in [1 .. LOGSIZE -> Val] /\ Len(lh) <= LOGSIZE /\ LOGSIZE \in Nat
  BY ReserveFinite, SizeAssumption DEF SpaceInv, TypeOK, Reserved, ReserveFits
<1>1. ASSUME NEW p \in Proc, Call(p) PROVE DiskInv'
  BY Zenon, <1>1, <1>0, SameDisk DEF Call, disk, log
<1>2. ASSUME NEW p \in Proc, begin_op_sleep(p) PROVE DiskInv'
  BY Zenon, <1>2, <1>0, SameDisk DEF begin_op_sleep, disk, log
<1>3. ASSUME NEW p \in Proc, begin_op(p) PROVE DiskInv'
  BY Zenon, <1>3, <1>0, SameDisk DEF begin_op, disk, log
<1>4. ASSUME NEW p \in Proc, bread(p) PROVE DiskInv'
  <2>0. Calm
    BY Zenon, <1>4, <1>0, CalmInOp DEF bread, InOp
  <2>1. Installing' <=> Installing
    BY Zenon, <1>4 DEF bread, Installing
  <2>2. (HeadOnDisk /\ Distinct /\ FromFirst /\ Pinned)'
    BY <1>4, <2>1, <1>0 DEF bread, HeadOnDisk, Distinct, FromFirst, Pinned, disk, log
  <2>3. Copied'
    BY Zenon, <1>4, <2>0, <2>1 DEF bread, Calm, Copied
  <2>4. Clean'
    BY <1>4, <1>0 DEF bread, Clean, Logged, disk, log
  <2> QED
    BY Zenon, <2>2, <2>3, <2>4 DEF DiskInv
<1>5. ASSUME NEW p \in Proc, NEW b \in Block, NEW v \in Val, modify(p, b, v) PROVE DiskInv'
  <2>0. Calm
    BY Zenon, <1>5, <1>0, CalmInOp DEF modify, InOp
  <2>1. ~Installing' /\ \A q \in Proc : pc'[q] \notin {"write_log", "install"}
    BY Zenon, <1>5, <2>0, <1>0 DEF modify, Calm, Installing
  <2>2. (HeadOnDisk /\ Distinct /\ FromFirst /\ Pinned)'
    BY <1>5, <2>0, <2>1, <1>0 DEF modify, Calm, HeadOnDisk, Distinct, FromFirst, Pinned, disk, log
  <2>3. Copied'
    BY Zenon, <1>5, <2>0, <2>1 DEF modify, Calm, Copied
  <2>4. buf[p] = NoBlock /\ boot = "up"
    BY Zenon, <1>5, <2>0, <1>0 DEF modify, Locked, Calm
  <2>5. Clean'
    BY <1>5, <2>4, <1>0, ValueAssumption DEF modify, Clean, Logged, disk, log
  <2> QED
    BY Zenon, <2>2, <2>3, <2>5 DEF DiskInv
<1>6. ASSUME NEW p \in Proc, log_write(p) PROVE DiskInv'
  <2>0. Calm
    BY Zenon, <1>6, <1>0, CalmInOp DEF log_write, InOp
  <2>1. ~Installing' /\ \A q \in Proc : pc'[q] \notin {"write_log", "install"}
    BY Zenon, <1>6, <2>0, <1>0 DEF log_write, Calm, Installing
  <2>2. buf[p] \in Block
    BY Zenon, <1>6, <1>0 DEF log_write, Locked
  <2>3. \A i \in 1 .. Len(lh') : (i \in 1 .. Len(lh) /\ lh'[i] = lh[i]) \/ lh'[i] = buf[p]
    BY <1>6, <2>2, <1>0 DEF log_write
  <2>4. Distinct'
    BY <1>6, <2>2, <1>0 DEF log_write, Distinct, Logged, disk
  <2>5. Pinned'
    BY Zenon, <1>6, <2>0, <2>3, <1>0 DEF log_write, Calm, Pinned
  <2>6. (HeadOnDisk /\ FromFirst)'
    BY Zenon, <1>6, <2>0, <2>1, <1>0 DEF log_write, Calm, HeadOnDisk, FromFirst, disk
  <2>7. Copied'
    BY Zenon, <1>6, <2>0, <2>1 DEF log_write, Calm, Copied
  <2>8. \A b \in Block : Logged(b) \/ b = buf[p] => Logged(b)'
    BY <1>6, <2>2, <1>0 DEF log_write, Logged
  <2>9. Clean'
    BY Zenon, <1>6, <2>0, <2>8, <1>0 DEF log_write, Calm, Clean, disk
  <2> QED
    BY Zenon, <2>4, <2>5, <2>6, <2>7, <2>9 DEF DiskInv
<1>7. ASSUME NEW p \in Proc, end_op(p) PROVE DiskInv'
  <2>0. Calm
    BY Zenon, <1>7, <1>0, CalmInOp DEF end_op, InOp
  <2>1. tail = 1 /\ ~Installing' /\ UNCHANGED <<home, logd, hd, cache, dirty, lh, tail, boot, buf>>
    BY Zenon, <1>7, <2>0, <1>0 DEF end_op, Awake, Calm, Installing, FromFirst, disk
  <2>2. (HeadOnDisk /\ Distinct /\ FromFirst /\ Pinned)'
    BY <2>0, <2>1, <1>0 DEF Calm, HeadOnDisk, Distinct, FromFirst, Pinned
  <2>3. Copied'
    BY <2>0, <2>1 DEF Calm, Copied
  <2>4. Clean'
    BY Zenon, <2>1, <1>0 DEF Clean, Logged
  <2> QED
    BY Zenon, <2>2, <2>3, <2>4 DEF DiskInv
<1>8. ASSUME NEW p \in Proc, write_log(p) PROVE DiskInv'
  <2>0. boot = "up" /\ ~Installing
    BY Zenon, <1>8, <1>0, NoneLocked DEF write_log, Committer, Installing
  <2>1. /\ ~Installing' /\ tail' = tail + 1 /\ logd' = [logd EXCEPT ![tail] = Read(lh[tail])]
        /\ UNCHANGED <<home, hd, cache, dirty, lh, boot, buf, pc>>
    BY Zenon, <1>8, <2>0 DEF write_log, Installing, log
  <2>2. (HeadOnDisk /\ Distinct /\ Pinned)'
    BY <2>0, <2>1, <1>0 DEF HeadOnDisk, Distinct, Pinned
  <2>3. FromFirst'
    BY Zenon, <1>8, <2>1 DEF write_log, FromFirst
  <2>4. \A i \in 1 .. Len(lh) : i < tail' => logd'[i] = Read(lh[i])
    <3> TAKE i \in 1 .. Len(lh)
    <3>1. i \in 1 .. LOGSIZE /\ tail \in 1 .. LOGSIZE
      BY <1>8, <1>0, <1>a DEF write_log
    <3>2. CASE i = tail
      BY Zenon, <2>1, <3>1, <3>2, <1>a
    <3>3. CASE i # tail
      BY <1>8, <2>1, <3>1, <3>3, <1>0, <1>a DEF write_log, Copied
    <3> QED
      BY Zenon, <3>2, <3>3
  <2>5. Copied'
    BY Zenon, <2>0, <2>1, <2>4 DEF Copied, Read
  <2>6. Clean'
    BY <2>1, <1>0 DEF Clean, Logged
  <2> QED
    BY Zenon, <2>2, <2>3, <2>5, <2>6 DEF DiskInv
<1>9. ASSUME NEW p \in Proc, write_head(p) PROVE DiskInv'
  <2>0. boot = "up" /\ ~Installing
    BY Zenon, <1>9, <1>0, NoneLocked DEF write_head, Committer, Installing
  <2>1. /\ Installing' /\ tail' = 1 /\ hd' = lh /\ pc'[p] = "install"
        /\ UNCHANGED <<home, logd, cache, dirty, lh, boot, buf>>
    BY Zenon, <1>9, <1>0 DEF write_head, Installing, log
  <2>2. (HeadOnDisk /\ Distinct /\ Pinned)'
    BY <2>0, <2>1, <1>0 DEF HeadOnDisk, Distinct, Pinned
  <2>3. FromFirst'
    BY Zenon, <2>1 DEF FromFirst
  <2>4. \A i \in 1 .. Len(lh) : logd[i] = Read(lh[i])
    BY <1>9, <1>0 DEF write_head, Copied
  <2>5. Copied'
    BY <2>0, <2>1, <2>4 DEF Copied, Read
  <2>6. Clean'
    BY Zenon, <2>1, <1>0 DEF Clean, Logged
  <2> QED
    BY Zenon, <2>2, <2>3, <2>5, <2>6 DEF DiskInv
<1>10. ASSUME NEW p \in Proc, install_trans(p) PROVE DiskInv'
  <2>1. boot = "up" /\ Installing /\ Installing' /\ UNCHANGED <<logd, hd, lh, boot, pc, buf>>
    BY Zenon, <1>10, <1>0, NoneLocked DEF install_trans, Committer, Installing, log
  <2> QED
    BY Zenon, <1>10, <2>1, <1>0, InstallDisk DEF install_trans
<1>11. ASSUME NEW p \in Proc, erase_head(p) PROVE DiskInv'
  <2>0. boot = "up" /\ Installing /\ \A q \in Proc : buf[q] = NoBlock /\ (Committer(q) => q = p)
    BY Zenon, <1>11, <1>0, NoneLocked DEF erase_head, Committer, Installing
  <2>1. /\ tail > Len(lh) /\ lh' = << >> /\ hd' = << >> /\ tail' = 1
        /\ UNCHANGED <<home, logd, cache, dirty, boot, buf>>
    BY Zenon, <1>11 DEF erase_head, ClearLog
  <2>2. \A q \in Proc : pc'[q] \notin {"write_log", "install"}
    BY Zenon, <1>11, <2>0, <1>0 DEF erase_head, Committer
  <2> QED
    BY Zenon, <2>0, <2>1, <2>2, <1>0, ClearDisk
<1>12. ASSUME NEW p \in Proc, commit_done(p) PROVE DiskInv'
  BY <1>12, <1>0, SameDisk DEF commit_done, Awake, disk, log
<1>13. ASSUME bget_recycle PROVE DiskInv'
  <2>1. PICK b \in Block : /\ cache[b] # NoBuf /\ b \notin dirty /\ \A q \in Proc : buf[q] # b
                           /\ cache' = [cache EXCEPT ![b] = NoBuf]
    BY Zenon, <1>13 DEF bget_recycle
  <2>2. UNCHANGED <<home, logd, hd, dirty, lh, tail, boot, pc, buf>>
    BY Zenon, <1>13 DEF bget_recycle, disk, log
  <2>3. cache[b] = home[b]
    BY Zenon, <2>1, <1>0, Evictable
  <2>4. \A c \in Block : Read(c)' = Read(c)
    BY Zenon, <2>1, <2>2, <2>3, <1>0 DEF Read
  <2>5. Installing' <=> Installing
    BY Zenon, <2>2 DEF Installing
  <2>6. (HeadOnDisk /\ Distinct /\ FromFirst /\ Pinned)'
    BY Zenon, <2>2, <2>5, <1>0 DEF HeadOnDisk, Distinct, FromFirst, Pinned
  <2>7. Copied'
    BY <2>2, <2>4, <2>5, <1>0 DEF Copied
  <2>8. Clean'
    BY Zenon, <2>1, <2>2, <1>0 DEF Clean, Logged
  <2> QED
    BY Zenon, <2>6, <2>7, <2>8 DEF DiskInv
<1>14. ASSUME read_head PROVE DiskInv'
  <2>1. /\ boot = "read_head" /\ boot' = "install" /\ lh' = hd
        /\ UNCHANGED <<home, logd, hd, cache, tail, pc>>
    BY Zenon, <1>14 DEF read_head, disk
  <2>2. ~Installing' /\ \A q \in Proc : pc[q] \notin {"write_log", "install"}
    BY Zenon, <2>1, <1>0 DEF BootAlone, Installing
  <2>3. tail = 1
    BY Zenon, <2>1, <2>2, <1>0 DEF FromFirst
  <2>4. (HeadOnDisk /\ Distinct /\ FromFirst /\ Pinned)'
    BY <2>1, <1>0 DEF HeadOnDisk, Distinct, FromFirst, Pinned
  <2>5. Copied'
    BY <2>1, <2>2, <2>3 DEF Copied
  <2>6. Clean'
    BY Zenon, <2>1, <1>0 DEF Clean
  <2> QED
    BY Zenon, <2>4, <2>5, <2>6 DEF DiskInv
<1>15. ASSUME recover_install PROVE DiskInv'
  <2>1. /\ boot = "install" /\ ~Installing /\ ~Installing'
        /\ UNCHANGED <<logd, hd, lh, boot, pc, buf>>
    BY Zenon, <1>15, <1>0 DEF recover_install, BootAlone, Installing, log
  <2> QED
    BY Zenon, <1>15, <2>1, <1>0, InstallDisk DEF recover_install
<1>16. ASSUME recover_clear PROVE DiskInv'
  <2>1. /\ tail > Len(lh) /\ lh' = << >> /\ hd' = << >> /\ tail' = 1 /\ boot' = "up"
        /\ boot = "install" /\ UNCHANGED <<home, logd, cache, dirty, pc, buf>>
    BY Zenon, <1>16 DEF recover_clear, ClearLog
  <2>2. \A q \in Proc : pc'[q] \notin {"write_log", "install"} /\ buf[q] = NoBlock
    BY Zenon, <2>1, <1>0 DEF BootAlone, Locked
  <2> QED
    BY Zenon, <2>1, <2>2, <1>0, ClearDisk
<1>17. ASSUME crash PROVE DiskInv'
  <2>1. /\ boot' = "read_head" /\ lh' = << >> /\ tail' = 1 /\ UNCHANGED <<home, logd, hd>>
        /\ cache' = [b \in Block |-> NoBuf]
    BY Zenon, <1>17 DEF crash, disk
  <2>2. (HeadOnDisk /\ Distinct /\ FromFirst /\ Pinned)'
    BY <2>1, <1>0 DEF HeadOnDisk, Distinct, FromFirst, Pinned
  <2>3. (Copied /\ Clean)'
    BY <2>1, <1>0, SMTT(30) DEF Copied, Clean
  <2> QED
    BY Zenon, <2>2, <2>3 DEF DiskInv
<1> QED
  BY SMTT(30), <1>1, <1>2, <1>3, <1>4, <1>5, <1>6, <1>7, <1>8, <1>9,
     <1>10, <1>11, <1>12, <1>13, <1>14, <1>15, <1>16, <1>17 DEF Next, Commit, Recover

-----------------------------------------------------------------------------
\* Recovery finds a block of the header in the log and any other at home.
LEMMA RecoveredIs ==
  ASSUME Distinct, NEW b
  PROVE  /\ \A i \in 1 .. Len(hd) : hd[i] = b => Recovered(b) = logd[i]
         /\ (\A i \in 1 .. Len(hd) : hd[i] # b) => Recovered(b) = home[b]
<1>1. ASSUME NEW i \in 1 .. Len(hd), hd[i] = b PROVE Recovered(b) = logd[i]
  <2>1. (CHOOSE j \in 1 .. Len(hd) : hd[j] = b) \in 1 .. Len(hd)
    BY Zenon, <1>1
  <2>2. hd[CHOOSE j \in 1 .. Len(hd) : hd[j] = b] = b
    BY Zenon, <1>1
  <2>3. (CHOOSE j \in 1 .. Len(hd) : hd[j] = b) = i
    BY Zenon, <1>1, <2>1, <2>2 DEF Distinct
  <2> QED
    BY Zenon, <1>1, <2>3 DEF Recovered
<1>2. ASSUME \A i \in 1 .. Len(hd) : hd[i] # b PROVE Recovered(b) = home[b]
  BY Zenon, <1>2 DEF Recovered
<1> QED
  BY Zenon, <1>1, <1>2

\* The invariant holds on the disk mkfs has made, and for good.
THEOREM DiskInvariant == Spec => []DiskInv
<1>1. Init => DiskInv
  BY DEF Init, DiskInv, HeadOnDisk, Distinct, FromFirst, Copied, Pinned, Clean
<1>2. SpaceInv /\ DiskInv /\ Next => DiskInv'
  BY Zenon, NextDisk
<1>3. DiskInv /\ UNCHANGED <<vars, opblocks>> => DiskInv'
  BY Zenon, SameDisk DEF vars
<1> QED
  BY <1>1, <1>2, <1>3, SpaceInvariant, PTL DEF Spec

\* A reboot would find all that the running kernel reads, once the last call is
\* out and its commit() over.
THEOREM QuiescentDurableHolds == Spec => []QuiescentDurable
<1>1. SpaceInv /\ DiskInv => QuiescentDurable
  <2> SUFFICES ASSUME SpaceInv, DiskInv, Up, outstanding = 0, ~committing, NEW b \in Block
               PROVE  Recovered(b) = Read(b)
    BY Zenon DEF QuiescentDurable
  <2>1. \A p \in Proc : ~Committer(p) /\ ~InOp(p)
    BY Zenon, InIsCounted DEF SpaceInv, Structure, Counted
  <2>2. ~Installing /\ boot = "up" /\ \A p \in Proc : buf[p] = NoBlock
    BY Zenon, <2>1 DEF Installing, Committer, Up, SpaceInv, Structure, Locked, InOp
  <2>3. hd = << >> /\ lh = << >>
    BY Zenon, <2>2 DEF DiskInv, HeadOnDisk, SpaceInv, Structure, Drained
  <2>4. Recovered(b) = home[b]
    BY <2>3 DEF Recovered
  <2>5. cache[b] = NoBuf \/ cache[b] = home[b]
    BY <2>2, <2>3, ValueAssumption DEF DiskInv, Clean, Logged
  <2> QED
    BY Zenon, <2>4, <2>5 DEF Read
<1> QED
  BY <1>1, DiskInvariant, SpaceInvariant, PTL

-----------------------------------------------------------------------------
\* What recovery makes of a block: its logged copy if the header names it.
RecoveredRight ==
  \A b \in Block : /\ \A i \in 1 .. Len(hd) : hd[i] = b => Recovered(b) = logd[i]
                   /\ (\A i \in 1 .. Len(hd) : hd[i] # b) => Recovered(b) = home[b]
\* The header on the disk names a block once, so recovery has one copy to
\* install (log.c:68-80), also after a step.
LEMMA RecoveredNext == Distinct' => RecoveredRight'
<1>1. Distinct => RecoveredRight
  BY Zenon, RecoveredIs DEF RecoveredRight
<1> QED
  BY <1>1, PTL

\* The abstract state: what a reboot would find, and what the kernel reads.
Stable == [b \in Block |-> Recovered(b)]
Mem == [b \in Block |-> IF boot = "up" THEN Read(b) ELSE Recovered(b)]

\* Where no header is on the disk, its log blocks do not matter.
LEMMA SameStable ==
  ASSUME UNCHANGED <<home, hd>>, hd = << >> \/ UNCHANGED logd
  PROVE  \A b \in Block : Recovered(b)' = Recovered(b)
BY DEF Recovered

\* A step of the log that the abstract system does not see.
LEMMA Unseen ==
  ASSUME \A b \in Block : Recovered(b)' = Recovered(b),
         \/ boot = "up" /\ boot' = "up" /\ \A b \in Block : Read(b)' = Read(b)
         \/ boot # "up" /\ boot' # "up"
         \/ boot # "up" /\ boot' = "up" /\ \A b \in Block : Read(b)' = Recovered(b)
  PROVE  Stable' = Stable /\ Mem' = Mem
BY Zenon DEF Stable, Mem

\* The steps of FsTxn in these terms.
LEMMA TxnSteps ==
  /\ \A p \in Proc : p \notin Active /\ Active' = Active \cup {p} /\ Stable' = Stable /\ Mem' = Mem
       => Txn!Begin(p)
  /\ \A p \in Proc, b \in Block, v \in Val :
       p \in Active /\ Mem' = [Mem EXCEPT ![b] = v] /\ Stable' = Stable /\ Active' = Active
       => Txn!Write(p)
  /\ \A p \in Proc : p \in Active /\ Active' = Active \ {p} /\ Stable' = Stable /\ Mem' = Mem
       => Txn!End(p)
  /\ Active = {} /\ Active' = {} /\ Stable' = Mem /\ Mem' = Mem => Txn!Commit
  /\ Mem' = Stable /\ Active' = {} /\ Stable' = Stable => Txn!Crash
  /\ Stable' = Stable /\ Mem' = Mem /\ Active' = Active => UNCHANGED Txn!vars
BY Zenon DEF Stable, Mem, Active, Txn!Begin, Txn!Write, Txn!End, Txn!Commit, Txn!Crash, Txn!vars

\* Writing a committed block home changes nothing for recovery or for readers.
LEMMA InstallSame ==
  ASSUME SpaceInv, DiskInv, InstallBlock, hd = lh, UNCHANGED <<logd, hd>>, NEW b \in Block
  PROVE  Recovered(b)' = Recovered(b)
<1>0. home \in [Block -> Val] /\ lh \in Seq(Block) /\ tail \in Nat \ {0} /\ Distinct
  BY Zenon DEF SpaceInv, TypeOK, DiskInv
<1>1. tail \in 1 .. Len(lh) /\ lh[tail] \in Block /\ home' = [home EXCEPT ![lh[tail]] = logd[tail]]
  BY <1>0 DEF InstallBlock
<1>2. CASE \E i \in 1 .. Len(hd) : hd[i] = b
  BY Zenon, <1>2 DEF Recovered
<1>3. CASE ~\E i \in 1 .. Len(hd) : hd[i] = b
  <2>1. home'[b] = home[b]
    BY Zenon, <1>0, <1>1, <1>3
  <2> QED
    BY Zenon, <1>3, <2>1 DEF Recovered
<1> QED
  BY Zenon, <1>2, <1>3

\* install_trans() copies to a home block what readers already get from the
\* cache (log.c:68-80).
LEMMA InstallReads ==
  ASSUME SpaceInv, DiskInv, InstallBlock, Installing, NEW b \in Block
  PROVE  Read(b)' = Read(b)
<1>0. /\ home \in [Block -> Val] /\ lh \in Seq(Block) /\ tail \in Nat \ {0} /\ Copied
      /\ cache \in [Block -> Val \cup {NoBuf}] /\ logd \in [1 .. LOGSIZE -> Val] /\ Len(lh) <= LOGSIZE
  BY ReserveFinite, SizeAssumption DEF SpaceInv, TypeOK, DiskInv, Reserved, ReserveFits
<1>1. /\ tail \in 1 .. Len(lh) /\ lh[tail] \in Block /\ logd[tail] \in Val
      /\ home' = [home EXCEPT ![lh[tail]] = logd[tail]] /\ cache' = [cache EXCEPT ![lh[tail]] = logd[tail]]
  BY <1>0, SizeAssumption DEF InstallBlock
<1>2. logd[tail] = Read(lh[tail])
  BY Zenon, <1>0, <1>1 DEF Copied
<1>3. CASE b = lh[tail]
  BY Zenon, <1>0, <1>1, <1>2, <1>3, ValueAssumption DEF Read
<1>4. CASE b # lh[tail]
  BY <1>0, <1>1, <1>4 DEF Read
<1> QED
  BY Zenon, <1>3, <1>4

\* ... and when all of them are home the header may go.
LEMMA ClearSame ==
  ASSUME SpaceInv, DiskInv, hd = lh, tail > Len(lh), Installing \/ boot = "install",
         hd' = << >>, UNCHANGED <<home, logd>>, NEW b \in Block
  PROVE  Recovered(b)' = Recovered(b)
<1>0. lh \in Seq(Block) /\ tail \in Nat /\ Distinct /\ Copied
  BY Zenon DEF SpaceInv, TypeOK, DiskInv
<1>1. Recovered(b)' = home[b]
  BY SMTT(30) DEF Recovered
<1>2. ASSUME NEW i \in 1 .. Len(hd), hd[i] = b PROVE Recovered(b) = home[b]
  <2>1. logd[i] = home[lh[i]]
    BY <1>0, <1>2 DEF Copied
  <2> QED
    BY Zenon, <1>0, <1>2, <2>1, RecoveredIs
<1> QED
  BY Zenon, <1>0, <1>1, <1>2, RecoveredIs

\* Every step of the log is a step of the abstract system or none.
LEMMA StepIsTxn == SpaceInv /\ DiskInv /\ DiskInv' /\ Next => [Txn!Next]_(Txn!vars)
<1> SUFFICES ASSUME SpaceInv, DiskInv, DiskInv', Next PROVE [Txn!Next]_(Txn!vars)
  BY Zenon
<1>0. /\ SpaceInv /\ DiskInv /\ BootAlone /\ Locked
      /\ HeadOnDisk /\ Distinct /\ Copied /\ Clean
      /\ home \in [Block -> Val] /\ cache \in [Block -> Val \cup {NoBuf}] /\ lh \in Seq(Block)
      /\ tail \in Nat \ {0} /\ pc \in [Proc -> ProcPC]
  BY Zenon DEF SpaceInv, Structure, TypeOK, DiskInv
<1>b. Distinct'
  BY Zenon DEF DiskInv
<1>c. \A b \in Block : /\ \A i \in 1 .. Len(hd') : hd'[i] = b => Recovered(b)' = logd'[i]
                       /\ (\A i \in 1 .. Len(hd') : hd'[i] # b) => Recovered(b)' = home'[b]
  BY Zenon, <1>b, RecoveredNext DEF RecoveredRight
<1>1. ASSUME NEW p \in Proc, Call(p) PROVE [Txn!Next]_(Txn!vars)
  <2>1. UNCHANGED <<home, logd, hd, cache, boot>> /\ Active' = Active
    BY Zenon, <1>1, <1>0 DEF Call, Active, InOp, disk, log
  <2>2. Stable' = Stable /\ Mem' = Mem
    BY <2>1, SameStable, Unseen DEF Read
  <2> QED
    BY Zenon, <2>1, <2>2, TxnSteps
<1>2. ASSUME NEW p \in Proc, begin_op_sleep(p) PROVE [Txn!Next]_(Txn!vars)
  <2>1. UNCHANGED <<home, logd, hd, cache, boot>> /\ Active' = Active
    BY <1>2, <1>0 DEF begin_op_sleep, Active, InOp, disk, log
  <2>2. Stable' = Stable /\ Mem' = Mem
    BY Zenon, <2>1, SameStable, Unseen DEF Read
  <2> QED
    BY Zenon, <2>1, <2>2, TxnSteps
<1>3. ASSUME NEW p \in Proc, begin_op(p) PROVE [Txn!Next]_(Txn!vars)
  <2>1. UNCHANGED <<home, logd, hd, cache, boot>> /\ Active' = Active \cup {p} /\ p \notin Active
    BY Zenon, <1>3, <1>0 DEF begin_op, Active, InOp, disk, log
  <2>2. Stable' = Stable /\ Mem' = Mem
    BY Zenon, <2>1, SameStable, Unseen DEF Read
  <2> QED
    BY Zenon, <2>1, <2>2, TxnSteps DEF Txn!Next
<1>4. ASSUME NEW p \in Proc, bread(p) PROVE [Txn!Next]_(Txn!vars)
  <2>1. UNCHANGED <<home, logd, hd, boot>> /\ Active' = Active
    BY Zenon, <1>4 DEF bread, Active, InOp, disk
  <2>2. \A b \in Block : Read(b)' = Read(b)
    BY Zenon, <1>4, <1>0, ValueAssumption DEF bread, Read, disk
  <2>3. Stable' = Stable /\ Mem' = Mem
    BY Zenon, <2>1, <2>2, SameStable, Unseen
  <2> QED
    BY Zenon, <2>1, <2>3, TxnSteps
<1>5. ASSUME NEW p \in Proc, NEW b \in Block, NEW v \in Val, modify(p, b, v) PROVE [Txn!Next]_(Txn!vars)
  <2>0. Calm
    BY Zenon, <1>5, <1>0, CalmInOp DEF modify, InOp
  <2>1. UNCHANGED <<home, logd, hd, boot>> /\ Active' = Active /\ p \in Active /\ boot = "up"
    BY Zenon, <1>5, <2>0, <1>0 DEF modify, Calm, Active, InOp, disk
  <2>2. \A c \in Block : Read(c)' = IF c = b THEN v ELSE Read(c)
    BY Zenon, <1>5, <2>1, <1>0, ValueAssumption DEF modify, Read
  <2>3. Stable' = Stable
    BY Zenon, <2>1, SameStable DEF Stable
  <2>4. Mem' = [Mem EXCEPT ![b] = v]
    BY Zenon, <2>1, <2>2 DEF Mem
  <2> QED
    BY Zenon, <2>1, <2>3, <2>4, TxnSteps DEF Txn!Next
<1>6. ASSUME NEW p \in Proc, log_write(p) PROVE [Txn!Next]_(Txn!vars)
  <2>1. UNCHANGED <<home, logd, hd, cache, boot>> /\ Active' = Active
    BY <1>6, <1>0 DEF log_write, Active, InOp, disk, log
  <2>2. Stable' = Stable /\ Mem' = Mem
    BY Zenon, <2>1, SameStable, Unseen DEF Read
  <2> QED
    BY Zenon, <2>1, <2>2, TxnSteps
<1>7. ASSUME NEW p \in Proc, end_op(p) PROVE [Txn!Next]_(Txn!vars)
  <2>1. UNCHANGED <<home, logd, hd, cache, boot>> /\ Active' = Active \ {p} /\ p \in Active
    BY Zenon, <1>7, <1>0 DEF end_op, Awake, Active, InOp, disk, log
  <2>2. Stable' = Stable /\ Mem' = Mem
    BY Zenon, <2>1, SameStable, Unseen DEF Read
  <2> QED
    BY Zenon, <2>1, <2>2, TxnSteps DEF Txn!Next
<1>8. ASSUME NEW p \in Proc, write_log(p) PROVE [Txn!Next]_(Txn!vars)
  <2>1. boot = "up" /\ ~Installing
    BY Zenon, <1>8, <1>0, NoneLocked DEF write_log, Committer, Installing
  <2>2. hd = << >> /\ UNCHANGED <<home, hd, cache, boot>> /\ Active' = Active
    BY Zenon, <1>8, <2>1, <1>0 DEF write_log, HeadOnDisk, Active, InOp
  <2>3. Stable' = Stable /\ Mem' = Mem
    BY Zenon, <2>2, SameStable, Unseen DEF Read
  <2> QED
    BY Zenon, <2>2, <2>3, TxnSteps
<1>9. ASSUME NEW p \in Proc, write_head(p) PROVE [Txn!Next]_(Txn!vars)
  <2>1. /\ boot = "up" /\ ~Installing
        /\ \A q \in Proc : buf[q] = NoBlock /\ ~InOp(q) /\ (Committer(q) => q = p)
    BY Zenon, <1>9, <1>0, NoneLocked DEF write_head, Committer, Installing
  <2>2. /\ UNCHANGED <<home, logd, cache, boot>> /\ Active = {} /\ Active' = {}
        /\ hd' = lh /\ tail > Len(lh)
    BY <1>9, <2>1, <1>0 DEF write_head, Active, InOp
  <2>3. ASSUME NEW b \in Block PROVE Recovered(b)' = Read(b)
    <3>1. ASSUME NEW i \in 1 .. Len(lh), lh[i] = b PROVE Recovered(b)' = Read(b)
      <4>1. logd[i] = Read(b)
        BY <1>9, <2>2, <3>1, <1>0 DEF write_head, Copied
      <4>2. i \in 1 .. Len(hd') /\ hd'[i] = b
        BY Zenon, <2>2, <3>1
      <4>3. Recovered(b)' = logd'[i]
        BY Zenon, <4>2, <1>c
      <4> QED
        BY Zenon, <2>2, <4>1, <4>3
    <3>2. ASSUME \A i \in 1 .. Len(lh) : lh[i] # b PROVE Recovered(b)' = Read(b)
      <4>1. cache[b] = NoBuf \/ cache[b] = home[b]
        BY <2>1, <3>2, <1>0, ValueAssumption DEF Clean, Logged
      <4> QED
        BY Zenon, <2>2, <3>2, <4>1, <1>c DEF Read
    <3> QED
      BY Zenon, <3>1, <3>2
  <2>4. Stable' = Mem /\ Mem' = Mem
    BY Zenon, <2>1, <2>2, <2>3 DEF Stable, Mem, Read
  <2> QED
    BY Zenon, <2>2, <2>4, TxnSteps DEF Txn!Next
<1>10. ASSUME NEW p \in Proc, install_trans(p) PROVE [Txn!Next]_(Txn!vars)
  <2>1. boot = "up" /\ Installing /\ hd = lh
    BY Zenon, <1>10, <1>0, NoneLocked DEF install_trans, Committer, Installing, HeadOnDisk
  <2>2. UNCHANGED <<logd, hd, lh, boot, pc>> /\ Active' = Active
    BY Zenon, <1>10 DEF install_trans, Active, InOp, log
  <2>3. \A b \in Block : Recovered(b)' = Recovered(b)
    BY Zenon, <1>10, <2>1, <2>2, <1>0, InstallSame DEF install_trans
  <2>4. \A b \in Block : Read(b)' = Read(b)
    BY Zenon, <1>10, <2>1, <1>0, InstallReads DEF install_trans
  <2>5. Stable' = Stable /\ Mem' = Mem
    BY Zenon, <2>1, <2>2, <2>3, <2>4, Unseen
  <2> QED
    BY Zenon, <2>2, <2>5, TxnSteps
<1>11. ASSUME NEW p \in Proc, erase_head(p) PROVE [Txn!Next]_(Txn!vars)
  <2>1. boot = "up" /\ Installing /\ hd = lh
    BY Zenon, <1>11, <1>0, NoneLocked DEF erase_head, Committer, Installing, HeadOnDisk
  <2>2. UNCHANGED <<home, logd, cache>> /\ boot' = "up" /\ hd' = << >> /\ tail > Len(lh)
    BY Zenon, <1>11, <2>1 DEF erase_head, ClearLog
  <2>3. Active' = Active
    BY Zenon, <1>11, <1>0 DEF erase_head, Active, InOp
  <2>4. \A b \in Block : Recovered(b)' = Recovered(b)
    BY Zenon, <2>1, <2>2, <1>0, ClearSame
  <2>5. Stable' = Stable /\ Mem' = Mem
    BY <2>1, <2>2, <2>4, Unseen DEF Read
  <2> QED
    BY Zenon, <2>3, <2>5, TxnSteps
<1>12. ASSUME NEW p \in Proc, commit_done(p) PROVE [Txn!Next]_(Txn!vars)
  <2>1. UNCHANGED <<home, logd, hd, cache, boot>> /\ Active' = Active
    BY <1>12, <1>0 DEF commit_done, Awake, Active, InOp, disk, log
  <2>2. Stable' = Stable /\ Mem' = Mem
    BY Zenon, <2>1, SameStable, Unseen DEF Read
  <2> QED
    BY Zenon, <2>1, <2>2, TxnSteps
<1>13. ASSUME bget_recycle PROVE [Txn!Next]_(Txn!vars)
  <2>1. UNCHANGED <<home, logd, hd, boot>> /\ Active' = Active
    BY Zenon, <1>13 DEF bget_recycle, Active, InOp, disk
  <2>2. \A b \in Block : Read(b)' = Read(b)
    <3>1. PICK b \in Block : /\ cache[b] # NoBuf /\ b \notin dirty /\ \A q \in Proc : buf[q] # b
                             /\ cache' = [cache EXCEPT ![b] = NoBuf]
      BY Zenon, <1>13 DEF bget_recycle
    <3>2. cache[b] = home[b]
      BY Zenon, <3>1, <1>0, Evictable
    <3> QED
      BY Zenon, <2>1, <3>1, <3>2, <1>0 DEF Read
  <2>3. Stable' = Stable /\ Mem' = Mem
    BY Zenon, <2>1, <2>2, SameStable, Unseen
  <2> QED
    BY Zenon, <2>1, <2>3, TxnSteps
<1>14. ASSUME read_head PROVE [Txn!Next]_(Txn!vars)
  <2>1. UNCHANGED <<home, logd, hd>> /\ boot # "up" /\ boot' # "up" /\ Active' = Active
    BY Zenon, <1>14 DEF read_head, disk, Active, InOp
  <2>2. Stable' = Stable /\ Mem' = Mem
    BY Zenon, <2>1, SameStable, Unseen
  <2> QED
    BY Zenon, <2>1, <2>2, TxnSteps
<1>15. ASSUME recover_install PROVE [Txn!Next]_(Txn!vars)
  <2>1. boot = "install" /\ hd = lh
    BY Zenon, <1>15, <1>0 DEF recover_install, Committer, Installing, HeadOnDisk
  <2>2. UNCHANGED <<logd, hd, lh, boot, pc>> /\ Active' = Active
    BY Zenon, <1>15 DEF recover_install, Active, InOp, log
  <2>3. \A b \in Block : Recovered(b)' = Recovered(b)
    BY Zenon, <1>15, <2>1, <2>2, <1>0, InstallSame DEF recover_install
  <2>4. Stable' = Stable /\ Mem' = Mem
    BY Zenon, <2>1, <2>2, <2>3, Unseen
  <2> QED
    BY Zenon, <2>2, <2>4, TxnSteps
<1>16. ASSUME recover_clear PROVE [Txn!Next]_(Txn!vars)
  <2>1. boot = "install" /\ hd = lh
    BY Zenon, <1>16, <1>0 DEF recover_clear, Committer, Installing, HeadOnDisk
  <2>2. UNCHANGED <<home, logd, cache>> /\ boot' = "up" /\ hd' = << >> /\ tail > Len(lh)
    BY Zenon, <1>16, <2>1 DEF recover_clear, ClearLog
  <2>3. Active' = Active
    BY Zenon, <1>16, <1>0 DEF recover_clear, Active, InOp
  <2>4. \A b \in Block : Recovered(b)' = Recovered(b)
    BY Zenon, <2>1, <2>2, <1>0, ClearSame
  <2>5. \A b \in Block : Read(b)' = Recovered(b)
    <3> TAKE b \in Block
    <3>1. Recovered(b)' = home[b]
      BY <2>2 DEF Recovered
    <3>2. Read(b)' = home[b]
      BY Zenon, <2>1, <2>2, <1>0 DEF Read, Clean
    <3> QED
      BY Zenon, <2>4, <3>1, <3>2
  <2>6. Stable' = Stable /\ Mem' = Mem
    BY Zenon, <2>1, <2>2, <2>4, <2>5, Unseen
  <2> QED
    BY Zenon, <2>3, <2>6, TxnSteps
<1>17. ASSUME crash PROVE [Txn!Next]_(Txn!vars)
  <2>1. UNCHANGED <<home, logd, hd>> /\ boot' # "up" /\ Active' = {}
    BY Zenon, <1>17 DEF crash, disk, Active, InOp
  <2>2. Stable' = Stable /\ Mem' = Stable
    BY Zenon, <2>1, SameStable DEF Stable, Mem
  <2> QED
    BY Zenon, <2>1, <2>2, TxnSteps DEF Txn!Next
<1> QED
  BY ZenonT(30), <1>1, <1>2, <1>3, <1>4, <1>5, <1>6, <1>7, <1>8, <1>9,
     <1>10, <1>11, <1>12, <1>13, <1>14, <1>15, <1>16, <1>17 DEF Next, Commit, Recover

\* log.c implements atomic group commit: a power failure at any point, also
\* during recovery, leaves the disk as the last commit() with no call in
\* progress found it.
THEOREM CrashAtomicHolds == Spec => CrashAtomic
<1>1. Init => Txn!Init
  <2> SUFFICES ASSUME Init PROVE Txn!Init
    BY Zenon
  <2>1. \A b \in Block : Recovered(b) = home[b] /\ home[b] \in Val
    BY DEF Init, Recovered
  <2>2. Stable \in [Block -> Val] /\ Mem = Stable /\ Active = {}
    BY Zenon, <2>1 DEF Init, Stable, Mem, Active, InOp
  <2> QED
    BY Zenon, <2>2 DEF Txn!Init, Stable, Mem, Active
<1>2. SpaceInv /\ DiskInv /\ DiskInv' /\ Next => [Txn!Next]_(Txn!vars)
  BY Zenon, StepIsTxn
<1>3. UNCHANGED <<vars, opblocks>> => [Txn!Next]_(Txn!vars)
  BY Zenon DEF vars, Txn!vars, Recovered, Read, InOp
<1> QED
  BY <1>1, <1>2, <1>3, SpaceInvariant, DiskInvariant, PTL DEF Spec, CrashAtomic, Txn!Spec
=============================================================================
