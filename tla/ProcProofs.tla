---------------------------- MODULE ProcProofs ----------------------------
(***************************************************************************)
(* The safety of the process table for any number of slots, CPUs and       *)
(* forks.  userinit() establishes the inductive invariant; fork(), exit(), *)
(* wait(), kill() and the context switches preserve it.                    *)
(***************************************************************************)
EXTENDS Proc, TLAPS

Live(s) == state[s] \in {"RUNNABLE", "RUNNING", "SLEEPING"}
Forking(p) == pc[p] \in {"fork_kstack", "fork_copy", "fork_run"}

\* Who holds ptable.lock: a scheduler in its loop, or a process on its way
\* into or out of swtch().
LockHolder ==
  \A c \in CPU :
    lock = c <=> IF on[c] = 0 THEN scan[c] # 0
                 ELSE sw[on[c]] # "no" \/ pc[on[c]] \in {"wait", "forkret"}

\* scheduler() stands at the process it has switched to.
ScanAtProcess == \A c \in CPU : on[c] # 0 => scan[c] = on[c]

\* The state of a process that runs on a CPU: RUNNING, or what yield(),
\* sleep() or exit() has just made of it.
RunningState ==
  \A c \in CPU : on[c] # 0 =>
    LET s == on[c] IN
    \/ state[s] = "RUNNING" /\ sw[s] # "exit"
    \/ state[s] = "RUNNABLE" /\ sw[s] = "yield"
    \/ state[s] = "SLEEPING" /\ sw[s] = "sleep"
    \/ state[s] = "ZOMBIE" /\ sw[s] = "exit"

\* The context of a process that does not: inside sched(), or before forkret().
ParkedContext ==
  \A s \in Slot :
    /\ (\A c \in CPU : on[c] # s) =>
         /\ state[s] # "RUNNING"
         /\ Live(s) => \/ sw[s] \in {"yield", "sleep"}
                       \/ sw[s] = "no" /\ pc[s] = "forkret"
    /\ Live(s) /\ sw[s] = "sleep" => pc[s] = "wait"
    /\ Live(s) /\ sw[s] = "yield" => pc[s] \notin {"wait", "forkret"}
    /\ state[s] = "SLEEPING" => sw[s] = "sleep" /\ chan[s] = s

\* A slot in the making belongs to one fork(), which has got as far with it as
\* its pc says.
EmbryoOwned ==
  /\ \A p \in Slot : Forking(p) =>
       /\ Live(p)
       /\ np[p] \in Slot
       /\ state[np[p]] = "EMBRYO"
       /\ np[p] \in kstack <=> pc[p] # "fork_kstack"
       /\ np[p] \in pgdir <=> pc[p] = "fork_run"
       /\ parent[np[p]] = IF pc[p] = "fork_run" THEN p ELSE 0
       /\ pc[p] # "fork_kstack" => pc[np[p]] = "forkret" /\ sw[np[p]] = "no"
  /\ \A p, q \in Slot : Forking(p) /\ Forking(q) /\ np[p] = np[q] => p = q

\* The process tree.
Family ==
  /\ Live(InitProc) /\ parent[InitProc] = 0
  /\ \A s \in Slot :
       /\ parent[s] # 0 => parent[s] # s /\ Live(parent[s])
       /\ state[s] = "UNUSED" => parent[s] = 0
       /\ s # InitProc /\ state[s] \notin {"UNUSED", "EMBRYO"} => parent[s] # 0

\* Pids in use are older than nextpid.
PidsUsed == \A s \in Slot : state[s] # "UNUSED" => pid[s] < nextpid

\* The inductive invariant.
IInv == /\ TypeOK
        /\ LockHolder /\ ScanAtProcess /\ OneCPUPerStack
        /\ RunningState /\ ParkedContext
        /\ EmbryoOwned /\ MemoryMatchesState
        /\ Family /\ NoMissedExit
        /\ PidsUsed /\ PidsUnique
        /\ OnlyInitPanics

\* The process table stays as it is in a step that changes no process's state.
LEMMA SameTable ==
  ASSUME MemoryMatchesState, Family, NoMissedExit, PidsUsed, PidsUnique,
         UNCHANGED <<state, pid, parent, kstack, pgdir, nextpid>>
  PROVE  MemoryMatchesState' /\ Family' /\ NoMissedExit' /\ PidsUsed' /\ PidsUnique'
<1>1. MemoryMatchesState'
  BY Zenon DEF MemoryMatchesState
<1>2. Family'
  BY Zenon DEF Family, Live
<1>3. NoMissedExit'
  BY Zenon DEF NoMissedExit
<1>4. PidsUsed' /\ PidsUnique'
  BY Zenon DEF PidsUsed, PidsUnique
<1> QED
  BY <1>1, <1>2, <1>3, <1>4, Zenon

\* So do the CPUs in a step without swtch().
LEMMA SameCPUs ==
  ASSUME ScanAtProcess, OneCPUPerStack, OnlyInitPanics, UNCHANGED <<on, scan, panic>>
  PROVE  ScanAtProcess' /\ OneCPUPerStack' /\ OnlyInitPanics'
  BY Zenon DEF ScanAtProcess, OneCPUPerStack, OnlyInitPanics

-----------------------------------------------------------------------------
\* The provers see slots as the elements of a set with the null pointer
\* outside it, except where the arithmetic of scan matters.
LEMMA SlotFacts == InitProc \in Slot /\ 0 \notin Slot
BY NPROCAssumption DEF Slot, InitProc

\* The scheduler's place in its loop, from before the first slot to past the
\* last (proc.c:338).
LEMMA ScanFacts ==
  /\ 0 \in 0 .. NPROC + 1
  /\ 1 \in 0 .. NPROC + 1
  /\ \A s \in Slot : s \in 0 .. NPROC + 1 /\ s + 1 \in 0 .. NPROC + 1 /\ s + 1 # 0
BY NPROCAssumption DEF Slot

\* userinit() leaves a table that satisfies the invariant.
LEMMA InitIInv == Init => IInv
<1> SUFFICES ASSUME Init PROVE IInv
  BY Zenon
<1>1. TypeOK
  <2>1. pid \in [Slot -> Nat] /\ nextpid \in Nat
    BY Zenon DEF Init
  <2>2. scan \in [CPU -> 0 .. NPROC + 1]
    BY Zenon, ScanFacts DEF Init
  <2>3. /\ state \in [Slot -> State] /\ pc \in [Slot -> PC]
        /\ lock \in CPU \cup {NoCPU}
        /\ panic \in {"no", "init_exiting", "sched", "switchuvm"}
    BY Zenon DEF Init, State, PC
  <2>4. /\ parent \in [Slot -> Slot \cup {0}] /\ chan \in [Slot -> Slot \cup {0}]
        /\ np \in [Slot -> Slot \cup {0}] /\ on \in [CPU -> Slot \cup {0}]
        /\ sw \in [Slot -> {"no", "yield", "sleep", "exit"}]
    BY Zenon DEF Init
  <2>5. killed \subseteq Slot /\ kstack \subseteq Slot /\ pgdir \subseteq Slot
    BY Zenon, SlotFacts DEF Init
  <2> QED
    BY Zenon, <2>1, <2>2, <2>3, <2>4, <2>5 DEF TypeOK
<1>2. LockHolder /\ ScanAtProcess /\ OneCPUPerStack /\ RunningState
  BY Zenon, NoCPUAssumption DEF Init, LockHolder, ScanAtProcess, OneCPUPerStack,
     RunningState
<1>3. ParkedContext
  BY Zenon DEF Init, ParkedContext, Live
<1>4. EmbryoOwned
  BY Zenon DEF Init, EmbryoOwned, Forking
<1>5. MemoryMatchesState /\ Family /\ NoMissedExit /\ PidsUnique
  BY Zenon, SlotFacts DEF Init, MemoryMatchesState, Family, Live, NoMissedExit,
     PidsUnique
<1>6. PidsUsed
  <2> SUFFICES ASSUME NEW s \in Slot PROVE pid[s] < nextpid
    BY Zenon DEF PidsUsed
  <2>1. (pid[s] = 1 \/ pid[s] = 0) /\ nextpid = 2
    BY Zenon DEF Init
  <2> QED
    BY <2>1
<1>7. OnlyInitPanics
  BY Zenon DEF Init, OnlyInitPanics
<1> QED
  BY Zenon, <1>1, <1>2, <1>3, <1>4, <1>5, <1>6, <1>7 DEF IInv

\* A process that holds no lock and has no fork() under way moves on, and at
\* most killed changes besides.
LEMMA PcStep ==
  ASSUME IInv, NEW c \in CPU, NEW p \in Slot, on[c] = p, sw[p] = "no",
         pc[p] \in {"user", "call", "ret"},
         NEW l \in {"user", "call", "exit", "ret"},
         pc' = [pc EXCEPT ![p] = l],
         killed' \subseteq Slot,
         UNCHANGED <<state, pid, parent, chan, kstack, pgdir, nextpid, lock, on,
                     scan, sw, np, panic>>
  PROVE  IInv'
<1>1. TypeOK'
  BY Zenon DEF IInv, TypeOK, PC
<1>2. LockHolder'
  BY Zenon, SlotFacts DEF IInv, TypeOK, LockHolder
<1>3. ParkedContext'
  BY DEF IInv, ParkedContext, Live
<1>4. EmbryoOwned'
  BY DEF IInv, EmbryoOwned, Live, Forking
<1>5. /\ ScanAtProcess' /\ OneCPUPerStack' /\ RunningState' /\ MemoryMatchesState'
      /\ Family' /\ NoMissedExit' /\ PidsUsed' /\ PidsUnique' /\ OnlyInitPanics'
  BY DEF IInv, ScanAtProcess, OneCPUPerStack, RunningState, MemoryMatchesState,
         Family, Live, NoMissedExit, PidsUsed, PidsUnique, OnlyInitPanics
<1> QED
  BY Zenon, <1>1, <1>2, <1>3, <1>4, <1>5 DEF IInv

\* panic("init exiting") stops the machine with the table as it is.
LEMMA InitExitsIInv == ASSUME IInv, NEW c \in CPU, init_exits(c) PROVE IInv'
<1>1. TypeOK'
  BY Zenon DEF IInv, init_exits, thread, TypeOK
<1>2. LockHolder'
  BY Zenon DEF IInv, init_exits, thread, LockHolder
<1>3. RunningState'
  BY Zenon DEF IInv, init_exits, thread, RunningState
<1>4. ParkedContext'
  BY Zenon DEF IInv, init_exits, thread, ParkedContext, Live
<1>5. EmbryoOwned'
  BY Zenon DEF IInv, init_exits, thread, EmbryoOwned, Forking, Live
<1>6. /\ ScanAtProcess' /\ OneCPUPerStack' /\ MemoryMatchesState' /\ Family'
      /\ NoMissedExit' /\ PidsUsed' /\ PidsUnique' /\ OnlyInitPanics'
  <2>1. MemoryMatchesState' /\ Family' /\ NoMissedExit' /\ PidsUsed' /\ PidsUnique'
    BY SameTable, Zenon DEF IInv, init_exits
  <2>2. ScanAtProcess'
    BY Zenon DEF IInv, init_exits, TypeOK, ScanAtProcess
  <2>3. OneCPUPerStack' /\ OnlyInitPanics'
    BY Zenon DEF IInv, init_exits, OneCPUPerStack, OnlyInitPanics
  <2> QED
    BY <2>1, <2>2, <2>3, Zenon
<1> QED
  BY Zenon, <1>1, <1>2, <1>3, <1>4, <1>5, <1>6 DEF IInv

\* allocproc() takes an UNUSED slot and the next pid.
LEMMA ForkAllocIInv == ASSUME IInv, NEW c \in CPU, fork_alloc(c) PROVE IInv'
<1>1. TypeOK'
  BY SMTT(60) DEF IInv, fork_alloc, TypeOK, State, PC
<1>2. LockHolder'
  BY NoCPUAssumption, SMTT(60) DEF IInv, fork_alloc, LockHolder
<1>3. RunningState'
  BY SMTT(60) DEF IInv, fork_alloc, RunningState
<1>4. ParkedContext'
  BY SMTT(60) DEF IInv, fork_alloc, At, ParkedContext, Live
<1>5. EmbryoOwned'
  BY SMTT(60) DEF IInv, fork_alloc, At, TypeOK, EmbryoOwned, Forking, Live,
     RunningState, Family, MemoryMatchesState
<1>6. PidsUsed'
  BY SMTT(60) DEF IInv, fork_alloc, TypeOK, PidsUsed
<1>7. PidsUnique'
  BY SMTT(60) DEF IInv, fork_alloc, TypeOK, PidsUnique, PidsUsed
<1>8. /\ ScanAtProcess' /\ OneCPUPerStack' /\ MemoryMatchesState' /\ Family'
      /\ NoMissedExit' /\ OnlyInitPanics'
  BY SMTT(60) DEF IInv, fork_alloc, ScanAtProcess, OneCPUPerStack,
     MemoryMatchesState, Family, Live, NoMissedExit, OnlyInitPanics
<1> QED
  BY Zenon, <1>1, <1>2, <1>3, <1>4, <1>5, <1>6, <1>7, <1>8 DEF IInv

\* allocproc() gives the embryo its kernel stack.
LEMMA ForkKstackIInv == ASSUME IInv, NEW c \in CPU, fork_kstack(c) PROVE IInv'
<1>1. TypeOK'
  BY SMTT(60) DEF IInv, fork_kstack, At, TypeOK, PC, EmbryoOwned, Forking
<1>2. LockHolder'
  BY SMTT(60) DEF IInv, fork_kstack, At, TypeOK, LockHolder, RunningState,
     EmbryoOwned, Forking
<1>3. RunningState'
  BY SMTT(60) DEF IInv, fork_kstack, At, RunningState, EmbryoOwned, Forking
<1>4. ParkedContext'
  BY SMTT(60) DEF IInv, fork_kstack, At, TypeOK, ParkedContext, Live,
     EmbryoOwned, Forking
<1>5. EmbryoOwned'
  BY SMTT(60) DEF IInv, fork_kstack, At, TypeOK, EmbryoOwned, Forking, Live
<1>6. MemoryMatchesState'
  BY SMTT(60) DEF IInv, fork_kstack, At, MemoryMatchesState, EmbryoOwned,
     Forking
<1>7. Family' /\ NoMissedExit'
  BY SMTT(60) DEF IInv, fork_kstack, Family, Live, NoMissedExit
<1>8. PidsUsed' /\ PidsUnique'
  BY SMTT(60) DEF IInv, fork_kstack, PidsUsed, PidsUnique
<1>9. ScanAtProcess' /\ OneCPUPerStack' /\ OnlyInitPanics'
  BY Zenon DEF IInv, fork_kstack, ScanAtProcess, OneCPUPerStack,
     OnlyInitPanics
<1> QED
  BY Zenon, <1>1, <1>2, <1>3, <1>4, <1>5, <1>6, <1>7, <1>8, <1>9 DEF IInv

\* allocproc() without memory for a stack gives the slot back.
LEMMA ForkNomemIInv == ASSUME IInv, NEW c \in CPU, fork_nomem(c) PROVE IInv'
<1>1. TypeOK'
  BY SMTT(60) DEF IInv, fork_nomem, At, Goto, TypeOK, State, PC, EmbryoOwned,
     Forking
<1>2. LockHolder'
  BY SMTT(60) DEF IInv, fork_nomem, At, Goto, LockHolder
<1>3. RunningState'
  BY SMTT(60) DEF IInv, fork_nomem, At, Goto, RunningState, EmbryoOwned,
     Forking
<1>4. ParkedContext'
  BY SMTT(60) DEF IInv, fork_nomem, At, Goto, ParkedContext, Live
<1>5. EmbryoOwned'
  BY SMTT(60) DEF IInv, fork_nomem, At, Goto, TypeOK, EmbryoOwned, Forking,
     Live
<1>6. MemoryMatchesState'
  BY SMTT(60) DEF IInv, fork_nomem, At, MemoryMatchesState, EmbryoOwned,
     Forking
<1>7. Family'
  BY SMTT(60) DEF IInv, fork_nomem, At, Family, Live, EmbryoOwned, Forking
<1>8. NoMissedExit'
  BY SMTT(60) DEF IInv, fork_nomem, NoMissedExit
<1>9. PidsUsed' /\ PidsUnique'
  BY SMTT(60) DEF IInv, fork_nomem, PidsUsed, PidsUnique
<1>10. ScanAtProcess' /\ OneCPUPerStack' /\ OnlyInitPanics'
  BY Zenon DEF IInv, fork_nomem, ScanAtProcess, OneCPUPerStack, OnlyInitPanics
<1> QED
  BY Zenon, <1>1, <1>2, <1>3, <1>4, <1>5, <1>6, <1>7, <1>8, <1>9, <1>10 DEF IInv

\* fork() copies the address space and makes the child's parent known.
LEMMA ForkCopyIInv == ASSUME IInv, NEW c \in CPU, fork_copy(c) PROVE IInv'
<1>1. TypeOK'
  BY SMTT(60) DEF IInv, fork_copy, At, Goto, TypeOK, PC, EmbryoOwned, Forking
<1>2. LockHolder'
  BY SMTT(60) DEF IInv, fork_copy, At, Goto, LockHolder
<1>3. RunningState'
  BY Zenon DEF IInv, fork_copy, Goto, RunningState
<1>4. ParkedContext'
  BY SMTT(60) DEF IInv, fork_copy, At, Goto, ParkedContext, Live
<1>5. EmbryoOwned'
  BY SMTT(60) DEF IInv, fork_copy, At, Goto, TypeOK, EmbryoOwned, Forking,
     Live
<1>6. MemoryMatchesState'
  BY SMTT(60) DEF IInv, fork_copy, At, MemoryMatchesState, EmbryoOwned,
     Forking
<1>7. Family'
  BY SMTT(60) DEF IInv, fork_copy, At, Family, Live, EmbryoOwned, Forking
<1>8. NoMissedExit'
  BY SMTT(60) DEF IInv, fork_copy, At, NoMissedExit, RunningState
<1>9. /\ ScanAtProcess' /\ OneCPUPerStack' /\ PidsUsed' /\ PidsUnique'
      /\ OnlyInitPanics'
  BY SMTT(60) DEF IInv, fork_copy, ScanAtProcess, OneCPUPerStack, PidsUsed,
     PidsUnique, OnlyInitPanics
<1> QED
  BY Zenon, <1>1, <1>2, <1>3, <1>4, <1>5, <1>6, <1>7, <1>8, <1>9 DEF IInv

\* fork() without memory for the copy frees stack and slot.
LEMMA ForkNocopyIInv == ASSUME IInv, NEW c \in CPU, fork_nocopy(c) PROVE IInv'
<1>1. TypeOK'
  BY SMTT(60) DEF IInv, fork_nocopy, At, Goto, TypeOK, State, PC, EmbryoOwned,
     Forking
<1>2. LockHolder'
  BY SMTT(60) DEF IInv, fork_nocopy, At, Goto, LockHolder
<1>3. RunningState'
  BY SMTT(60) DEF IInv, fork_nocopy, At, Goto, RunningState, EmbryoOwned,
     Forking
<1>4. ParkedContext'
  BY SMTT(60) DEF IInv, fork_nocopy, At, Goto, ParkedContext, Live
<1>5. EmbryoOwned'
  BY SMTT(60) DEF IInv, fork_nocopy, At, Goto, TypeOK, EmbryoOwned, Forking,
     Live
<1>6. MemoryMatchesState'
  BY SMTT(60) DEF IInv, fork_nocopy, At, MemoryMatchesState, EmbryoOwned,
     Forking
<1>7. Family'
  BY SMTT(60) DEF IInv, fork_nocopy, At, Family, Live, EmbryoOwned, Forking
<1>8. NoMissedExit'
  BY SMTT(60) DEF IInv, fork_nocopy, NoMissedExit
<1>9. PidsUsed' /\ PidsUnique'
  BY SMTT(60) DEF IInv, fork_nocopy, PidsUsed, PidsUnique
<1>10. ScanAtProcess' /\ OneCPUPerStack' /\ OnlyInitPanics'
  BY Zenon DEF IInv, fork_nocopy, ScanAtProcess, OneCPUPerStack, OnlyInitPanics
<1> QED
  BY Zenon, <1>1, <1>2, <1>3, <1>4, <1>5, <1>6, <1>7, <1>8, <1>9, <1>10 DEF IInv

\* fork() makes the child RUNNABLE.
LEMMA ForkRunIInv == ASSUME IInv, NEW c \in CPU, fork_run(c) PROVE IInv'
<1>1. TypeOK'
  BY SMTT(60) DEF IInv, fork_run, At, Goto, TypeOK, State, PC, EmbryoOwned,
     Forking
<1>2. LockHolder'
  BY NoCPUAssumption, SMTT(60) DEF IInv, fork_run, Goto, LockHolder
<1>3. RunningState'
  BY SMTT(60) DEF IInv, fork_run, At, Goto, RunningState, EmbryoOwned, Forking
<1>4. ParkedContext'
  BY SMTT(60) DEF IInv, fork_run, At, Goto, ParkedContext, Live, EmbryoOwned,
     Forking
<1>5. EmbryoOwned'
  BY SMTT(60) DEF IInv, fork_run, At, Goto, TypeOK, EmbryoOwned, Forking, Live
<1>6. MemoryMatchesState'
  BY SMTT(60) DEF IInv, fork_run, At, MemoryMatchesState, EmbryoOwned, Forking
<1>7. Family'
  BY SMTT(60) DEF IInv, fork_run, At, Family, Live, EmbryoOwned, Forking
<1>8. PidsUsed'
  BY SMTT(60) DEF IInv, fork_run, At, PidsUsed, EmbryoOwned, Forking
<1>9. PidsUnique'
  BY SMTT(60) DEF IInv, fork_run, At, PidsUnique, EmbryoOwned, Forking
<1>10. ScanAtProcess' /\ OneCPUPerStack' /\ NoMissedExit' /\ OnlyInitPanics'
  BY SMTT(60) DEF IInv, fork_run, ScanAtProcess, OneCPUPerStack, NoMissedExit,
     OnlyInitPanics
<1> QED
  BY Zenon, <1>1, <1>2, <1>3, <1>4, <1>5, <1>6, <1>7, <1>8, <1>9, <1>10 DEF IInv

-----------------------------------------------------------------------------
\* exit() wakes the parent, and init when it inherits a zombie: the process
\* in wait() sleeps on its own slot, which is what wakeup1() looks for.
LEMMA ExitWakesParent == ASSUME IInv, NEW c \in CPU, exit(c) PROVE NoMissedExit'
<1>1. PICK p \in Slot :
        /\ p # InitProc
        /\ parent' = exit_parents(p)
        /\ state' = [exit_wakeups(p) EXCEPT ![p] = "ZOMBIE"]
  BY Zenon DEF exit
<1> SUFFICES ASSUME NEW s \in Slot, state'[s] = "ZOMBIE", parent'[s] # 0
             PROVE  state'[parent'[s]] # "SLEEPING"
  BY Zenon DEF NoMissedExit
<1>2. \A t \in Slot : state'[t] = "SLEEPING" => state[t] = "SLEEPING" /\ t # parent[p]
  BY Zenon, <1>1 DEF IInv, ParkedContext, exit_wakeups, wakeup1
<1>3. CASE parent[s] = p
  <2>1. s # p
    BY Zenon, <1>3, SlotFacts DEF IInv, Family
  <2>2. state'[InitProc] # "SLEEPING"
    BY Zenon, <1>1, <1>3, <2>1, SlotFacts DEF IInv, ParkedContext, exit_wakeups,
       Child, wakeup1
  <2> QED
    BY Zenon, <1>1, <1>3, <2>2 DEF IInv, exit_parents, Child
<1>4. CASE parent[s] # p
  BY ZenonT(30), <1>1, <1>2, <1>4 DEF IInv, TypeOK, NoMissedExit, exit_wakeups,
     exit_parents, Child, wakeup1
<1> QED
  BY Zenon, <1>3, <1>4

\* wakeup1() makes sleepers RUNNABLE and touches no other process.
LEMMA WakeupFacts ==
  ASSUME NEW st \in [Slot -> State], NEW ch
  PROVE  /\ wakeup1(st, ch) \in [Slot -> State]
         /\ \A s \in Slot : \/ wakeup1(st, ch)[s] = st[s]
                            \/ st[s] = "SLEEPING" /\ wakeup1(st, ch)[s] = "RUNNABLE"
<1>1. \A s \in Slot : wakeup1(st, ch)[s] =
        (IF st[s] = "SLEEPING" /\ chan[s] = ch THEN "RUNNABLE" ELSE st[s])
  BY Zenon DEF wakeup1
<1>2. ASSUME NEW s \in Slot
      PROVE  /\ wakeup1(st, ch)[s] \in State
             /\ \/ wakeup1(st, ch)[s] = st[s]
                \/ st[s] = "SLEEPING" /\ wakeup1(st, ch)[s] = "RUNNABLE"
  <2>1. CASE st[s] = "SLEEPING" /\ chan[s] = ch
    <3>1. wakeup1(st, ch)[s] = "RUNNABLE"
      BY <1>1, <2>1, Zenon
    <3> QED
      BY Zenon, <2>1, <3>1 DEF State
  <2>2. CASE ~ (st[s] = "SLEEPING" /\ chan[s] = ch)
    BY <1>1, <2>2, Zenon
  <2> QED
    BY Zenon, <2>1, <2>2
<1>3. wakeup1(st, ch) \in [Slot -> State]
  BY <1>2, Zenon DEF wakeup1
<1>4. \A s \in Slot : \/ wakeup1(st, ch)[s] = st[s]
                      \/ st[s] = "SLEEPING" /\ wakeup1(st, ch)[s] = "RUNNABLE"
  BY <1>2, Zenon
<1> QED
  BY <1>3, <1>4, Zenon

\* exit() hands its children to init and becomes a ZOMBIE; of the others it
\* only wakes sleepers.
LEMMA ExitIInv == ASSUME IInv, NEW c \in CPU, exit(c) PROVE IInv'
<1>1. PICK p \in Slot :
        /\ At(c, p, "exit") /\ p # InitProc /\ lock = NoCPU /\ lock' = c
        /\ state' = [exit_wakeups(p) EXCEPT ![p] = "ZOMBIE"]
        /\ parent' = exit_parents(p)
        /\ sw' = [sw EXCEPT ![p] = "exit"]
        /\ UNCHANGED <<pid, chan, killed, kstack, pgdir, nextpid, on, scan, pc,
                       np, panic>>
  BY Zenon DEF exit
<1>2. /\ on[c] = p /\ p # 0 /\ sw[p] = "no" /\ pc[p] = "exit"
      /\ on' = on /\ pc' = pc /\ np' = np /\ scan' = scan
      /\ lock = NoCPU /\ lock' = c
  BY Zenon, <1>1 DEF At
<1>3. state[p] = "RUNNING"
  BY Zenon, <1>2, SlotFacts DEF IInv, RunningState
<1>4. /\ state' \in [Slot -> State] /\ state'[p] = "ZOMBIE"
      /\ \A s \in Slot \ {p} :
           state'[s] = state[s] \/ (state[s] = "SLEEPING" /\ state'[s] = "RUNNABLE")
  <2> DEFINE woken == wakeup1(state, parent[p])
  <2>1. exit_wakeups(p) \in {woken, wakeup1(woken, InitProc)}
    BY Zenon DEF exit_wakeups
  <2>2. state \in [Slot -> State] /\ "ZOMBIE" \in State
    BY Zenon DEF IInv, TypeOK, State
  <2>3. /\ woken \in [Slot -> State]
        /\ \A s \in Slot : \/ woken[s] = state[s]
                           \/ state[s] = "SLEEPING" /\ woken[s] = "RUNNABLE"
    BY <2>2, WakeupFacts, Zenon
  <2> HIDE DEF woken
  <2>4. LET w == wakeup1(woken, InitProc) IN
        /\ w \in [Slot -> State]
        /\ \A s \in Slot : \/ w[s] = woken[s]
                           \/ woken[s] = "SLEEPING" /\ w[s] = "RUNNABLE"
    BY <2>3, WakeupFacts, Zenon
  <2>5. ASSUME NEW s \in Slot
        PROVE  \/ exit_wakeups(p)[s] = state[s]
               \/ state[s] = "SLEEPING" /\ exit_wakeups(p)[s] = "RUNNABLE"
    <3>1. CASE exit_wakeups(p) = woken
      BY <2>3, <3>1, Zenon
    <3>2. CASE exit_wakeups(p) = wakeup1(woken, InitProc)
      <4>1. "RUNNABLE" # "SLEEPING"
        BY Zenon
      <4> QED
        BY <2>3, <2>4, <3>2, <4>1, Zenon
    <3> QED
      BY <2>1, <3>1, <3>2, Zenon
  <2>6. exit_wakeups(p) \in [Slot -> State]
    BY <2>1, <2>3, <2>4, Zenon
  <2> DEFINE ew == exit_wakeups(p)
  <2>7. /\ state' = [ew EXCEPT ![p] = "ZOMBIE"] /\ ew \in [Slot -> State]
        /\ \A s \in Slot : \/ ew[s] = state[s]
                           \/ state[s] = "SLEEPING" /\ ew[s] = "RUNNABLE"
    BY <1>1, <2>5, <2>6, Zenon
  <2> HIDE DEF ew
  <2>8. \A s \in Slot \ {p} : state'[s] = ew[s]
    BY Zenon, <2>7
  <2>9. state' \in [Slot -> State] /\ state'[p] = "ZOMBIE"
    BY Zenon, <2>2, <2>7
  <2>10. ASSUME NEW s \in Slot \ {p}
         PROVE  state'[s] = state[s] \/ (state[s] = "SLEEPING" /\ state'[s] = "RUNNABLE")
    <3>1. state'[s] = ew[s] /\ s \in Slot
      BY Zenon, <2>8
    <3> QED
      BY Zenon, <2>7, <3>1
  <2> QED
    BY Zenon, <2>9, <2>10
<1>5. /\ parent' \in [Slot -> Slot \cup {0}]
      /\ \A s \in Slot : parent'[s] = IF parent[s] = p THEN InitProc ELSE parent[s]
  BY <1>1, SlotFacts, Zenon DEF IInv, TypeOK, exit_parents, Child
<1>6. /\ sw' \in [Slot -> {"no", "yield", "sleep", "exit"}] /\ sw'[p] = "exit"
      /\ \A s \in Slot \ {p} : sw'[s] = sw[s]
  BY <1>1, Zenon DEF IInv, TypeOK
<1>7. TypeOK'
  BY <1>1, <1>4, <1>5, <1>6, Zenon DEF IInv, TypeOK
<1>8. LockHolder'
  BY <1>2, <1>6, NoCPUAssumption, SMTT(60) DEF IInv, TypeOK, LockHolder,
     OneCPUPerStack
<1>9. RunningState'
  BY <1>2, <1>4, <1>6, NoCPUAssumption, SMTT(60) DEF IInv, TypeOK,
     RunningState, LockHolder
<1>10. ParkedContext'
  BY <1>1, <1>2, <1>4, <1>6, SMTT(60) DEF IInv, ParkedContext, Live
<1>11. EmbryoOwned'
  <2>1. ASSUME NEW q \in Slot, Forking(q)'
        PROVE  Forking(q) /\ q # p /\ np[q] # p /\ parent[np[q]] # p
    BY <1>2, <1>3, <2>1, SlotFacts DEF IInv, EmbryoOwned, Forking
  <2> QED
    BY <1>1, <1>2, <1>4, <1>5, <1>6, <2>1, SMTT(60) DEF IInv, EmbryoOwned, Live
<1>12. MemoryMatchesState'
  BY <1>1, <1>3, <1>4, Zenon DEF IInv, MemoryMatchesState
<1>13. Family'
  BY <1>1, <1>3, <1>4, <1>5, SlotFacts, SMTT(60) DEF IInv, TypeOK, Family, Live
<1>14. NoMissedExit'
  BY Zenon, ExitWakesParent
<1>15. PidsUsed' /\ PidsUnique'
  BY <1>1, <1>3, <1>4, ZenonT(30) DEF IInv, PidsUsed, PidsUnique
<1>16. ScanAtProcess' /\ OneCPUPerStack' /\ OnlyInitPanics'
  BY <1>1, Zenon DEF IInv, ScanAtProcess, OneCPUPerStack, OnlyInitPanics
<1> QED
  BY Zenon, <1>7, <1>8, <1>9, <1>10, <1>11, <1>12, <1>13, <1>14, <1>15, <1>16 DEF IInv

\* wait() frees a zombie child.
LEMMA WaitReapIInv == ASSUME IInv, NEW c \in CPU, wait_reap(c) PROVE IInv'
<1>1. TypeOK'
  BY SMTT(60) DEF IInv, wait_reap, Goto, TypeOK, State, PC
<1>2. LockHolder'
  BY NoCPUAssumption, SMTT(60) DEF IInv, wait_reap, At, Goto, Scanning,
     TypeOK, LockHolder
<1>3. RunningState'
  BY NoCPUAssumption, SMTT(60) DEF IInv, wait_reap, At, Goto, Scanning,
     RunningState, LockHolder
<1>4. ParkedContext'
  BY SMTT(60) DEF IInv, wait_reap, At, Goto, Scanning, ParkedContext, Live
<1>5. EmbryoOwned'
  BY SMTT(60) DEF IInv, wait_reap, At, Goto, Scanning, EmbryoOwned, Forking,
     Live
<1>6. MemoryMatchesState'
  BY SMTT(60) DEF IInv, wait_reap, TypeOK, MemoryMatchesState
<1>7. Family'
  BY SMTT(60) DEF IInv, wait_reap, TypeOK, Family, Live
<1>8. PidsUsed'
  BY SMTT(60) DEF IInv, wait_reap, TypeOK, PidsUsed
<1>9. PidsUnique'
  BY SMTT(60) DEF IInv, wait_reap, TypeOK, PidsUnique
<1>10. ScanAtProcess' /\ OneCPUPerStack' /\ NoMissedExit' /\ OnlyInitPanics'
  BY SMTT(60) DEF IInv, wait_reap, ScanAtProcess, OneCPUPerStack,
     NoMissedExit, OnlyInitPanics
<1> QED
  BY Zenon, <1>1, <1>2, <1>3, <1>4, <1>5, <1>6, <1>7, <1>8, <1>9, <1>10 DEF IInv

\* wait() returns when there is nothing to wait for.
LEMMA WaitFailIInv == ASSUME IInv, NEW c \in CPU, wait_fail(c) PROVE IInv'
<1>1. TypeOK'
  BY Zenon DEF IInv, wait_fail, Goto, TypeOK, PC
<1>2. LockHolder'
  BY NoCPUAssumption, SMTT(60) DEF IInv, wait_fail, At, Goto, Scanning,
     TypeOK, LockHolder
<1>3. RunningState'
  BY Zenon DEF IInv, wait_fail, Goto, RunningState
<1>4. ParkedContext'
  BY SMTT(60) DEF IInv, wait_fail, At, Goto, Scanning, ParkedContext, Live
<1>5. EmbryoOwned'
  BY SMTT(60) DEF IInv, wait_fail, At, Goto, Scanning, EmbryoOwned, Forking,
     Live
<1>6. /\ ScanAtProcess' /\ OneCPUPerStack' /\ MemoryMatchesState' /\ Family'
      /\ NoMissedExit' /\ PidsUsed' /\ PidsUnique' /\ OnlyInitPanics'
  BY SameTable, SameCPUs, Zenon DEF IInv, wait_fail
<1> QED
  BY Zenon, <1>1, <1>2, <1>3, <1>4, <1>5, <1>6 DEF IInv

\* wait() sleeps on its own slot.
LEMMA WaitSleepIInv == ASSUME IInv, NEW c \in CPU, wait_sleep(c) PROVE IInv'
<1>1. TypeOK'
  BY SMTT(60) DEF IInv, wait_sleep, TypeOK, State, PC
<1>2. LockHolder'
  BY NoCPUAssumption, SMTT(60) DEF IInv, wait_sleep, At, Scanning, TypeOK,
     LockHolder, OneCPUPerStack
<1>3. RunningState'
  BY SMTT(60) DEF IInv, wait_sleep, TypeOK, RunningState
<1>4. ParkedContext'
  BY SMTT(60) DEF IInv, wait_sleep, TypeOK, ParkedContext, Live
<1>5. EmbryoOwned'
  BY SMTT(60) DEF IInv, wait_sleep, At, Scanning, EmbryoOwned, Forking, Live,
     RunningState
<1>6. MemoryMatchesState'
  BY SMTT(60) DEF IInv, wait_sleep, At, Scanning, MemoryMatchesState,
     RunningState
<1>7. PidsUsed'
  BY SMTT(60) DEF IInv, wait_sleep, At, Scanning, PidsUsed, RunningState
<1>8. PidsUnique'
  BY SMTT(60) DEF IInv, wait_sleep, At, Scanning, PidsUnique, RunningState
<1>9. /\ ScanAtProcess' /\ OneCPUPerStack' /\ Family' /\ NoMissedExit'
      /\ OnlyInitPanics'
  BY SlotFacts, SMTT(60) DEF IInv, wait_sleep, Child, ScanAtProcess,
     OneCPUPerStack, Family, Live, NoMissedExit, OnlyInitPanics
<1> QED
  BY Zenon, <1>1, <1>2, <1>3, <1>4, <1>5, <1>6, <1>7, <1>8, <1>9 DEF IInv

\* kill() marks a process and makes a sleeper RUNNABLE.
LEMMA KillIInv == ASSUME IInv, NEW c \in CPU, kill(c) PROVE IInv'
<1>1. TypeOK'
  BY SMTT(60) DEF IInv, kill, Goto, TypeOK, State, PC
<1>2. LockHolder'
  BY NoCPUAssumption, SMTT(60) DEF IInv, kill, Goto, LockHolder
<1>3. RunningState'
  BY NoCPUAssumption, SMTT(60) DEF IInv, kill, Goto, RunningState, LockHolder
<1>4. ParkedContext'
  BY SMTT(60) DEF IInv, kill, At, Goto, ParkedContext, Live
<1>5. EmbryoOwned'
  BY SMTT(60) DEF IInv, kill, At, Goto, EmbryoOwned, Forking, Live
<1>6. ScanAtProcess' /\ OneCPUPerStack' /\ OnlyInitPanics'
  BY ZenonT(30) DEF IInv, kill, ScanAtProcess, OneCPUPerStack, OnlyInitPanics
<1>9. MemoryMatchesState'
  BY SMTT(60) DEF IInv, kill, TypeOK, MemoryMatchesState
<1>7. Family' /\ NoMissedExit'
  BY SMTT(60) DEF IInv, kill, Family, Live, NoMissedExit
<1>8. PidsUsed' /\ PidsUnique'
  BY SMTT(60) DEF IInv, kill, PidsUsed, PidsUnique
<1> QED
  BY Zenon, <1>1, <1>2, <1>3, <1>4, <1>5, <1>6, <1>7, <1>8, <1>9 DEF IInv

-----------------------------------------------------------------------------
\* yield() makes its process RUNNABLE on a stack still in use.
LEMMA YieldIInv == ASSUME IInv, NEW c \in CPU, yield(c) PROVE IInv'
<1>1. TypeOK'
  BY SMTT(60) DEF IInv, yield, TypeOK, State, PC
<1>2. LockHolder'
  BY SlotFacts, NoCPUAssumption, SMTT(60) DEF IInv, yield, TypeOK, LockHolder,
     OneCPUPerStack
<1>3. RunningState'
  BY SMTT(60) DEF IInv, yield, TypeOK, RunningState
<1>4. ParkedContext'
  BY SlotFacts, NoCPUAssumption, SMTT(60) DEF IInv, yield, ParkedContext,
     Live, LockHolder
<1>5. EmbryoOwned'
  BY SlotFacts, SMTT(60) DEF IInv, yield, EmbryoOwned, Forking, Live,
     RunningState
<1>6. MemoryMatchesState'
  BY SlotFacts, SMTT(60) DEF IInv, yield, MemoryMatchesState, RunningState
<1>7. Family'
  BY SlotFacts, SMTT(60) DEF IInv, yield, Family, Live, RunningState
<1>8. PidsUsed'
  BY SlotFacts, SMTT(60) DEF IInv, yield, PidsUsed, RunningState
<1>9. PidsUnique'
  BY SlotFacts, SMTT(60) DEF IInv, yield, PidsUnique, RunningState
<1>10. NoMissedExit'
  BY SMTT(60) DEF IInv, yield, NoMissedExit
<1>11. ScanAtProcess' /\ OneCPUPerStack' /\ OnlyInitPanics'
  <2>1. UNCHANGED <<on, scan, panic>>
    BY Zenon DEF yield
  <2> QED
    BY <2>1, Zenon DEF IInv, ScanAtProcess, OneCPUPerStack, OnlyInitPanics
<1> QED
  BY Zenon, <1>1, <1>2, <1>3, <1>4, <1>5, <1>6, <1>7, <1>8, <1>9, <1>10, <1>11
     DEF IInv

\* swtch() leaves the stack of a process for the scheduler's.
LEMMA SchedIInv == ASSUME IInv, NEW c \in CPU, sched(c) PROVE IInv'
<1>1. TypeOK'
  <2>1. scan[c] \in Slot
    BY SlotFacts, Zenon DEF IInv, sched, ScanAtProcess
  <2>2. scan' \in [CPU -> 0 .. NPROC + 1]
    BY <2>1, ScanFacts, SMTT(60) DEF IInv, sched, NextSlot, TypeOK
  <2> QED
    BY <2>2, Zenon DEF IInv, sched, TypeOK, thread
<1>2. LockHolder'
  BY SlotFacts, SMTT(60) DEF IInv, sched, NextSlot, thread, TypeOK, LockHolder
<1>3. ScanAtProcess'
  BY Zenon DEF IInv, sched, TypeOK, ScanAtProcess
<1>4. RunningState'
  BY SMTT(60) DEF IInv, sched, thread, RunningState
<1>5. ParkedContext'
  BY SMTT(60) DEF IInv, sched, thread, ParkedContext, Live, RunningState
<1>6. EmbryoOwned'
  BY SMTT(60) DEF IInv, sched, thread, EmbryoOwned, Forking, Live
<1>7. OnlyInitPanics'
  BY SlotFacts, Zenon DEF IInv, sched, OnlyInitPanics, LockHolder
<1>8. /\ OneCPUPerStack' /\ MemoryMatchesState' /\ Family' /\ NoMissedExit'
      /\ PidsUsed' /\ PidsUnique'
  <2>1. OneCPUPerStack'
    BY ZenonT(30) DEF IInv, sched, TypeOK, OneCPUPerStack
  <2> QED
    BY <2>1, SameTable, Zenon DEF IInv, sched
<1> QED
  BY Zenon, <1>1, <1>2, <1>3, <1>4, <1>5, <1>6, <1>7, <1>8 DEF IInv

\* scheduler() takes ptable.lock for a pass over the table.
LEMMA SchedulerStartIInv == ASSUME IInv, NEW c \in CPU, scheduler_start(c) PROVE IInv'
<1>1. TypeOK'
  BY ScanFacts, Zenon DEF IInv, scheduler_start, TypeOK, thread
<1>2. LockHolder'
  BY NoCPUAssumption, SMTT(60) DEF IInv, scheduler_start, thread, TypeOK,
     LockHolder
<1>3. RunningState'
  BY Zenon DEF IInv, scheduler_start, thread, RunningState
<1>4. ParkedContext'
  BY Zenon DEF IInv, scheduler_start, thread, ParkedContext, Live
<1>5. EmbryoOwned'
  BY Zenon DEF IInv, scheduler_start, thread, EmbryoOwned, Forking, Live
<1>6. /\ ScanAtProcess' /\ OneCPUPerStack' /\ MemoryMatchesState' /\ Family'
      /\ NoMissedExit' /\ PidsUsed' /\ PidsUnique' /\ OnlyInitPanics'
  <2>1. MemoryMatchesState' /\ Family' /\ NoMissedExit' /\ PidsUsed' /\ PidsUnique'
    BY SameTable, Zenon DEF IInv, scheduler_start
  <2>2. ScanAtProcess'
    BY Zenon DEF IInv, scheduler_start, TypeOK, ScanAtProcess
  <2>3. OneCPUPerStack' /\ OnlyInitPanics'
    BY Zenon DEF IInv, scheduler_start, OneCPUPerStack, OnlyInitPanics
  <2> QED
    BY <2>1, <2>2, <2>3, Zenon
<1> QED
  BY Zenon, <1>1, <1>2, <1>3, <1>4, <1>5, <1>6 DEF IInv

\* scheduler() switches to a RUNNABLE process.
LEMMA DispatchIInv == ASSUME IInv, NEW c \in CPU, dispatch(c) PROVE IInv'
<1>1. TypeOK'
  BY ScanFacts, SMTT(60) DEF IInv, dispatch, TypeOK, thread, State
<1>2. LockHolder'
  BY SlotFacts, SMTT(60) DEF IInv, dispatch, thread, LockHolder, RunningState,
     ParkedContext, Live
<1>3. ScanAtProcess'
  BY SMTT(60) DEF IInv, dispatch, TypeOK, ScanAtProcess
<1>4. OneCPUPerStack'
  BY SMTT(60) DEF IInv, dispatch, OneCPUPerStack, RunningState, LockHolder
<1>5. RunningState'
  BY SMTT(60) DEF IInv, dispatch, thread, TypeOK, RunningState, ParkedContext,
     Live
<1>6. ParkedContext'
  BY SlotFacts, SMTT(60) DEF IInv, dispatch, thread, TypeOK, ParkedContext,
     Live
<1>7. EmbryoOwned'
  BY SMTT(60) DEF IInv, dispatch, thread, EmbryoOwned, Forking, Live
<1>8. OnlyInitPanics'
  BY Zenon DEF IInv, dispatch, OnlyInitPanics, MemoryMatchesState
<1>9. /\ MemoryMatchesState' /\ Family' /\ NoMissedExit' /\ PidsUsed'
      /\ PidsUnique'
  BY SMTT(60) DEF IInv, dispatch, MemoryMatchesState, Family, Live,
     NoMissedExit, PidsUsed, PidsUnique
<1> QED
  BY Zenon, <1>1, <1>2, <1>3, <1>4, <1>5, <1>6, <1>7, <1>8, <1>9 DEF IInv

\* scheduler() releases ptable.lock at the end of the table.
LEMMA SchedulerEndIInv == ASSUME IInv, NEW c \in CPU, scheduler_end(c) PROVE IInv'
<1>1. TypeOK'
  BY ScanFacts, Zenon DEF IInv, scheduler_end, TypeOK, thread
<1>2. LockHolder'
  BY NoCPUAssumption, SMTT(60) DEF IInv, scheduler_end, thread, TypeOK,
     LockHolder
<1>3. RunningState'
  BY Zenon DEF IInv, scheduler_end, thread, RunningState
<1>4. ParkedContext'
  BY Zenon DEF IInv, scheduler_end, thread, ParkedContext, Live
<1>5. EmbryoOwned'
  BY Zenon DEF IInv, scheduler_end, thread, EmbryoOwned, Forking, Live
<1>6. /\ ScanAtProcess' /\ OneCPUPerStack' /\ MemoryMatchesState' /\ Family'
      /\ NoMissedExit' /\ PidsUsed' /\ PidsUnique' /\ OnlyInitPanics'
  <2>1. MemoryMatchesState' /\ Family' /\ NoMissedExit' /\ PidsUsed' /\ PidsUnique'
    BY SameTable, Zenon DEF IInv, scheduler_end
  <2>2. ScanAtProcess'
    BY Zenon DEF IInv, scheduler_end, TypeOK, ScanAtProcess
  <2>3. OneCPUPerStack' /\ OnlyInitPanics'
    BY Zenon DEF IInv, scheduler_end, OneCPUPerStack, OnlyInitPanics
  <2> QED
    BY <2>1, <2>2, <2>3, Zenon
<1> QED
  BY Zenon, <1>1, <1>2, <1>3, <1>4, <1>5, <1>6 DEF IInv

\* A process comes back from yield() and releases ptable.lock.
LEMMA YieldReturnIInv == ASSUME IInv, NEW c \in CPU, yield_return(c) PROVE IInv'
<1>1. TypeOK'
  BY SlotFacts, NoCPUAssumption, SMTT(60) DEF IInv, yield_return,
     TypeOK
<1>2. LockHolder'
  BY SlotFacts, NoCPUAssumption, SMTT(60) DEF IInv, yield_return, TypeOK,
     LockHolder, ParkedContext, Live
<1>3. RunningState'
  BY SlotFacts, NoCPUAssumption, SMTT(60) DEF IInv, yield_return,
     RunningState
<1>4. ParkedContext'
  BY SMTT(60) DEF IInv, yield_return, ParkedContext, Live
<1>5. EmbryoOwned'
  BY SMTT(60) DEF IInv, yield_return, EmbryoOwned, Forking, Live
<1>6. /\ ScanAtProcess' /\ OneCPUPerStack' /\ MemoryMatchesState' /\ Family'
      /\ NoMissedExit' /\ PidsUsed' /\ PidsUnique' /\ OnlyInitPanics'
  BY SameTable, SameCPUs, Zenon DEF IInv, yield_return
<1> QED
  BY Zenon, <1>1, <1>2, <1>3, <1>4, <1>5, <1>6 DEF IInv

\* A process comes back from sleep().
LEMMA SleepReturnIInv == ASSUME IInv, NEW c \in CPU, sleep_return(c) PROVE IInv'
<1>1. TypeOK'
  BY SlotFacts, NoCPUAssumption, SMTT(60) DEF IInv, sleep_return,
     TypeOK
<1>2. LockHolder'
  BY SMTT(60) DEF IInv, sleep_return, LockHolder, ParkedContext, Live
<1>3. RunningState'
  BY SlotFacts, NoCPUAssumption, SMTT(60) DEF IInv, sleep_return,
     RunningState
<1>4. ParkedContext'
  BY SMTT(60) DEF IInv, sleep_return, ParkedContext, Live
<1>5. EmbryoOwned'
  BY SMTT(60) DEF IInv, sleep_return, EmbryoOwned, Forking, Live
<1>6. /\ ScanAtProcess' /\ OneCPUPerStack' /\ MemoryMatchesState' /\ Family'
      /\ NoMissedExit' /\ PidsUsed' /\ PidsUnique' /\ OnlyInitPanics'
  BY SameTable, SameCPUs, Zenon DEF IInv, sleep_return
<1> QED
  BY Zenon, <1>1, <1>2, <1>3, <1>4, <1>5, <1>6 DEF IInv

\* A new process starts in forkret() and releases ptable.lock.
LEMMA ForkretIInv == ASSUME IInv, NEW c \in CPU, forkret(c) PROVE IInv'
<1>1. TypeOK'
  BY Zenon DEF IInv, forkret, Goto, TypeOK, PC
<1>2. LockHolder'
  BY NoCPUAssumption, SMTT(60) DEF IInv, forkret, At, Goto, TypeOK, LockHolder
<1>3. RunningState'
  BY Zenon DEF IInv, forkret, Goto, RunningState
<1>4. ParkedContext'
  BY SMTT(60) DEF IInv, forkret, At, Goto, ParkedContext, Live
<1>5. EmbryoOwned'
  BY SMTT(60) DEF IInv, forkret, At, Goto, EmbryoOwned, Forking, Live,
     RunningState
<1>6. /\ ScanAtProcess' /\ OneCPUPerStack' /\ MemoryMatchesState' /\ Family'
      /\ NoMissedExit' /\ PidsUsed' /\ PidsUnique' /\ OnlyInitPanics'
  BY SameTable, SameCPUs, Zenon DEF IInv, forkret
<1> QED
  BY Zenon, <1>1, <1>2, <1>3, <1>4, <1>5, <1>6 DEF IInv

\* Every step preserves the invariant.
LEMMA NextIInv == IInv /\ [Next]_vars => IInv'
<1> SUFFICES ASSUME IInv, [Next]_vars PROVE IInv'
  BY Zenon
<1>1. ASSUME NEW c \in CPU,
             \/ syscall(c) \/ trapret(c) \/ fault(c) \/ sys_exit(c)
             \/ fork_full(c) \/ other_call(c) \/ tick_killed(c)
      PROVE  IInv'
  <2>1. PICK p \in Slot, l \in {"user", "call", "exit", "ret"} :
          /\ on[c] = p /\ sw[p] = "no" /\ pc[p] \in {"user", "call", "ret"}
          /\ pc' = [pc EXCEPT ![p] = l]
          /\ killed' = killed \/ killed' = killed \cup {p}
          /\ UNCHANGED <<state, pid, parent, chan, kstack, pgdir, nextpid, lock,
                         on, scan, sw, np, panic>>
    BY <1>1, Zenon DEF syscall, trapret, fault, sys_exit, fork_full,
       other_call, tick_killed, At, Goto
  <2>2. killed' \subseteq Slot
    BY <2>1, Zenon DEF IInv, TypeOK
  <2> QED
    BY <2>1, <2>2, PcStep, ZenonT(30)
<1>2. CASE UNCHANGED vars
  <2>1. TypeOK' /\ LockHolder' /\ RunningState'
    BY <1>2, Zenon DEF vars, IInv, TypeOK, LockHolder, RunningState
  <2>2. ParkedContext'
    BY <1>2, Zenon DEF vars, IInv, ParkedContext, Live
  <2>3. EmbryoOwned'
    BY <1>2, ZenonT(30) DEF vars, IInv, EmbryoOwned, Live, Forking
  <2>4. /\ ScanAtProcess' /\ OneCPUPerStack' /\ MemoryMatchesState' /\ Family'
        /\ NoMissedExit' /\ PidsUsed' /\ PidsUnique' /\ OnlyInitPanics'
    BY <1>2, SameTable, SameCPUs, Zenon DEF vars, IInv
  <2> QED
    BY Zenon, <2>1, <2>2, <2>3, <2>4 DEF IInv
<1> QED
  BY Zenon, <1>1, <1>2, InitExitsIInv, ForkAllocIInv, ForkKstackIInv, ForkNomemIInv,
     ForkCopyIInv, ForkNocopyIInv, ForkRunIInv, ExitIInv, WaitReapIInv,
     WaitFailIInv, WaitSleepIInv, KillIInv, YieldIInv, SchedIInv,
     SchedulerStartIInv, DispatchIInv, SchedulerEndIInv, YieldReturnIInv,
     SleepReturnIInv, ForkretIInv DEF Next, Progress, Switch, fork, wait,
     scheduler, halt

\* The invariant holds in every state of the process table.
LEMMA InvariantHolds == Spec => []IInv
BY InitIInv, NextIInv, PTL DEF Spec

-----------------------------------------------------------------------------
\* Every variable of the process table keeps its type.
THEOREM TypeCorrect == Spec => []TypeOK
<1>1. IInv => TypeOK
  BY Zenon DEF IInv
<1> QED
  BY <1>1, InvariantHolds, PTL

\* No two CPUs ever run on the same kernel stack, although yield(), sleep()
\* and exit() change the state of a process before it has left its stack.
THEOREM OneCPUPerStackHolds == Spec => []OneCPUPerStack
<1>1. IInv => OneCPUPerStack
  BY Zenon DEF IInv
<1> QED
  BY <1>1, InvariantHolds, PTL

\* wait() never frees the stack or the page table a CPU is running on.
THEOREM StackNotFreedHolds == Spec => []StackNotFreed
<1>1. IInv => StackNotFreed
  BY Zenon DEF IInv, TypeOK, RunningState, MemoryMatchesState, StackNotFreed
<1> QED
  BY <1>1, InvariantHolds, PTL

\* fork() that fails leaks nothing, and every process has its memory.
THEOREM MemoryMatchesStateHolds == Spec => []MemoryMatchesState
<1>1. IInv => MemoryMatchesState
  BY Zenon DEF IInv
<1> QED
  BY <1>1, InvariantHolds, PTL

\* No two processes have the same pid.
THEOREM PidsUniqueHolds == Spec => []PidsUnique
<1>1. IInv => PidsUnique
  BY Zenon DEF IInv
<1> QED
  BY <1>1, InvariantHolds, PTL

\* exit() leaves no process without a live parent.
THEOREM ParentAliveHolds == Spec => []ParentAlive
<1>1. IInv => ParentAlive
  BY Zenon DEF IInv, TypeOK, Family, Live, ParentAlive
<1> QED
  BY <1>1, InvariantHolds, PTL

\* No process sleeps in wait() while it has a zombie child.
THEOREM NoMissedExitHolds == Spec => []NoMissedExit
<1>1. IInv => NoMissedExit
  BY Zenon DEF IInv
<1> QED
  BY <1>1, InvariantHolds, PTL

\* The process table never panics but for init exiting.
THEOREM OnlyInitPanicsHolds == Spec => []OnlyInitPanics
<1>1. IInv => OnlyInitPanics
  BY Zenon DEF IInv
<1> QED
  BY <1>1, InvariantHolds, PTL

\* No CPU runs on another's kernel stack or on one that wait() has freed.
THEOREM StackSafeHolds == Spec => []StackSafe
BY OneCPUPerStackHolds, StackNotFreedHolds, PTL DEF StackSafe

\* fork(), exit() and wait() keep the process table well formed.
THEOREM ProcTableOKHolds == Spec => []ProcTableOK
BY TypeCorrect, PidsUniqueHolds, ParentAliveHolds, PTL DEF ProcTableOK
=============================================================================
