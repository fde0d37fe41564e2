-------------------------------- MODULE Proc --------------------------------
(***************************************************************************)
(* The process table of proc.c: fork, exit, wait, kill, yield, sleep on    *)
(* ptable.lock, and one scheduler per CPU.                                 *)
(*                                                                         *)
(* ptable.lock is the variable lock because it stays locked across         *)
(* swtch(): a process takes it, changes its own state, switches to the     *)
(* scheduler of its CPU, and the process the scheduler picks releases it.  *)
(* What runs between an acquire and the next release or swtch() is one     *)
(* step.  What the code does without the lock (the slot of a fork that     *)
(* fails, np->parent, reading killed) is a step of its own.                *)
(*                                                                         *)
(* Slots are numbered from 1 in table order and 0 is the null pointer; the *)
(* channel of a process in wait() is its own slot.  Memory may run out at  *)
(* any allocation.                                                         *)
(***************************************************************************)
EXTENDS Integers, FiniteSets

CONSTANTS NPROC,   \* param.h:1
          CPU,     \* the CPUs
          NoCPU,   \* nobody holds ptable.lock
          MaxPid   \* bound on nextpid, and on the argument of kill()

ASSUME NPROCAssumption == NPROC \in Nat \ {0}
ASSUME MaxPidAssumption == MaxPid \in Nat
ASSUME NoCPUAssumption == NoCPU \notin CPU

Slot == 1 .. NPROC
InitProc == 1

VARIABLES
  state,    \* p->state
  pid,      \* p->pid
  parent,   \* p->parent
  chan,     \* p->chan
  killed,   \* the slots with p->killed set
  kstack,   \* the slots whose p->kstack is a page
  pgdir,    \* the slots whose p->pgdir is a page table
  nextpid,
  lock,     \* the CPU that holds ptable.lock
  on,       \* whose kernel stack a CPU runs on, 0 for its scheduler's
  scan,     \* p of scheduler()'s loop, 0 outside it
  pc,       \* where the kernel thread of each slot is
  sw,       \* why it called sched(), "no" when it has not
  np,       \* np of fork()
  panic     \* the message of the kernel's panic(), "no" before it

thread == <<pc, sw, np>>
vars == <<state, pid, parent, chan, killed, kstack, pgdir, nextpid, lock, on,
          scan, pc, sw, np, panic>>

State == {"UNUSED", "EMBRYO", "SLEEPING", "RUNNABLE", "RUNNING", "ZOMBIE"}
PC == {"forkret", "user", "call", "fork_kstack", "fork_copy", "fork_run",
       "wait", "exit", "ret"}

\* The table as userinit() leaves it: one process, ready to run forkret().
Init == /\ state = [s \in Slot |-> IF s = InitProc THEN "RUNNABLE" ELSE "UNUSED"]
        /\ pid = [s \in Slot |-> IF s = InitProc THEN 1 ELSE 0]
        /\ parent = [s \in Slot |-> 0]
        /\ chan = [s \in Slot |-> 0]
        /\ killed = {}
        /\ kstack = {InitProc}
        /\ pgdir = {InitProc}
        /\ nextpid = 2
        /\ lock = NoCPU
        /\ on = [c \in CPU |-> 0]
        /\ scan = [c \in CPU |-> 0]
        /\ pc = [s \in Slot |-> "forkret"]
        /\ sw = [s \in Slot |-> "no"]
        /\ np = [s \in Slot |-> 0]
        /\ panic = "no"

-----------------------------------------------------------------------------
\* CPU c runs the kernel thread of slot p, outside sched(), at location l.
At(c, p, l) == panic = "no" /\ on[c] = p /\ p # 0 /\ sw[p] = "no" /\ pc[p] = l

\* The process goes on at l, the lock being as the action says.
Goto(p, l) == pc' = [pc EXCEPT ![p] = l] /\ UNCHANGED <<sw, np>>

\* The states after wakeup1(ch) in the table st.
wakeup1(st, ch) == [s \in Slot |-> IF st[s] = "SLEEPING" /\ chan[s] = ch
                                   THEN "RUNNABLE" ELSE st[s]]

-----------------------------------------------------------------------------
(* trap() and syscall()                                                    *)

\* A system call: trap() tests killed on the way in.
syscall(c) ==
  \E p \in Slot :
    /\ At(c, p, "user")
    /\ Goto(p, IF p \in killed THEN "exit" ELSE "call")
    /\ UNCHANGED <<state, pid, parent, chan, killed, kstack, pgdir, nextpid,
                   lock, on, scan, panic>>

\* The way out, after a system call or after the yield() of a clock tick.
trapret(c) ==
  \E p \in Slot :
    /\ At(c, p, "ret")
    /\ Goto(p, IF p \in killed THEN "exit" ELSE "user")
    /\ UNCHANGED <<state, pid, parent, chan, killed, kstack, pgdir, nextpid,
                   lock, on, scan, panic>>

\* A fault in user space kills the process; it writes killed without a lock.
fault(c) ==
  \E p \in Slot :
    /\ At(c, p, "user")
    /\ killed' = killed \cup {p}
    /\ Goto(p, "exit")
    /\ UNCHANGED <<state, pid, parent, chan, kstack, pgdir, nextpid, lock, on,
                   scan, panic>>

\* sys_exit().
sys_exit(c) ==
  \E p \in Slot :
    /\ At(c, p, "call")
    /\ Goto(p, "exit")
    /\ UNCHANGED <<state, pid, parent, chan, killed, kstack, pgdir, nextpid,
                   lock, on, scan, panic>>

-----------------------------------------------------------------------------
(* fork()                                                                  *)

\* Mutant: allocproc() makes the slot RUNNABLE at once.
fork_alloc_Runnable(c) ==
  \E p, s \in Slot :
    /\ At(c, p, "call")
    /\ lock = NoCPU
    /\ nextpid <= MaxPid
    /\ state[s] = "UNUSED"
    /\ state' = [state EXCEPT ![s] = "RUNNABLE"]
    /\ pid' = [pid EXCEPT ![s] = nextpid]
    /\ nextpid' = nextpid + 1
    /\ np' = [np EXCEPT ![p] = s]
    /\ pc' = [pc EXCEPT ![p] = "fork_kstack"]
    /\ UNCHANGED <<parent, chan, killed, kstack, pgdir, lock, on, scan, sw, panic>>

\* allocproc() up to its release: take the first UNUSED slot, or give up.
fork_alloc(c) ==
  \E p \in Slot :
    /\ At(c, p, "call")
    /\ lock = NoCPU
    /\ nextpid <= MaxPid
    /\ \E s \in Slot :
         /\ state[s] = "UNUSED"
         /\ \A t \in 1 .. s - 1 : state[t] # "UNUSED"
         /\ state' = [state EXCEPT ![s] = "EMBRYO"]
         /\ pid' = [pid EXCEPT ![s] = nextpid]
         /\ nextpid' = nextpid + 1
         /\ np' = [np EXCEPT ![p] = s]
         /\ pc' = [pc EXCEPT ![p] = "fork_kstack"]
    /\ UNCHANGED <<parent, chan, killed, kstack, pgdir, lock, on, scan, sw, panic>>

fork_full(c) ==
  \E p \in Slot :
    /\ At(c, p, "call")
    /\ lock = NoCPU
    /\ \A s \in Slot : state[s] # "UNUSED"
    /\ Goto(p, "ret")
    /\ UNCHANGED <<state, pid, parent, chan, killed, kstack, pgdir, nextpid,
                   lock, on, scan, panic>>

\* The rest of allocproc(): the kernel stack, with a context at forkret().
fork_kstack(c) ==
  \E p \in Slot :
    /\ At(c, p, "fork_kstack")
    /\ kstack' = kstack \cup {np[p]}
    /\ pc' = [pc EXCEPT ![p] = "fork_copy", ![np[p]] = "forkret"]
    /\ sw' = [sw EXCEPT ![np[p]] = "no"]
    /\ UNCHANGED <<state, pid, parent, chan, killed, pgdir, nextpid, lock, on,
                   scan, np, panic>>

\* kalloc() fails.  The slot keeps its pid and its killed flag.
fork_nomem(c) ==
  \E p \in Slot :
    /\ At(c, p, "fork_kstack")
    /\ state' = [state EXCEPT ![np[p]] = "UNUSED"]
    /\ Goto(p, "ret")
    /\ UNCHANGED <<pid, parent, chan, killed, kstack, pgdir, nextpid, lock, on,
                   scan, panic>>

\* copyuvm() succeeds; np->parent is set without ptable.lock.
fork_copy(c) ==
  \E p \in Slot :
    /\ At(c, p, "fork_copy")
    /\ pgdir' = pgdir \cup {np[p]}
    /\ parent' = [parent EXCEPT ![np[p]] = p]
    /\ Goto(p, "fork_run")
    /\ UNCHANGED <<state, pid, chan, killed, kstack, nextpid, lock, on, scan, panic>>

\* Mutant: the kernel stack is not freed.
fork_nocopy_Leak(c) ==
  \E p \in Slot :
    /\ At(c, p, "fork_copy")
    /\ state' = [state EXCEPT ![np[p]] = "UNUSED"]
    /\ Goto(p, "ret")
    /\ UNCHANGED <<pid, parent, chan, killed, kstack, pgdir, nextpid, lock, on,
                   scan, panic>>

\* copyuvm() fails.
fork_nocopy(c) ==
  \E p \in Slot :
    /\ At(c, p, "fork_copy")
    /\ kstack' = kstack \ {np[p]}
    /\ state' = [state EXCEPT ![np[p]] = "UNUSED"]
    /\ Goto(p, "ret")
    /\ UNCHANGED <<pid, parent, chan, killed, pgdir, nextpid, lock, on, scan, panic>>

fork_run(c) ==
  \E p \in Slot :
    /\ At(c, p, "fork_run")
    /\ lock = NoCPU
    /\ state' = [state EXCEPT ![np[p]] = "RUNNABLE"]
    /\ Goto(p, "ret")
    /\ UNCHANGED <<pid, parent, chan, killed, kstack, pgdir, nextpid, lock, on,
                   scan, panic>>

-----------------------------------------------------------------------------
(* exit(), wait() and kill()                                               *)

Child(p) == {s \in Slot : parent[s] = p}

\* The table after exit()'s wakeup1() calls: for the parent, and for init when
\* it inherits a zombie.
exit_wakeups_None(p) == state                           \* mutant
exit_wakeups(p) ==
  LET woken == wakeup1(state, parent[p])
  IN IF \E s \in Child(p) : woken[s] = "ZOMBIE"
     THEN wakeup1(woken, InitProc) ELSE woken

\* "Pass abandoned children to init."
exit_parents_Kept(p) == parent                          \* mutant
exit_parents(p) == [s \in Slot |-> IF s \in Child(p) THEN InitProc ELSE parent[s]]

\* Mutant: exit() does not keep ptable.lock.
exit_Unlocked(c) ==
  \E p \in Slot :
    /\ At(c, p, "exit")
    /\ p # InitProc
    /\ lock = NoCPU
    /\ state' = [exit_wakeups(p) EXCEPT ![p] = "ZOMBIE"]
    /\ parent' = exit_parents(p)
    /\ sw' = [sw EXCEPT ![p] = "exit"]
    /\ UNCHANGED <<pid, chan, killed, kstack, pgdir, nextpid, lock, on, scan,
                   pc, np, panic>>

\* exit() after the files are closed.  It keeps ptable.lock for sched().
exit(c) ==
  \E p \in Slot :
    /\ At(c, p, "exit")
    /\ p # InitProc
    /\ lock = NoCPU
    /\ lock' = c
    /\ state' = [exit_wakeups(p) EXCEPT ![p] = "ZOMBIE"]
    /\ parent' = exit_parents(p)
    /\ sw' = [sw EXCEPT ![p] = "exit"]
    /\ UNCHANGED <<pid, chan, killed, kstack, pgdir, nextpid, on, scan, pc, np,
                   panic>>

init_exits(c) ==
  /\ At(c, InitProc, "exit")
  /\ panic' = "init_exiting"
  /\ UNCHANGED <<state, pid, parent, chan, killed, kstack, pgdir, nextpid,
                 lock, on, scan, thread>>

\* The scan of wait(): on entry it takes ptable.lock, after sleep() it has it.
Scanning(c, p) == \/ At(c, p, "call") /\ lock = NoCPU
                  \/ At(c, p, "wait") /\ lock = c

\* wait() finds a zombie: the first one is freed.
wait_reap(c) ==
  \E p, s \in Slot :
    /\ Scanning(c, p)
    /\ s \in Child(p)
    /\ state[s] = "ZOMBIE"
    /\ \A t \in 1 .. s - 1 : ~(t \in Child(p) /\ state[t] = "ZOMBIE")
    /\ kstack' = kstack \ {s}
    /\ pgdir' = pgdir \ {s}
    /\ pid' = [pid EXCEPT ![s] = 0]
    /\ parent' = [parent EXCEPT ![s] = 0]
    /\ killed' = killed \ {s}
    /\ state' = [state EXCEPT ![s] = "UNUSED"]
    /\ lock' = NoCPU
    /\ Goto(p, "ret")
    /\ UNCHANGED <<chan, nextpid, on, scan, panic>>

\* wait() returns -1.
wait_fail(c) ==
  \E p \in Slot :
    /\ Scanning(c, p)
    /\ \A s \in Child(p) : state[s] # "ZOMBIE"
    /\ Child(p) = {} \/ p \in killed
    /\ lock' = NoCPU
    /\ Goto(p, "ret")
    /\ UNCHANGED <<state, pid, parent, chan, killed, kstack, pgdir, nextpid, on,
                   scan, panic>>

\* wait() sleeps: sleep(curproc, &ptable.lock) up to sched().
wait_sleep(c) ==
  \E p \in Slot :
    /\ Scanning(c, p)
    /\ \A s \in Child(p) : state[s] # "ZOMBIE"
    /\ Child(p) # {} /\ p \notin killed
    /\ lock' = c
    /\ chan' = [chan EXCEPT ![p] = p]
    /\ state' = [state EXCEPT ![p] = "SLEEPING"]
    /\ pc' = [pc EXCEPT ![p] = "wait"]
    /\ sw' = [sw EXCEPT ![p] = "sleep"]
    /\ UNCHANGED <<pid, parent, killed, kstack, pgdir, nextpid, on, scan, np, panic>>

\* Mutant: kill() does not wake the process.
kill_NoWake(c) ==
  \E p, s \in Slot :
    /\ At(c, p, "call")
    /\ lock = NoCPU
    /\ pid[s] \in 0 .. MaxPid
    /\ killed' = killed \cup {s}
    /\ Goto(p, "ret")
    /\ UNCHANGED <<state, pid, parent, chan, kstack, pgdir, nextpid, lock, on,
                   scan, panic>>

\* kill(n): the first slot with that pid, whatever its state is.
kill(c) ==
  \E p \in Slot, n \in 0 .. MaxPid :
    /\ At(c, p, "call")
    /\ lock = NoCPU
    /\ \E s \in Slot :
         /\ pid[s] = n
         /\ \A t \in 1 .. s - 1 : pid[t] # n
         /\ killed' = killed \cup {s}
         /\ state' = [state EXCEPT ![s] = IF @ = "SLEEPING" THEN "RUNNABLE" ELSE @]
    /\ Goto(p, "ret")
    /\ UNCHANGED <<pid, parent, chan, kstack, pgdir, nextpid, lock, on, scan, panic>>

\* A call that changes nothing here: getpid(), a kill() of no process, ...
other_call(c) ==
  \E p \in Slot :
    /\ At(c, p, "call")
    /\ Goto(p, "ret")
    /\ UNCHANGED <<state, pid, parent, chan, killed, kstack, pgdir, nextpid,
                   lock, on, scan, panic>>

-----------------------------------------------------------------------------
(* Switching                                                               *)

\* A clock tick while the process runs without ptable.lock: yield() up to
\* sched().  In user space trap() tests killed before and after.
yield(c) ==
  \E p \in Slot :
    /\ panic = "no" /\ on[c] = p /\ sw[p] = "no"
    /\ lock = NoCPU
    /\ pc[p] # "forkret"
    /\ pc[p] = "user" => p \notin killed
    /\ lock' = c
    /\ state' = [state EXCEPT ![p] = "RUNNABLE"]
    /\ sw' = [sw EXCEPT ![p] = "yield"]
    /\ pc' = [pc EXCEPT ![p] = IF @ = "user" THEN "ret" ELSE @]
    /\ UNCHANGED <<pid, parent, chan, killed, kstack, pgdir, nextpid, on, scan,
                   np, panic>>

\* A clock tick in user space that finds the process killed.
tick_killed(c) ==
  \E p \in Slot :
    /\ At(c, p, "user")
    /\ p \in killed
    /\ Goto(p, "exit")
    /\ UNCHANGED <<state, pid, parent, chan, killed, kstack, pgdir, nextpid,
                   lock, on, scan, panic>>

\* Mutant: the scan starts again from the first slot.
NextSlot_First(s) == 1
\* p++ in scheduler().
NextSlot(s) == s + 1

\* sched(): leave the process's stack for the scheduler's, which goes on
\* with the next slot.
sched(c) ==
  \E p \in Slot :
    /\ panic = "no" /\ on[c] = p
    /\ sw[p] # "no" /\ state[p] # "RUNNING"
    /\ on' = [on EXCEPT ![c] = 0]
    /\ scan' = [scan EXCEPT ![c] = NextSlot(@)]
    /\ panic' = IF lock = c THEN "no" ELSE "sched"
    /\ UNCHANGED <<state, pid, parent, chan, killed, kstack, pgdir, nextpid,
                   lock, thread>>

\* scheduler() takes the lock at the top of its loop.
scheduler_start(c) ==
  /\ panic = "no" /\ on[c] = 0
  /\ scan[c] = 0 /\ lock = NoCPU
  /\ lock' = c
  /\ scan' = [scan EXCEPT ![c] = 1]
  /\ UNCHANGED <<state, pid, parent, chan, killed, kstack, pgdir, nextpid, on,
                 thread, panic>>

\* scheduler() finds a RUNNABLE process and switches to it; switchuvm()
\* panics without a kernel stack or a page table (vm.c:159-163).
dispatch(c) ==
  /\ panic = "no" /\ on[c] = 0
  /\ \E s \in Slot :
       /\ scan[c] # 0 /\ scan[c] <= s
       /\ state[s] = "RUNNABLE"
       /\ \A t \in scan[c] .. s - 1 : state[t] # "RUNNABLE"
       /\ state' = [state EXCEPT ![s] = "RUNNING"]
       /\ on' = [on EXCEPT ![c] = s]
       /\ scan' = [scan EXCEPT ![c] = s]
       /\ panic' = IF s \in kstack /\ s \in pgdir THEN "no" ELSE "switchuvm"
  /\ UNCHANGED <<pid, parent, chan, killed, kstack, pgdir, nextpid, lock, thread>>

\* scheduler() finds no further process and releases the lock.
scheduler_end(c) ==
  /\ panic = "no" /\ on[c] = 0
  /\ scan[c] # 0
  /\ \A t \in scan[c] .. NPROC : state[t] # "RUNNABLE"
  /\ lock' = NoCPU
  /\ scan' = [scan EXCEPT ![c] = 0]
  /\ UNCHANGED <<state, pid, parent, chan, killed, kstack, pgdir, nextpid, on,
                 thread, panic>>

\* A process comes back from sched() in yield(), and releases the lock ...
yield_return(c) ==
  \E p \in Slot :
    /\ panic = "no" /\ on[c] = p
    /\ sw[p] = "yield" /\ state[p] = "RUNNING"
    /\ sw' = [sw EXCEPT ![p] = "no"]
    /\ lock' = NoCPU
    /\ UNCHANGED <<state, pid, parent, chan, killed, kstack, pgdir, nextpid, on,
                   scan, pc, np, panic>>

\* ... or in sleep(), and keeps it for wait().
sleep_return(c) ==
  \E p \in Slot :
    /\ panic = "no" /\ on[c] = p
    /\ sw[p] = "sleep" /\ state[p] = "RUNNING"
    /\ sw' = [sw EXCEPT ![p] = "no"]
    /\ chan' = [chan EXCEPT ![p] = 0]
    /\ UNCHANGED <<state, pid, parent, killed, kstack, pgdir, nextpid, lock, on,
                   scan, pc, np, panic>>

\* A new process starts in forkret().
forkret(c) ==
  \E p \in Slot :
    /\ At(c, p, "forkret")
    /\ lock' = NoCPU
    /\ Goto(p, "user")
    /\ UNCHANGED <<state, pid, parent, chan, killed, kstack, pgdir, nextpid, on,
                   scan, panic>>

-----------------------------------------------------------------------------
fork(c) == \/ fork_alloc(c) \/ fork_full(c) \/ fork_kstack(c) \/ fork_nomem(c)
           \/ fork_copy(c) \/ fork_nocopy(c) \/ fork_run(c)

wait(c) == wait_reap(c) \/ wait_fail(c) \/ wait_sleep(c)

scheduler(c) == scheduler_start(c) \/ dispatch(c) \/ scheduler_end(c)

\* What a process does in the kernel.
Progress(c) == \/ trapret(c) \/ sys_exit(c) \/ fork(c) \/ exit(c) \/ init_exits(c)
               \/ wait(c) \/ kill(c) \/ other_call(c)

\* What moves a CPU from one stack to another.
Switch(c) == \/ sched(c) \/ scheduler(c)
             \/ yield_return(c) \/ sleep_return(c) \/ forkret(c)

\* panic() never returns (console.c:122).
halt == panic # "no" /\ UNCHANGED vars

Next == \/ \E c \in CPU : \/ Progress(c) \/ Switch(c)
                          \/ syscall(c) \/ fault(c)
                          \/ yield(c) \/ tick_killed(c)
        \/ halt

Spec == Init /\ [][Next]_vars

\* For one CPU.  The scheduler goes on; a process inside the kernel gets some
\* way between two clock ticks (strong fairness, since a tick takes the CPU
\* away from it); the clock ticks; and init calls wait() again and again
\* (init.c:35).  That any other process makes system calls, or that an
\* allocation succeeds, is not assumed.
Fairness == \A c \in CPU :
              /\ WF_vars(Switch(c))
              /\ \A s \in Slot : SF_vars(on[c] = s /\ Progress(c))
              /\ WF_vars(yield(c) \/ tick_killed(c))
              /\ SF_vars(on[c] = InitProc /\ syscall(c))
              /\ SF_vars(on[c] = InitProc /\ wait(c))

FairSpec == Spec /\ Fairness

-----------------------------------------------------------------------------
\* Type invariant.
TypeOK ==
  /\ state \in [Slot -> State]
  /\ pid \in [Slot -> Nat]
  /\ parent \in [Slot -> Slot \cup {0}]
  /\ chan \in [Slot -> Slot \cup {0}]
  /\ killed \subseteq Slot
  /\ kstack \subseteq Slot
  /\ pgdir \subseteq Slot
  /\ nextpid \in Nat
  /\ lock \in CPU \cup {NoCPU}
  /\ on \in [CPU -> Slot \cup {0}]
  /\ scan \in [CPU -> 0 .. NPROC + 1]
  /\ pc \in [Slot -> PC]
  /\ sw \in [Slot -> {"no", "yield", "sleep", "exit"}]
  /\ np \in [Slot -> Slot \cup {0}]
  /\ panic \in {"no", "init_exiting", "sched", "switchuvm"}

\* No kernel stack is used by two CPUs: yield(), sleep() and exit() make a
\* process visible to the other CPUs' schedulers while it still runs on its
\* stack, and only ptable.lock keeps them away until swtch() is done.
OneCPUPerStack ==
  \A c, d \in CPU : on[c] # 0 /\ on[c] = on[d] => c = d

\* wait() never frees the kernel stack or the page table a CPU is running
\* on, although a parent may look at the zombie before it has switched away.
StackNotFreed ==
  \A c \in CPU : on[c] # 0 => on[c] \in kstack /\ on[c] \in pgdir

\* A slot has a kernel stack and a page table exactly when its process does:
\* nothing is leaked by a fork() that fails half way, and no process that the
\* scheduler or wait() can meet lacks one.
MemoryMatchesState ==
  \A s \in Slot :
    /\ state[s] = "UNUSED" => s \notin kstack /\ s \notin pgdir
    /\ state[s] \notin {"UNUSED", "EMBRYO"} => s \in kstack /\ s \in pgdir

\* Two processes never have the same pid.
PidsUnique ==
  \A s, t \in Slot :
    s # t /\ state[s] # "UNUSED" /\ state[t] # "UNUSED" => pid[s] # pid[t]

\* Every process but init has a parent that is there to wait for it: exit()
\* leaves no child behind, also one that is being forked or is a zombie.
ParentAlive ==
  \A s \in Slot \ {InitProc} :
    state[s] \notin {"UNUSED", "EMBRYO"} =>
      /\ parent[s] # 0
      /\ state[parent[s]] \notin {"UNUSED", "EMBRYO", "ZOMBIE"}

\* No process sleeps in wait() while it has a child to reap: the wakeup1()
\* calls of exit() reach the parent, old or new, in time.
NoMissedExit ==
  \A s \in Slot : state[s] = "ZOMBIE" /\ parent[s] # 0 =>
                  state[parent[s]] # "SLEEPING"

\* The only panic of the process table is the one for init exiting: sched()
\* always has ptable.lock, switchuvm() always has its stack and page table.
OnlyInitPanics == panic \in {"no", "init_exiting"}

\* kill() marks a process: "Kill the process with the given pid" (proc.c:479).
KillHitsProcess ==
  [][\A s \in Slot : s \in killed' \ killed => state[s] # "UNUSED"]_vars

\* Every process that is ready to run does run: scheduler() resumes its scan
\* behind the process that has just run, so nobody is passed over for ever.
NoStarvation ==
  \A s \in Slot : state[s] = "RUNNABLE" ~> (state[s] # "RUNNABLE" \/ panic # "no")

\* A process that has been killed exits, wherever it was: in user space, in a
\* system call, sleeping in wait(), or not yet born.
KilledExits ==
  \A s \in Slot :
    s \in killed /\ state[s] # "UNUSED" ~> (state[s] \in {"ZOMBIE", "UNUSED"} \/ panic # "no")

\* A zombie whose parent is init, from the start or since its parent exited,
\* is reaped.
OrphansReaped ==
  \A s \in Slot :
    state[s] = "ZOMBIE" /\ parent[s] = InitProc ~> (state[s] = "UNUSED" \/ panic # "no")

\* Kernel stacks are safe: no CPU runs on another's or on one that wait() has
\* freed.
StackSafe == OneCPUPerStack /\ StackNotFreed

\* The table is well formed: types, pids and the tree of parents.
ProcTableOK == TypeOK /\ PidsUnique /\ ParentAlive
=============================================================================
