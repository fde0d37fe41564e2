------------------------------ MODULE SpinLock ------------------------------
(***************************************************************************)
(* Spinlocks, interrupts and context switches (spinlock.c, and the parts   *)
(* of proc.c, trap.c and trapasm.S that move a CPU between contexts).      *)
(*                                                                         *)
(* A context is a kernel stack: one per process (Thread) and one per CPU,  *)
(* the scheduler's.  On it lie frames: the bottom one is the system call   *)
(* or the scheduler's loop, and an interrupt pushes another.  A frame is   *)
(* the list of instructions it has still to run, of which only those that  *)
(* matter to locks are kept; acquire() and release() are cut into the      *)
(* steps another CPU or an interrupt can see.                              *)
(***************************************************************************)
EXTENDS Integers, Sequences, FiniteSets

CONSTANTS CPU,       \* the CPUs; each also names its scheduler context
          Thread,    \* the processes' kernel threads
          BootCPU,   \* the CPU with cpuid() 0, which counts clock ticks
          Machines,  \* records [cpu, thread, calls]: the CPUs mpinit() finds, the
                     \* threads and the system calls they make
          NoCPU      \* lk->cpu = 0

ASSUME CPUAssumption == BootCPU \in CPU /\ NoCPU \notin CPU /\ CPU \cap Thread = {}

\* The system calls CallCode() has the code of.
Call == {"iderw", "sys_sleep", "wait", "wakeup", "filealloc"}

ASSUME MachineAssumption == \A m \in Machines :
  m.cpu \subseteq CPU /\ m.thread \subseteq Thread /\ m.calls \subseteq Call

VARIABLES
  locked,   \* lk->locked
  lcpu,     \* lk->cpu
  IF_,      \* the interrupt flag of each CPU, 0 or 1
  ncli,     \* cpu->ncli
  intena,   \* cpu->intena
  on,       \* the context each CPU runs; cpu->proc is 0 when it is the CPU
  stack,    \* the frames of each context, the innermost last
  saved,    \* the local variable intena of sched(), 0 when it is dead
  panic,    \* the panic() that stopped the machine, or "none"
  machine   \* which of Machines this is, for good

vars == <<locked, lcpu, IF_, ncli, intena, on, stack, saved, panic>>

-----------------------------------------------------------------------------
(* What the code runs.                                                     *)
Acq(l) == [op |-> "acquire", lk |-> l]
Rel(l) == [op |-> "release", lk |-> l]
Ins(o) == [op |-> o, lk |-> "none"]

Lock == {"ptable", "tickslock", "idelock", "ftable"}

\* wakeup(), and yield() or sleep(chan, &ptable.lock).
Wakeup == <<Acq("ptable"), Rel("ptable")>>
Yield == <<Acq("ptable"), Ins("sched"), Rel("ptable")>>

\* A system call that waits with sleep(chan, lk) while it holds lk.
SleepCall(l) == <<Acq(l), Acq("ptable"), Rel(l), Ins("sched"),
                  Rel("ptable"), Acq(l), Rel(l)>>

\* filealloc(): the table is searched with interrupts switched on.
FileAlloc == <<Acq("ftable"), Ins("sti"), Ins("cli"), Rel("ftable")>>

CallCode(call) == CASE call = "iderw" -> SleepCall("idelock")
                    [] call = "sys_sleep" -> SleepCall("tickslock")
                    [] call = "wait" -> Yield
                    [] call = "wakeup" -> Wakeup
                    [] call = "filealloc" -> FileAlloc

\* trap() for the timer: CPU 0 counts the tick, and a process yields.
TimerCode(c) ==
  (IF c = BootCPU THEN <<Acq("tickslock")>> \o Wakeup \o <<Rel("tickslock")>>
                  ELSE << >>)
  \o (IF on[c] \in Thread THEN Yield ELSE << >>)

\* trap() for the disk: ideintr().
IdeCode == <<Acq("idelock")>> \o Wakeup \o <<Rel("idelock")>>

\* Mutant: scheduler() without its sti().
SchedulerCode_NoSti == <<Acq("ptable"), Ins("pick"), Rel("ptable")>>

SchedulerCode == <<Ins("sti"), Acq("ptable"), Ins("pick"), Rel("ptable")>>

\* kind: "user" (nothing on the kernel stack), "call", "irq", "forkret" or
\* "scheduler".  at: how far the first instruction has come.  eflags: what
\* pushcli() read.
Frame(k, code) == [kind |-> k, code |-> code, at |-> "start", eflags |-> 0]

-----------------------------------------------------------------------------
Init == /\ locked = [l \in Lock |-> 0]
        /\ lcpu = [l \in Lock |-> NoCPU]
        /\ IF_ = [c \in CPU |-> 0]
        /\ ncli = [c \in CPU |-> 0]
        /\ intena = [c \in CPU |-> 0]
        /\ on = [c \in CPU |-> c]
        /\ stack = [x \in CPU \cup Thread |->
                      IF x \in CPU THEN <<Frame("scheduler", SchedulerCode)>>
                                   ELSE <<Frame("forkret", <<Rel("ptable")>>)>>]
        /\ saved = [t \in Thread |-> 0]
        /\ panic = "none"
        /\ machine \in Machines

\* The innermost frame of the context on CPU c and its current instruction.
Top(c) == stack[on[c]][Len(stack[on[c]])]
Doing(c, op, at) == /\ panic = "none"
                    /\ Top(c).code # << >>
                    /\ Head(Top(c).code).op = op
                    /\ Top(c).at = at
lk(c) == Head(Top(c).code).lk

\* holding(lk), on CPU c.
holding(c, l) == locked[l] = 1 /\ lcpu[l] = c

\* The frame on CPU c is replaced; Goto moves inside the current instruction
\* and Advance goes to the next one.
SetTop(c, f) == stack' = [stack EXCEPT ![on[c]][Len(stack[on[c]])] = f]
Goto(c, at) == SetTop(c, [Top(c) EXCEPT !.at = at])
After(f) == Frame(f.kind, Tail(f.code))
Advance(c) == SetTop(c, After(Top(c)))

-----------------------------------------------------------------------------
(* acquire(lk)                                                             *)

\* pushcli() reads eflags; an interrupt may still come.
readeflags(c) ==
  /\ Doing(c, "acquire", "start")
  /\ SetTop(c, [Top(c) EXCEPT !.at = "cli", !.eflags = IF_[c]])
  /\ UNCHANGED <<locked, lcpu, IF_, ncli, intena, on, saved, panic>>

\* The rest of pushcli(), and the test for a recursive acquire().
pushcli(c) ==
  /\ Doing(c, "acquire", "cli")
  /\ IF_' = [IF_ EXCEPT ![c] = 0]
  /\ intena' = [intena EXCEPT ![c] = IF ncli[c] = 0 THEN Top(c).eflags ELSE @]
  /\ ncli' = [ncli EXCEPT ![c] = @ + 1]
  /\ panic' = IF holding(c, lk(c)) THEN "acquire" ELSE "none"
  /\ Goto(c, "xchg")
  /\ UNCHANGED <<locked, lcpu, on, saved>>

\* Mutant: the old value of lk->locked is ignored.
xchg_NoTest(c) ==
  /\ Doing(c, "acquire", "xchg")
  /\ locked' = [locked EXCEPT ![lk(c)] = 1]
  /\ Goto(c, "cpu")
  /\ UNCHANGED <<lcpu, IF_, ncli, intena, on, saved, panic>>

\* The xchg that finds lk->locked = 0.  One that does not changes nothing.
xchg(c) ==
  /\ Doing(c, "acquire", "xchg")
  /\ locked[lk(c)] = 0
  /\ locked' = [locked EXCEPT ![lk(c)] = 1]
  /\ Goto(c, "cpu")
  /\ UNCHANGED <<lcpu, IF_, ncli, intena, on, saved, panic>>

set_cpu(c) ==
  /\ Doing(c, "acquire", "cpu")
  /\ lcpu' = [lcpu EXCEPT ![lk(c)] = c]
  /\ Advance(c)
  /\ UNCHANGED <<locked, IF_, ncli, intena, on, saved, panic>>

-----------------------------------------------------------------------------
(* release(lk)                                                             *)

\* Mutant: release() leaves lk->cpu as it is.
clear_cpu_Kept(c) ==
  /\ Doing(c, "release", "start")
  /\ panic' = IF holding(c, lk(c)) THEN "none" ELSE "release"
  /\ Goto(c, "unlock")
  /\ UNCHANGED <<locked, lcpu, IF_, ncli, intena, on, saved>>

clear_cpu(c) ==
  /\ Doing(c, "release", "start")
  /\ panic' = IF holding(c, lk(c)) THEN "none" ELSE "release"
  /\ lcpu' = [lcpu EXCEPT ![lk(c)] = NoCPU]
  /\ Goto(c, "unlock")
  /\ UNCHANGED <<locked, IF_, ncli, intena, on, saved>>

unlock(c) ==
  /\ Doing(c, "release", "unlock")
  /\ locked' = [locked EXCEPT ![lk(c)] = 0]
  /\ Goto(c, "popcli")
  /\ UNCHANGED <<lcpu, IF_, ncli, intena, on, saved, panic>>

popcli(c) ==
  /\ Doing(c, "release", "popcli")
  /\ panic' = IF IF_[c] = 1 \/ ncli[c] < 1 THEN "popcli" ELSE "none"
  /\ ncli' = [ncli EXCEPT ![c] = @ - 1]
  /\ IF_' = [IF_ EXCEPT ![c] = IF ncli[c] = 1 /\ intena[c] = 1 THEN 1 ELSE @]
  /\ Advance(c)
  /\ UNCHANGED <<locked, lcpu, intena, on, saved>>

-----------------------------------------------------------------------------
sti(c) ==
  /\ Doing(c, "sti", "start")
  /\ IF_' = [IF_ EXCEPT ![c] = 1]
  /\ Advance(c)
  /\ UNCHANGED <<locked, lcpu, ncli, intena, on, saved, panic>>

cli(c) ==
  /\ Doing(c, "cli", "start")
  /\ IF_' = [IF_ EXCEPT ![c] = 0]
  /\ Advance(c)
  /\ UNCHANGED <<locked, lcpu, ncli, intena, on, saved, panic>>

\* sched(): its tests, and swtch() to the scheduler of this CPU.  The thread
\* stays in the instruction until it is resumed.
SchedPanic(c) == IF ~holding(c, "ptable") THEN "sched_ptable_lock"
                 ELSE IF ncli[c] # 1 THEN "sched_locks"
                 ELSE IF IF_[c] = 1 THEN "sched_interruptible" ELSE "none"

sched(c) ==
  /\ Doing(c, "sched", "start")
  /\ panic' = SchedPanic(c)
  /\ saved' = [saved EXCEPT ![on[c]] = intena[c]]
  /\ Goto(c, "switched")
  /\ on' = [on EXCEPT ![c] = c]
  /\ UNCHANGED <<locked, lcpu, IF_, ncli, intena>>

\* Mutant: sched() does not restore intena.
swtch_IntenaLost(c) ==
  /\ Doing(c, "pick", "start")
  /\ \E t \in machine.thread :
       /\ \A d \in CPU : on[d] # t
       /\ on' = [on EXCEPT ![c] = t]
       /\ LET f == stack[t][Len(stack[t])] IN
          stack' = IF f.at = "switched"
                   THEN [stack EXCEPT ![t][Len(stack[t])] = After(f)] ELSE stack
       /\ saved' = [saved EXCEPT ![t] = 0]
  /\ UNCHANGED <<locked, lcpu, IF_, ncli, intena, panic>>

\* scheduler() switches to a process that no CPU runs.  It continues after
\* the swtch() in sched(), which restores intena, or at the start of forkret().
swtch(c) ==
  /\ Doing(c, "pick", "start")
  /\ \E t \in machine.thread :
       /\ \A d \in CPU : on[d] # t
       /\ on' = [on EXCEPT ![c] = t]
       /\ LET f == stack[t][Len(stack[t])] IN
          IF f.at = "switched"
          THEN /\ stack' = [stack EXCEPT ![t][Len(stack[t])] = After(f)]
               /\ intena' = [intena EXCEPT ![c] = saved[t]]
               /\ saved' = [saved EXCEPT ![t] = 0]
          ELSE UNCHANGED <<stack, intena, saved>>
  /\ UNCHANGED <<locked, lcpu, IF_, ncli, panic>>

\* scheduler() reaches the end of the process table.
table_end(c) ==
  /\ Doing(c, "pick", "start")
  /\ Advance(c)
  /\ UNCHANGED <<locked, lcpu, IF_, ncli, intena, on, saved, panic>>

-----------------------------------------------------------------------------
\* int $T_SYSCALL is a trap gate: interrupts stay on.
syscall(c) ==
  /\ panic = "none"
  /\ Top(c).kind = "user"
  /\ \E call \in machine.calls : SetTop(c, Frame("call", CallCode(call)))
  /\ UNCHANGED <<locked, lcpu, IF_, ncli, intena, on, saved, panic>>

\* A device interrupt goes through an interrupt gate: interrupts go off.
interrupt(c) ==
  /\ panic = "none"
  /\ IF_[c] = 1
  /\ IF_' = [IF_ EXCEPT ![c] = 0]
  /\ \E code \in {TimerCode(c), IdeCode} :
       stack' = [stack EXCEPT ![on[c]] = Append(@, Frame("irq", code))]
  /\ UNCHANGED <<locked, lcpu, ncli, intena, on, saved, panic>>

\* The handler returns to what it interrupted.
irq_iret(c) ==
  /\ panic = "none"
  /\ Top(c).kind = "irq"
  /\ Top(c).code = << >>
  /\ IF_' = [IF_ EXCEPT ![c] = 1]
  /\ stack' = [stack EXCEPT ![on[c]] = SubSeq(@, 1, Len(@) - 1)]
  /\ UNCHANGED <<locked, lcpu, ncli, intena, on, saved, panic>>

\* trapret: a system call or forkret() returns to user space.
trapret(c) ==
  /\ panic = "none"
  /\ Top(c).kind \in {"call", "forkret"}
  /\ Top(c).code = << >>
  /\ IF_' = [IF_ EXCEPT ![c] = 1]
  /\ SetTop(c, Frame("user", << >>))
  /\ UNCHANGED <<locked, lcpu, ncli, intena, on, saved, panic>>

\* The for(;;) of scheduler().
scheduler_loop(c) ==
  /\ panic = "none"
  /\ Top(c).kind = "scheduler"
  /\ Top(c).code = << >>
  /\ SetTop(c, Frame("scheduler", SchedulerCode))
  /\ UNCHANGED <<locked, lcpu, IF_, ncli, intena, on, saved, panic>>

-----------------------------------------------------------------------------
\* A CPU executes its next instruction.
Step(c) == \/ readeflags(c) \/ pushcli(c) \/ xchg(c) \/ set_cpu(c)
           \/ clear_cpu(c) \/ unlock(c) \/ popcli(c)
           \/ sti(c) \/ cli(c) \/ sched(c) \/ swtch(c) \/ table_end(c)
           \/ irq_iret(c) \/ trapret(c) \/ scheduler_loop(c)

Next == /\ \E c \in machine.cpu : Step(c) \/ syscall(c) \/ interrupt(c)
        /\ UNCHANGED machine

Spec == Init /\ [][Next]_<<vars, machine>>

\* A CPU never stops fetching instructions, and a CPU that spins on a lock
\* that is released again and again gets it some time.  System calls and
\* interrupts may come or not.
FairSpec == Spec /\ \A c \in CPU : /\ WF_vars(c \in machine.cpu /\ Step(c))
                                   /\ SF_vars(c \in machine.cpu /\ xchg(c))

-----------------------------------------------------------------------------
\* Frame f is between the xchg and the movl of lock l.
InCritical(f, l) ==
  \E i \in 1 .. Len(f.code) :
    /\ f.code[i].lk = l
    /\ \A j \in 1 .. i - 1 : f.code[j].lk # l
    /\ \/ f.code[i].op = "release" /\ ~(i = 1 /\ f.at = "popcli")
       \/ f.code[i].op = "acquire" /\ i = 1 /\ f.at = "cpu"

\* The lock is held by the context CPU c is running.
Held(c, l) == \E k \in 1 .. Len(stack[on[c]]) : InCritical(stack[on[c]][k], l)

\* Type invariant.
TypeOK ==
  /\ locked \in [Lock -> 0 .. 1]
  /\ lcpu \in [Lock -> CPU \cup {NoCPU}]
  /\ IF_ \in [CPU -> 0 .. 1]
  /\ ncli \in [CPU -> Nat]
  /\ intena \in [CPU -> 0 .. 1]
  /\ \A c \in CPU : on[c] \in Thread \cup {c}
  /\ \A x \in CPU \cup Thread : Len(stack[x]) \in 1 .. 2
  /\ saved \in [Thread -> 0 .. 1]
  /\ panic \in {"none", "acquire", "release", "popcli", "sched_ptable_lock", "sched_locks",
               "sched_interruptible"}
  /\ machine \in Machines

\* No two CPUs are in critical sections of the same spinlock, also while
\* ptable.lock is handed from a thread to the scheduler and to another thread
\* across swtch(), and the word lk->locked is 1 exactly while one is.
MutualExclusion ==
  panic = "none" =>
    \A l \in Lock : /\ \A c, d \in CPU : Held(c, l) /\ Held(d, l) => c = d
                    /\ locked[l] = 1 <=> \E c \in CPU : Held(c, l)

\* cpu->ncli counts the spinlocks the CPU holds or is taking, whichever
\* contexts it has run in between (sched() keeps ncli and moves intena).
NcliCounts ==
  panic = "none" =>
    \A c \in CPU :
      ncli[c] = Cardinality({l \in Lock : Held(c, l)})
                + (IF Top(c).at \in {"xchg", "popcli"} THEN 1 ELSE 0)

\* A system call runs with interrupts on whenever it holds no lock: pushcli()
\* and popcli() restore what they found, even when the thread has slept and
\* come back on another CPU (the intena saved by sched(), proc.c:382-384).
InterruptsRestored ==
  panic = "none" =>
    \A c \in CPU : Top(c).kind = "call" /\ ncli[c] = 0 => IF_[c] = 1

\* A thread calls sched() with ptable.lock and no other spinlock held
\* (proc.c:361, "Must hold only ptable.lock").
SchedHoldsOnlyPtable ==
  \A c \in CPU : Doing(c, "sched", "start") =>
                  {l \in Lock : Held(c, l)} = {"ptable"}

\* No acquire(), release(), popcli() or sched() panics: holding() never takes
\* another CPU's lock for its own although it reads lk->locked and lk->cpu
\* while other CPUs write them.  (filealloc(), which switches interrupts on in
\* its critical section, can make sched() panic: SchedHoldsOnlyPtable.)
NoPanic == "filealloc" \notin machine.calls => panic = "none"

\* No CPU is ever stuck with interrupts off, idle or spinning, unless by a
\* panic: there is no cycle of lock waits, and an idle CPU listens (the sti()
\* of scheduler()).
CPUsListen == \A c \in CPU : []<>(IF_[c] = 1 \/ c \notin machine.cpu \/ panic # "none")

\* pushcli() and popcli() count the locks and give back the interrupts, over
\* every nesting of traps and every context switch.
InterruptsFollowLocks == TypeOK /\ NcliCounts /\ InterruptsRestored
=============================================================================
