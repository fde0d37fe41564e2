--------------------------- MODULE SpinLockProofs ---------------------------
(***************************************************************************)
(* Spinlocks exclude each other, ncli counts them and the interrupts come  *)
(* back, on any number of CPUs, with any number of threads, for the code   *)
(* of SpinLock: the steps of traps and of the scheduler, and the theorems. *)
(***************************************************************************)
EXTENDS SpinLockSteps

-----------------------------------------------------------------------------
\* A step that changes at most the interrupt flag of CPU c, and its innermost frame.
LEMMA FlagStep ==
  ASSUME Types, Sound, NEW c \in CPU, panic = "none", NEW g, Retopped(c, g), NEW i2 \in 0 .. 1,
         IF_' = [IF_ EXCEPT ![c] = i2], Crit(g) = Crit(Top(c)),
         Top(c).at = "start", g.at = "start",
         FlagsOK(g, Below(stack[on[c]]), H(c), i2, ncli[c], intena[c]),
         locked' = locked, lcpu' = lcpu, ncli' = ncli, intena' = intena, on' = on, saved' = saved,
         panic' = panic, machine' = machine
  PROVE  Types' /\ panic' = "none" /\ Sound'
<1>1. H(c) = Below(stack[on[c]]) \cup Crit(Top(c))
  BY OnCPU, Zenon
<1>2. /\ Top(c)' = g /\ H(c)' = H(c) /\ Below(stack[on[c]])' = Below(stack[on[c]]) /\ Others(c)
      /\ Stacks' /\ Switching'
  BY <1>1, Zenon DEF Retopped, Others
<1>3. Pending(Top(c)) = {} /\ Pending(g) = {}
  BY Zenon DEF Pending
<1>4. Locks'
  BY <1>2, <1>3, KeepLocks, Zenon
<1>5. IF_ \in [CPU -> 0 .. 1]
  BY Zenon DEF Types
<1>6. IF_'[c] = i2 /\ IF_' \in [CPU -> 0 .. 1]
  BY Zenon, <1>5
<1>7. Registers(c)
  BY Zenon, <1>5 DEF Registers
<1>8. Flags(c)'
  BY <1>2, <1>6, Zenon DEF Flags
<1>9. Sound'
  BY <1>2, <1>4, <1>7, <1>8, Finish, ZenonT(30)
<1>10. Types'
  BY <1>6, Zenon DEF Types, Retopped
<1> QED
  BY <1>9, <1>10, Zenon

\* sti(): by scheduler() without locks, or in filealloc().
LEMMA StiIInv ==
  ASSUME Types, Sound, NEW c \in CPU, sti(c), machine' = machine
  PROVE  Types' /\ panic' = "none" /\ Sound'
<1> DEFINE f == Top(c)
           low == Below(stack[on[c]])
           g == After(Top(c))
<1>1. /\ panic = "none" /\ f.code # << >> /\ Head(f.code).op = "sti" /\ f.at = "start"
      /\ IF_' = [IF_ EXCEPT ![c] = 1] /\ Advance(c)
      /\ locked' = locked /\ lcpu' = lcpu /\ ncli' = ncli /\ intena' = intena
      /\ on' = on /\ saved' = saved /\ panic' = panic
  BY Zenon DEF sti, Doing
<1>2. /\ FrameOK(f) /\ FlagsOK(f, low, H(c), IF_[c], ncli[c], intena[c])
      /\ H(c) = low \cup Crit(f) /\ (f.kind # "irq" => low = {})
  BY <1>1, Running, Zenon
<1>3. /\ Retopped(c, g) /\ g.kind = f.kind /\ g.code = Tail(f.code) /\ g.at = "start"
      /\ Crit(g) = HoldAfter(f.code, 1)
  BY <1>1, AdvanceIs, Zenon
<1> HIDE DEF g
<1>4. f.kind \in {"call", "scheduler"}
  BY ZenonT(30), <1>1, <1>2, WhoRuns
<1>5. Crit(g) = Crit(f) /\ (Crit(f) = {} \/ (g.code # << >> /\ Head(g.code).op = "cli"))
  BY ZenonT(30), <1>1, <1>2, <1>3, CritOther
<1>6. H(c) = Crit(f)
  BY ZenonT(30), <1>2, <1>4
<1>7. FlagsOK(g, low, H(c), 1, ncli[c], intena[c])
  BY ZenonT(30), <1>1, <1>2, <1>3, <1>4, <1>5, <1>6 DEF FlagsOK, Extra
<1>8. 1 \in 0 .. 1
  OBVIOUS
<1> QED
  BY <1>1, <1>3, <1>5, <1>7, <1>8, FlagStep, ZenonT(30)

\* cli(), with ftable.lock held.
LEMMA CliIInv ==
  ASSUME Types, Sound, NEW c \in CPU, cli(c), machine' = machine
  PROVE  Types' /\ panic' = "none" /\ Sound'
<1> DEFINE f == Top(c)
           low == Below(stack[on[c]])
           g == After(Top(c))
<1>1. /\ panic = "none" /\ f.code # << >> /\ Head(f.code).op = "cli" /\ f.at = "start"
      /\ IF_' = [IF_ EXCEPT ![c] = 0] /\ Advance(c)
      /\ locked' = locked /\ lcpu' = lcpu /\ ncli' = ncli /\ intena' = intena
      /\ on' = on /\ saved' = saved /\ panic' = panic
  BY Zenon DEF cli, Doing
<1>2. /\ FrameOK(f) /\ FlagsOK(f, low, H(c), IF_[c], ncli[c], intena[c])
      /\ H(c) = low \cup Crit(f) /\ (f.kind # "irq" => low = {}) /\ H(c) \subseteq Lock
  BY <1>1, Running, Zenon
<1>3. /\ Retopped(c, g) /\ g.kind = f.kind /\ g.at = "start" /\ Crit(g) = HoldAfter(f.code, 1)
  BY <1>1, AdvanceIs, ZenonT(30)
<1> HIDE DEF g
<1>4. f.kind = "call"
  BY ZenonT(30), <1>1, <1>2, WhoRuns
<1>5. Crit(g) = Crit(f) /\ Crit(f) = {"ftable"}
  BY ZenonT(30), <1>1, <1>2, <1>3, CritOther
<1>6. ncli[c] # 0
  <2>1. H(c) # {}
    BY ZenonT(30), <1>2, <1>5
  <2> QED
    BY <1>1, <1>2, <2>1, Sizes DEF FlagsOK, Extra
<1>7. FlagsOK(g, low, H(c), 0, ncli[c], intena[c])
  BY SMTT(30), <1>1, <1>2, <1>3, <1>4, <1>6 DEF FlagsOK, Extra
<1>8. 0 \in 0 .. 1
  OBVIOUS
<1> QED
  BY <1>1, <1>3, <1>5, <1>7, <1>8, FlagStep, ZenonT(30)

\* scheduler() at the end of the process table, with ptable.lock held.
LEMMA TableEndIInv ==
  ASSUME Types, Sound, NEW c \in CPU, table_end(c), machine' = machine
  PROVE  Types' /\ panic' = "none" /\ Sound'
<1> DEFINE f == Top(c)
           low == Below(stack[on[c]])
           g == After(Top(c))
<1>1. /\ panic = "none" /\ f.code # << >> /\ Head(f.code).op = "pick" /\ f.at = "start"
      /\ IF_' = IF_ /\ Advance(c)
      /\ locked' = locked /\ lcpu' = lcpu /\ ncli' = ncli /\ intena' = intena
      /\ on' = on /\ saved' = saved /\ panic' = panic
  BY Zenon DEF table_end, Doing
<1>2. /\ FrameOK(f) /\ FlagsOK(f, low, H(c), IF_[c], ncli[c], intena[c])
      /\ H(c) = low \cup Crit(f) /\ IF_[c] \in 0 .. 1 /\ IF_' = [IF_ EXCEPT ![c] = IF_[c]]
  BY Zenon, <1>1, Running DEF Types
<1>3. /\ Retopped(c, g) /\ g.kind = f.kind /\ g.at = "start" /\ Crit(g) = HoldAfter(f.code, 1)
  BY <1>1, AdvanceIs, Zenon
<1> HIDE DEF g
<1>4. f.kind = "scheduler"
  BY ZenonT(30), <1>1, <1>2, WhoRuns
<1>5. Crit(g) = Crit(f) /\ Crit(f) = {"ptable"}
  BY ZenonT(30), <1>1, <1>2, <1>3, CritOther
<1>6. IF_[c] = 0
  BY <1>1, <1>2, <1>5 DEF FlagsOK
<1>7. FlagsOK(g, low, H(c), IF_[c], ncli[c], intena[c])
  BY ZenonT(30), <1>1, <1>2, <1>3, <1>4, <1>6 DEF FlagsOK, Extra
<1> QED
  BY <1>1, <1>2, <1>3, <1>5, <1>7, FlagStep, ZenonT(30)

\* A system call, forkret() or scheduler() whose code is done: no lock is left.
LEMMA CodeDone ==
  ASSUME Types, Sound, NEW c \in CPU, Top(c).code = << >>
  PROVE  LET s == stack[on[c]] IN
         /\ on[c] \in Ctx /\ StackOK(on[c], s) /\ FrameOK(Top(c)) /\ Inner(s) = Top(c)
         /\ Top(c).at = "start" /\ Crit(Top(c)) = {} /\ H(c) = Below(s)
         /\ FlagsOK(Top(c), Below(s), H(c), IF_[c], ncli[c], intena[c])
         /\ ncli[c] = Cardinality(H(c)) /\ H(c) \subseteq Lock
         /\ Top(c).kind # "irq" => Len(s) = 1 /\ s[1] = Top(c) /\ Below(s) = {} /\ ncli[c] = 0
<1> DEFINE s == stack[on[c]]
<1>1. /\ on[c] \in Ctx /\ StackOK(on[c], s) /\ FrameOK(Top(c)) /\ Inner(s) = Top(c)
      /\ H(c) = Below(s) \cup Crit(Top(c)) /\ H(c) \subseteq Lock
  BY OnCPU, Zenon
<1>2. Top(c).at = "start" /\ Crit(Top(c)) = {}
  BY <1>1, CritDone, Zenon DEF FrameOK
<1>3. H(c) = Below(s)
  BY Zenon, <1>1, <1>2
<1>4. FlagsOK(Top(c), Below(s), H(c), IF_[c], ncli[c], intena[c])
  BY Zenon DEF Sound, Flags
<1>5. ncli[c] = Cardinality(H(c))
  <2>1. Extra(Top(c)) = 0
    BY Zenon, <1>2 DEF Extra
  <2>2. Cardinality(H(c)) \in Nat /\ ncli[c] = Cardinality(H(c)) + Extra(Top(c))
    BY <1>1, <1>4, Sizes, Zenon DEF FlagsOK
  <2> QED
    BY <2>1, <2>2
<1>6. Top(c).kind # "irq" => Len(s) = 1 /\ s[1] = Top(c) /\ Below(s) = {}
  BY <1>1, BelowIs, ZenonT(30)
<1>7. Below(s) = {} => ncli[c] = 0
  BY Zenon, <1>1, <1>3, <1>5, Sizes
<1> QED
  BY <1>1, <1>2, <1>3, <1>4, <1>5, <1>6, <1>7, ZenonT(30)

\* New code on such a CPU.
LEMMA NewCode ==
  ASSUME Types, Sound, NEW c \in CPU, Top(c).code = << >>, NEW k \in Kind, NEW code,
         Owes(code, {}), code \in Seq(Uses(k)), SetTop(c, Frame(k, code)),
         \/ k = "scheduler" /\ Top(c).kind = "scheduler"
         \/ k \in {"user", "call"} /\ Top(c).kind \in {"user", "call", "forkret"},
         "filealloc" \notin machine.calls /\ k = "call" => code \in Seq(Quiet),
         on' = on, saved' = saved, machine' = machine
  PROVE  /\ Retopped(c, Frame(k, code)) /\ Frame(k, code).kind = k /\ Frame(k, code).at = "start"
         /\ Crit(Frame(k, code)) = {}
<1> DEFINE g == Frame(k, code)
           s == stack[on[c]]
<1>1. FrameOK(g) /\ g.kind = k /\ g.code = code /\ g.at = "start" /\ Crit(g) = {}
  BY NewFrame
<1>2. StackOK(on[c], s) /\ (Top(c).kind # "irq" => Len(s) = 1 /\ s[1] = Top(c))
  BY CodeDone, Zenon
<1>3. SetTop(c, g)
  BY Zenon
<1> HIDE DEF g
<1>4. Len(s) = 1 /\ s[1] = Top(c)
  BY Zenon, <1>2
<1>5. Proper(on[c], 1, s[1])
  BY <1>2, ZenonT(30) DEF StackOK
<1>6. Proper(on[c], Len(s), g)
  BY ZenonT(30), <1>1, <1>4, <1>5 DEF Proper
<1>7. Retopped(c, g)
  BY <1>1, <1>3, <1>6, Retop, ZenonT(30)
<1> QED
  BY <1>1, <1>7, ZenonT(30) DEF g

\* trapret: the process goes on in user space with interrupts on.
LEMMA TrapretIInv ==
  ASSUME Types, Sound, NEW c \in CPU, trapret(c), machine' = machine
  PROVE  Types' /\ panic' = "none" /\ Sound'
<1> DEFINE f == Top(c)
           low == Below(stack[on[c]])
           g == Frame("user", << >>)
<1>1. /\ panic = "none" /\ f.code = << >> /\ f.kind \in {"call", "forkret"}
      /\ IF_' = [IF_ EXCEPT ![c] = 1] /\ SetTop(c, g)
      /\ locked' = locked /\ lcpu' = lcpu /\ ncli' = ncli /\ intena' = intena
      /\ on' = on /\ saved' = saved /\ panic' = panic
  BY Zenon DEF trapret
<1>2. f.kind # "irq"
  BY Zenon, <1>1
<1>3. /\ f.at = "start" /\ Crit(f) = {} /\ H(c) = low /\ low = {} /\ ncli[c] = 0 /\ ncli[c] = Cardinality(H(c))
  BY <1>1, <1>2, CodeDone, ZenonT(30)
<1>4. Retopped(c, g) /\ g.kind = "user" /\ g.at = "start" /\ Crit(g) = {}
  <2>1. "user" \in Kind /\ "user" # "call" /\ Owes(<< >>, {}) /\ << >> \in Seq(Uses("user"))
    BY Zenon, KernelPrograms DEF Kind
  <2> QED
    BY ZenonT(30), <1>1, <2>1, NewCode
<1> HIDE DEF g
<1>5. FlagsOK(g, low, H(c), 1, ncli[c], intena[c])
  BY <1>3, <1>4 DEF FlagsOK, Extra
<1>6. 1 \in 0 .. 1
  OBVIOUS
<1> QED
  BY <1>1, <1>3, <1>4, <1>5, <1>6, FlagStep, ZenonT(30)

\* The loop of scheduler().
LEMMA LoopIInv ==
  ASSUME Types, Sound, NEW c \in CPU, scheduler_loop(c), machine' = machine
  PROVE  Types' /\ panic' = "none" /\ Sound'
<1> DEFINE f == Top(c)
           low == Below(stack[on[c]])
           g == Frame("scheduler", SchedulerCode)
<1>1. /\ panic = "none" /\ f.code = << >> /\ f.kind = "scheduler"
      /\ IF_' = IF_ /\ SetTop(c, g)
      /\ locked' = locked /\ lcpu' = lcpu /\ ncli' = ncli /\ intena' = intena
      /\ on' = on /\ saved' = saved /\ panic' = panic
  BY Zenon DEF scheduler_loop
<1>2. f.kind # "irq" /\ IF_[c] \in 0 .. 1 /\ IF_' = [IF_ EXCEPT ![c] = IF_[c]]
  BY Zenon, <1>1 DEF Types
<1>3. /\ f.at = "start" /\ Crit(f) = {} /\ H(c) = low /\ low = {} /\ ncli[c] = 0 /\ ncli[c] = Cardinality(H(c))
  BY <1>1, <1>2, CodeDone, Zenon
<1>4. Retopped(c, g) /\ g.kind = "scheduler" /\ g.at = "start" /\ Crit(g) = {}
  <2>1. /\ "scheduler" \in Kind /\ "scheduler" # "call"
        /\ Owes(SchedulerCode, {}) /\ SchedulerCode \in Seq(Uses("scheduler"))
    BY ZenonT(30), KernelPrograms DEF Kind
  <2> QED
    BY ZenonT(30), <1>1, <2>1, NewCode
<1> HIDE DEF g
<1>5. FlagsOK(g, low, H(c), IF_[c], ncli[c], intena[c])
  BY <1>3, <1>4 DEF FlagsOK, Extra
<1> QED
  BY <1>1, <1>2, <1>3, <1>4, <1>5, FlagStep, ZenonT(30)

\* A system call starts without locks and with interrupts on.
LEMMA SyscallIInv ==
  ASSUME Types, Sound, NEW c \in CPU, syscall(c), machine' = machine
  PROVE  Types' /\ panic' = "none" /\ Sound'
<1> DEFINE f == Top(c)
           low == Below(stack[on[c]])
<1>1. PICK call \in machine.calls : SetTop(c, Frame("call", CallCode(call)))
  BY Zenon DEF syscall
<1> DEFINE g == Frame("call", CallCode(call))
<1>2. /\ panic = "none" /\ f.kind = "user" /\ IF_' = IF_
      /\ locked' = locked /\ lcpu' = lcpu /\ ncli' = ncli /\ intena' = intena
      /\ on' = on /\ saved' = saved /\ panic' = panic
  BY Zenon DEF syscall
<1>3. f.code = << >>
  <2>1. FrameOK(f)
    BY OnCPU, Zenon
  <2> QED
    BY ZenonT(30), <1>2, <2>1, WhoRuns
<1>4. f.kind # "irq" /\ IF_[c] \in 0 .. 1 /\ IF_' = [IF_ EXCEPT ![c] = IF_[c]]
  BY Zenon, <1>2 DEF Types
<1>5. /\ f.at = "start" /\ Crit(f) = {} /\ H(c) = low /\ low = {} /\ ncli[c] = 0 /\ ncli[c] = Cardinality(H(c))
      /\ FlagsOK(f, low, H(c), IF_[c], ncli[c], intena[c])
  BY <1>3, <1>4, CodeDone, Zenon
<1>6. IF_[c] = 1
  BY <1>2, <1>5, Zenon DEF FlagsOK
<1>7. call \in Call
  BY MachineAssumption, ZenonT(30) DEF Types
<1>8. Retopped(c, g) /\ g.kind = "call" /\ g.at = "start" /\ Crit(g) = {}
  <2>1. /\ "call" \in Kind /\ Owes(CallCode(call), {}) /\ CallCode(call) \in Seq(Uses("call"))
        /\ call # "filealloc" => CallCode(call) \in Seq(Quiet)
    BY Zenon, <1>7, CallPrograms DEF Kind, Quiet
  <2>2. "filealloc" \notin machine.calls => call # "filealloc"
    BY ZenonT(30)
  <2> QED
    BY ZenonT(30), <1>1, <1>2, <1>3, <2>1, <2>2, NewCode
<1> HIDE DEF g
<1>9. FlagsOK(g, low, H(c), IF_[c], ncli[c], intena[c])
  BY <1>5, <1>6, <1>8 DEF FlagsOK, Extra
<1> QED
  BY <1>2, <1>4, <1>5, <1>8, <1>9, FlagStep, ZenonT(30)

\* An interrupt comes while no lock is held, or in the gap of filealloc().
LEMMA InterruptIInv ==
  ASSUME Types, Sound, NEW c \in CPU, interrupt(c), machine' = machine
  PROVE  Types' /\ panic' = "none" /\ Sound'
<1> DEFINE f == Top(c)
           x == on[c]
           s == stack[x]
<1>1. PICK code \in {TimerCode(c), IdeCode} : stack' = [stack EXCEPT ![x] = Append(@, Frame("irq", code))]
  BY Zenon DEF interrupt
<1> DEFINE g == Frame("irq", code)
           t == Append(s, g)
<1>2. /\ panic = "none" /\ IF_[c] = 1 /\ IF_' = [IF_ EXCEPT ![c] = 0]
      /\ locked' = locked /\ lcpu' = lcpu /\ ncli' = ncli /\ intena' = intena
      /\ on' = on /\ saved' = saved /\ panic' = panic
  BY Zenon DEF interrupt
<1>3. /\ x \in Ctx /\ StackOK(x, s) /\ Inner(s) = f /\ (x \in Thread \/ x = c)
      /\ FrameOK(f) /\ H(c) = Below(s) \cup Crit(f) /\ H(c) \subseteq Lock
  BY OnCPU, Zenon
<1>4. FlagsOK(f, Below(s), H(c), IF_[c], ncli[c], intena[c])
  BY Zenon DEF Sound, Flags
<1>5. f.kind # "irq" /\ f.at \in {"start", "cli"} /\ (H(c) # {} => f.code # << >> /\ Head(f.code).op = "cli")
  BY <1>2, <1>4 DEF FlagsOK
<1>6. Len(s) = 1 /\ Below(s) = {} /\ s[1] = f
  BY <1>3, <1>5, BelowIs, ZenonT(30)
<1>7. H(c) = Crit(f)
  BY Zenon, <1>3, <1>6
<1>8. FrameOK(g) /\ Crit(g) = {} /\ g.kind = "irq" /\ g.at = "start" /\ (x \in CPU => g.code \in Seq(Handler))
  <2>1. /\ Owes(code, {}) /\ code \in Seq(Uses("irq")) /\ "irq" \in Kind
        /\ x \notin Thread => code \in Seq(Handler)
    BY Zenon, IrqPrograms DEF Kind
  <2>2. FrameOK(g) /\ Crit(g) = {} /\ g.kind = "irq" /\ g.at = "start" /\ g.code = code
    BY <2>1, NewFrame
  <2>3. x \in CPU => x \notin Thread
    BY Zenon, CPUAssumption
  <2> QED
    BY ZenonT(30), <2>1, <2>2, <2>3
<1>9. stack' = [stack EXCEPT ![x] = t]
  BY ZenonT(30), <1>1, <1>3 DEF Types
<1> HIDE DEF g
<1>10. t \in Seq(FrameType) /\ Len(t) = 2 /\ t[1] = f /\ t[2] = g
  <2>1. s \in Seq(FrameType) /\ g \in FrameType
    BY <1>3, <1>8, ZenonT(30) DEF StackOK, FrameOK
  <2> QED
    BY <1>6, <2>1
<1> HIDE DEF t
<1>11. Inner(t) = g /\ Below(t) = H(c)
  BY <1>7, <1>10 DEF Inner, Below
<1>12. HeldIn(t) = H(c)
  BY ZenonT(30), <1>8, <1>11 DEF HeldIn
<1>13. StackOK(x, t)
  <2>1. Proper(x, 1, f)
    BY <1>3, <1>6, ZenonT(30) DEF StackOK
  <2>2. Proper(x, 2, g)
    BY <1>8 DEF Proper
  <2>3. Interruptible(f)
    BY <1>5, <1>7, Zenon DEF Interruptible
  <2>4. Len(t) \in 1 .. 2
    BY <1>10
  <2> QED
    BY <1>10, <2>1, <2>2, <2>3, <2>4, ZenonT(30) DEF StackOK
<1>14. "filealloc" \notin machine.calls => Shut(t)
  <2>1. SUFFICES ASSUME "filealloc" \notin machine.calls PROVE Shut(t)
    BY Zenon
  <2>2. f.kind = "call" => f.code \in Seq(Quiet)
    BY <1>3, <1>6, <2>1, ZenonT(30) DEF Sound, Stacks, Shut, Quiet
  <2>3. H(c) = {}
    <3>1. SUFFICES ASSUME H(c) # {} PROVE FALSE
      BY Zenon
    <3>2. f.code # << >> /\ Head(f.code).op = "cli" /\ f.kind = "call"
      BY <1>3, <1>5, <3>1, WhoRuns, ZenonT(30)
    <3>3. Head(f.code) \in Quiet
      <4> DEFINE u == f.code
      <4>1. u \in Seq(Quiet) /\ u # << >>
        BY <2>2, <3>2, ZenonT(30)
      <4> HIDE DEF u
      <4>2. Head(u) \in Quiet
        BY <4>1
      <4> QED
        BY <4>2, Zenon DEF u
    <3> QED
      BY <3>2, <3>3 DEF Quiet, LockOps, Ins
  <2> QED
    BY <1>10, <1>11, <2>2, <2>3, ZenonT(30) DEF Shut, Quiet
<1>15. Restacked(c, t)
  BY <1>2, <1>9, <1>13, <1>14, Restack, ZenonT(30)
<1>16. /\ Top(c)' = g /\ H(c)' = H(c) /\ Below(stack[on[c]])' = H(c) /\ Others(c) /\ Stacks' /\ Switching'
  BY <1>11, <1>12, <1>15, ZenonT(30) DEF Restacked, Others
<1>17. Pending(f) = {} /\ Pending(g) = {}
  BY Zenon, <1>5, <1>8 DEF Pending
<1>18. Locks'
  BY <1>2, <1>16, <1>17, KeepLocks, ZenonT(30)
<1>19. FlagsOK(g, H(c), H(c), 0, ncli[c], intena[c])
  <2>1. Extra(f) = 0 /\ Extra(g) = 0
    BY Zenon, <1>5, <1>8 DEF Extra
  <2>2. /\ ncli[c] = Cardinality(H(c)) + Extra(g) /\ (Cardinality(H(c)) = 0 <=> H(c) = {})
        /\ Cardinality(H(c)) \in Nat
    BY <1>3, <1>4, <2>1, Sizes, ZenonT(30) DEF FlagsOK
  <2>3. H(c) # {} => intena[c] = 1
    <3>1. H(c) # {} => f.kind = "call"
      BY <1>3, <1>5, WhoRuns, ZenonT(30)
    <3>2. H(c) # {} => ncli[c] > 0
      BY <2>1, <2>2
    <3> QED
      BY <1>4, <3>1, <3>2, ZenonT(30) DEF FlagsOK
  <2>4. H(c) = {} => ncli[c] = 0
    BY <2>1, <2>2
  <2> QED
    BY SMTT(30), <1>8, <2>2, <2>3, <2>4 DEF FlagsOK
<1>20. IF_ \in [CPU -> 0 .. 1]
  BY Zenon DEF Types
<1>21. IF_'[c] = 0 /\ IF_' \in [CPU -> 0 .. 1] /\ Registers(c)
  BY <1>2, <1>20 DEF Registers
<1>22. Flags(c)'
  BY <1>2, <1>16, <1>19, <1>21, ZenonT(30) DEF Flags
<1>23. Sound'
  BY <1>16, <1>18, <1>21, <1>22, Finish, ZenonT(30)
<1>24. Types'
  BY <1>2, <1>15, <1>21, ZenonT(30) DEF Types, Restacked
<1> QED
  BY ZenonT(30), <1>2, <1>23, <1>24

\* The handler returns to what it interrupted, with the locks that were held.
LEMMA IretIInv ==
  ASSUME Types, Sound, NEW c \in CPU, irq_iret(c), machine' = machine
  PROVE  Types' /\ panic' = "none" /\ Sound'
<1> DEFINE f == Top(c)
           x == on[c]
           s == stack[x]
           t == SubSeq(s, 1, Len(s) - 1)
           g == s[1]
<1>1. /\ panic = "none" /\ f.kind = "irq" /\ f.code = << >> /\ IF_' = [IF_ EXCEPT ![c] = 1]
      /\ stack' = [stack EXCEPT ![x] = SubSeq(@, 1, Len(@) - 1)]
      /\ locked' = locked /\ lcpu' = lcpu /\ ncli' = ncli /\ intena' = intena
      /\ on' = on /\ saved' = saved /\ panic' = panic
  BY Zenon DEF irq_iret
<1>2. /\ x \in Ctx /\ StackOK(x, s) /\ Inner(s) = f /\ f.at = "start" /\ Crit(f) = {} /\ H(c) = Below(s)
      /\ FlagsOK(f, Below(s), H(c), IF_[c], ncli[c], intena[c])
      /\ ncli[c] = Cardinality(H(c)) /\ H(c) \subseteq Lock
  BY <1>1, CodeDone, Zenon
<1>3. Len(s) = 2 /\ (Below(s) # {} => g.code # << >> /\ Head(g.code).op = "cli")
  <2>1. /\ Inner(s).kind = "irq" => Len(s) = 2
        /\ Below(s) # {} => s[1].code # << >> /\ Head(s[1].code).op = "cli"
    BY <1>2, BelowIs, ZenonT(30)
  <2> QED
    BY <1>1, <1>2, <2>1, ZenonT(30)
<1>4. stack' = [stack EXCEPT ![x] = t]
  BY Zenon, <1>1, <1>2 DEF Types
<1>5. t \in Seq(FrameType) /\ Len(t) = 1 /\ t[1] = g
  <2>1. s \in Seq(FrameType)
    BY <1>2, ZenonT(30) DEF StackOK
  <2> QED
    BY <1>3, <2>1
<1> HIDE DEF t
<1>6. /\ Proper(x, 1, g) /\ Interruptible(g) /\ Crit(g) = H(c)
  BY <1>2, <1>3 DEF StackOK, Below
<1>7. g.kind # "irq" /\ g.at \in {"start", "cli"}
  BY Zenon, <1>6 DEF Proper, Interruptible
<1> HIDE DEF g
<1>8. Inner(t) = g /\ Below(t) = {} /\ HeldIn(t) = H(c)
  BY ZenonT(30), <1>5, <1>6 DEF Inner, Below, HeldIn
<1>9. StackOK(x, t)
  <2>1. Len(t) \in 1 .. 2 /\ Len(t) # 2
    BY <1>5
  <2> QED
    BY <1>5, <1>6, <2>1, ZenonT(30) DEF StackOK
<1>10. "filealloc" \notin machine.calls => Shut(t)
  BY <1>2, <1>5, <1>8, ZenonT(30) DEF Sound, Stacks, Shut, g
<1>11. Restacked(c, t)
  BY <1>1, <1>4, <1>9, <1>10, Restack, ZenonT(30)
<1>12. /\ Top(c)' = g /\ H(c)' = H(c) /\ Below(stack[on[c]])' = {} /\ Others(c) /\ Stacks' /\ Switching'
  BY <1>8, <1>11, ZenonT(30) DEF Restacked, Others
<1>13. Pending(f) = {} /\ Pending(g) = {}
  BY ZenonT(30), <1>2, <1>7 DEF Pending
<1>14. Locks'
  BY <1>1, <1>12, <1>13, KeepLocks, ZenonT(30)
<1>15. FlagsOK(g, {}, H(c), 1, ncli[c], intena[c])
  <2>1. Extra(g) = 0 /\ Cardinality(H(c)) \in Nat /\ (Cardinality(H(c)) = 0 <=> H(c) = {})
    BY ZenonT(30), <1>2, <1>7, Sizes DEF Extra
  <2>2. ncli[c] > 0 => intena[c] = 1
    BY <1>2, <2>1 DEF FlagsOK
  <2> QED
    BY SMTT(30), <1>2, <1>3, <1>7, <2>1, <2>2 DEF FlagsOK
<1>16. IF_ \in [CPU -> 0 .. 1]
  BY Zenon DEF Types
<1>17. IF_'[c] = 1 /\ IF_' \in [CPU -> 0 .. 1] /\ Registers(c)
  BY <1>1, <1>16 DEF Registers
<1>18. Flags(c)'
  BY <1>1, <1>12, <1>15, <1>17, ZenonT(30) DEF Flags
<1>19. Sound'
  BY <1>12, <1>14, <1>17, <1>18, Finish, ZenonT(30)
<1>20. Types'
  BY <1>1, <1>11, <1>17, ZenonT(30) DEF Types, Restacked
<1> QED
  BY ZenonT(30), <1>1, <1>19, <1>20

\* sched() finds ptable.lock held and interrupts off, and panics only over a
\* lock below the handler it runs in, which takes filealloc(); otherwise the
\* lock passes to the scheduler of the CPU.
LEMMA SchedIInv ==
  ASSUME Types, Sound, NEW c \in CPU, sched(c), machine' = machine
  PROVE  /\ Types' /\ ("filealloc" \notin machine.calls => panic' = "none")
         /\ panic' = "none" => Sound'
<1> DEFINE f == Top(c)
           x == on[c]
           s == stack[x]
           g == [f EXCEPT !.at = "switched"]
           t == [s EXCEPT ![Len(s)] = g]
           z == stack[c][1]
<1>1. /\ panic = "none" /\ f.code # << >> /\ Head(f.code).op = "sched" /\ f.at = "start"
      /\ panic' = SchedPanic(c) /\ saved' = [saved EXCEPT ![x] = intena[c]] /\ Goto(c, "switched")
      /\ on' = [on EXCEPT ![c] = c]
      /\ locked' = locked /\ lcpu' = lcpu /\ IF_' = IF_ /\ ncli' = ncli /\ intena' = intena
  BY Zenon DEF sched, Doing
<1>2. /\ x \in Ctx /\ StackOK(x, s) /\ Inner(s) = f /\ (x \in Thread \/ x = c)
      /\ FrameOK(f) /\ H(c) = Below(s) \cup Crit(f) /\ H(c) \subseteq Lock
      /\ \A d \in CPU \ {c} : on[d] # x /\ x # d
  BY OnCPU, Zenon
<1>3. /\ FlagsOK(f, Below(s), H(c), IF_[c], ncli[c], intena[c])
      /\ IF_[c] \in 0 .. 1 /\ ncli[c] \in Nat /\ intena[c] \in 0 .. 1
  BY ZenonT(30) DEF Sound, Flags, Types
<1>4. Crit(f) = {"ptable"} /\ f.kind \in {"call", "irq"}
  BY ZenonT(30), <1>1, <1>2, CritOther, WhoRuns
<1>5. x \in Thread /\ c # x /\ c \in Ctx
  <2>1. SUFFICES ASSUME x \in CPU PROVE FALSE
    BY ZenonT(30), <1>2, CPUAssumption DEF Ctx
  <2>2. f.kind = "irq" /\ f.code \in Seq(Handler)
    <3>1. (Len(s) = 1 => s[1] = f) /\ (Len(s) = 2 => s[2] = f) /\ Len(s) \in 1 .. 2
      BY Zenon, <1>2 DEF Inner, StackOK
    <3>2. Len(s) = 1 => Proper(x, 1, f)
      BY <1>2, <3>1, Zenon DEF StackOK
    <3>3. Len(s) = 2 => Proper(x, 2, f)
      BY <1>2, <3>1, Zenon DEF StackOK
    <3> QED
      BY SMTT(30), <1>4, <2>1, <3>1, <3>2, <3>3 DEF Proper
  <2>3. Head(f.code) \in Handler
    <3> DEFINE u == f.code
    <3>1. u \in Seq(Handler) /\ u # << >>
      BY <1>1, <2>2, Zenon
    <3> HIDE DEF u
    <3>2. Head(u) \in Handler
      BY <3>1
    <3> QED
      BY <3>2, Zenon DEF u
  <2> QED
    BY Zenon, <1>1, <2>3 DEF Handler, LockOps
<1>6. FrameOK(g) /\ g.kind = f.kind /\ g.code = f.code /\ g.at = "switched"
  <2>1. "switched" \in Doings(Head(f.code).op) /\ "switched" # "cli"
    BY Zenon, <1>1 DEF Doings
  <2> QED
    BY <1>1, <1>2, <2>1, GotoIs, ZenonT(30)
<1>7. stack' = [stack EXCEPT ![x] = t]
  BY ZenonT(30), <1>1 DEF Goto, SetTop
<1> HIDE DEF g
<1>8. Crit(g) = {"ptable"}
  BY ZenonT(30), <1>1, <1>6, CritOther
<1>9. /\ StackOK(x, t) /\ Inner(t) = g /\ Below(t) = Below(s) /\ HeldIn(t) = Below(s) \cup Crit(g)
      /\ Shut(s) => Shut(t)
  <2>1. Inner(s).code # << >> /\ g.kind = Inner(s).kind /\ g.code \in {Inner(s).code, Tail(Inner(s).code)}
    BY <1>1, <1>2, <1>6, ZenonT(30)
  <2>2. Proper(x, Len(s), g) /\ (Shut(s) => (Len(s) = 1 /\ g.kind = "call" => g.code \in Seq(Quiet)))
    BY <1>2, <1>6, <2>1, NextProper, ZenonT(30)
  <2>3. /\ StackOK(x, t) /\ Inner(t) = g /\ Below(t) = Below(s) /\ HeldIn(t) = Below(s) \cup Crit(g)
        /\ Shut(s) /\ (Len(s) = 1 /\ g.kind = "call" => g.code \in Seq(Quiet)) => Shut(t)
    BY <1>2, <2>2, Replace
  <2> QED
    BY <2>2, <2>3, Zenon
<1> HIDE DEF t
<1>10. /\ stack' \in [Ctx -> Seq(FrameType)] /\ \A y \in Ctx : Len(stack'[y]) \in 1 .. 2
       /\ Stacks' /\ stack'[x] = t /\ \A y \in Ctx \ {x} : stack'[y] = stack[y]
  BY <1>2, <1>7, <1>9, PutStack, ZenonT(30) DEF Sound, Stacks
<1>11. holding(c, "ptable") /\ IF_[c] = 0
  <2>1. "ptable" \in H(c) /\ "ptable" \in Lock /\ Pending(f) = {}
    BY ZenonT(30), <1>1, <1>2, <1>4 DEF Lock, Pending
  <2>2. locked["ptable"] = 1 /\ lcpu["ptable"] = c
    BY <2>1, LockWords, ZenonT(30)
  <2>3. IF_[c] = 0
    BY SMTT(30), <1>1, <1>3, <2>1 DEF FlagsOK
  <2> QED
    BY <2>2, <2>3, ZenonT(30) DEF holding
<1>12. panic' = IF ncli[c] # 1 THEN "sched_locks" ELSE "none"
  BY <1>1, <1>11 DEF SchedPanic
<1>13. Below(s) = {} => ncli[c] = 1 /\ H(c) = {"ptable"}
  <2>1. Extra(f) = 0
    BY Zenon, <1>1 DEF Extra
  <2>2. ncli[c] = Cardinality(H(c)) + 0
    BY <1>3, <2>1, Zenon DEF FlagsOK
  <2>3. Below(s) = {} => H(c) = {"ptable"}
    BY ZenonT(30), <1>2, <1>4
  <2>4. Cardinality({"ptable"}) = 1
    BY FS_Singleton, Zenon
  <2> QED
    BY <2>2, <2>3, <2>4
<1>14. "filealloc" \notin machine.calls => panic' = "none"
  <2>1. "filealloc" \notin machine.calls => Below(s) = {}
    BY <1>2, ZenonT(30) DEF Sound, Stacks, Shut
  <2> QED
    BY <1>12, <1>13, <2>1, ZenonT(30)
<1>15. saved' \in [Thread -> 0 .. 1] /\ saved'[x] = intena[c] /\ \A u \in Thread \ {x} : saved'[u] = saved[u]
  BY ZenonT(30), <1>1, <1>3, <1>5 DEF Types
<1>16. /\ on' \in [CPU -> Ctx] /\ on'[c] = c /\ \A d \in CPU \ {c} : on'[d] = on[d]
       /\ \A d \in CPU : on'[d] \in Thread \cup {d}
  BY ZenonT(30), <1>1, <1>5 DEF Types
<1>17. Types'
  BY ZenonT(30), <1>1, <1>10, <1>12, <1>15, <1>16 DEF Types
<1>18. ASSUME panic' = "none" PROVE Sound'
  <2>1. Below(s) = {} /\ ncli[c] = 1 /\ H(c) = {"ptable"}
    <3>1. ncli[c] = 1
      BY ZenonT(30), <1>12, <1>18
    <3>2. SUFFICES ASSUME Below(s) # {} PROVE FALSE
      BY <1>13, <3>1, ZenonT(30)
    <3>3. Below(s) = {"ftable"}
      BY SMTT(30), <1>2, <3>2, BelowIs
    <3>4. H(c) = {"ftable"} \cup {"ptable"} /\ "ptable" \notin {"ftable"} /\ {"ftable"} \subseteq Lock
      BY ZenonT(30), <1>2, <1>4, <3>3 DEF Lock
    <3>5. Cardinality(H(c)) = 1 + 1
      <4>1. /\ \A l : l \notin {"ftable"} => Cardinality({"ftable"} \cup {l}) = Cardinality({"ftable"}) + 1
            /\ Cardinality({"ftable"}) = 1
        BY <3>4, Sizes, ZenonT(30)
      <4> QED
        BY ZenonT(30), <3>4, <4>1
    <3>6. ncli[c] = Cardinality(H(c)) + Extra(f) /\ Extra(f) = 0
      BY ZenonT(30), <1>1, <1>3 DEF FlagsOK, Extra
    <3> QED
      BY SMTT(30), <3>1, <3>5, <3>6
  <2>2. /\ Parked(stack[c]) /\ StackOK(c, stack[c])
    BY <1>5, Zenon DEF Sound, Switching, Stacks
  <2>3. /\ Inner(stack[c]) = z /\ Below(stack[c]) = {} /\ FrameOK(z) /\ z.kind = "scheduler"
        /\ z.code # << >> /\ Head(z.code).op = "pick"
    BY ZenonT(30), <2>2 DEF Parked, StackOK, Proper, Inner, Below
  <2>4. Crit(z) = {"ptable"} /\ z.at = "start"
    <3>1. z.at \in Doings("pick")
      BY ZenonT(30), <2>3, HeadIs
    <3> QED
      BY ZenonT(30), <2>3, <3>1, CritOther DEF Doings
  <2> HIDE DEF z
  <2>5. stack'[on'[c]] = stack[c]
    BY ZenonT(30), <1>5, <1>10, <1>16
  <2>6. Top(c)' = z /\ Below(stack[on[c]])' = {} /\ H(c)' = H(c)
    <3>1. HeldIn(stack[c]) = {"ptable"}
      BY ZenonT(30), <2>3, <2>4 DEF HeldIn
    <3>2. H(c)' = {"ptable"}
      BY <2>5, <3>1, ZenonT(30) DEF H
    <3> QED
      BY <2>1, <2>3, <2>5, <3>2, ZenonT(30) DEF Top, Inner
  <2>7. Others(c)
    <3>1. ASSUME NEW d \in CPU \ {c}
          PROVE  Top(d)' = Top(d) /\ H(d)' = H(d) /\ Below(stack[on[d]])' = Below(stack[on[d]])
      <4>1. on[d] \in Ctx \ {x}
        BY <1>2, Zenon DEF Types
      <4>2. stack'[on'[d]] = stack[on[d]]
        BY <1>10, <1>16, <4>1, ZenonT(30)
      <4> QED
        BY <4>2, ZenonT(30) DEF Top, H
    <3> QED
      BY <3>1, Zenon DEF Others
  <2>8. Switching'
    <3>1. \A d, e \in CPU : on'[d] = on'[e] => d = e
      <4>1. \A d \in CPU \ {c} : on'[d] # c
        BY <1>16, CPUAssumption DEF Types
      <4>2. \A d, e \in CPU \ {c} : on'[d] = on'[e] => d = e
        BY <1>16, Zenon DEF Sound, Switching
      <4> QED
        BY <1>16, <4>1, <4>2, ZenonT(30)
    <3>2. ASSUME NEW d \in CPU, on'[d] # d PROVE Parked(stack'[d])
      <4>1. d # c /\ on[d] # d /\ d \in Ctx \ {x}
        BY ZenonT(30), <1>2, <1>16, <3>2 DEF Ctx
      <4> QED
        BY <1>10, <4>1, ZenonT(30) DEF Sound, Switching
    <3>3. ASSUME NEW u \in Thread, \A d \in CPU : on'[d] # u PROVE Suspended(stack'[u], saved'[u])
      <4>1. CASE u = x
        <5>1. f.kind = "call" => intena[c] = 1
          BY SMTT(30), <1>3, <2>1 DEF FlagsOK
        <5>2. f.kind = "irq" => intena[c] = 0
          BY <1>3, <2>1 DEF FlagsOK
        <5>3. Suspended(t, intena[c])
          BY <1>1, <1>6, <1>8, <1>9, <2>1, <5>1, <5>2, ZenonT(30) DEF Suspended
        <5> QED
          BY <1>10, <1>15, <4>1, <5>3, ZenonT(30)
      <4>2. CASE u # x
        <5>1. u \in Ctx \ {x} /\ \A d \in CPU : on[d] # u
          BY <1>16, <3>3, <4>2, ZenonT(30) DEF Ctx
        <5> QED
          BY <1>10, <1>15, <4>2, <5>1, ZenonT(30) DEF Sound, Switching
      <4> QED
        BY ZenonT(30), <4>1, <4>2
    <3> QED
      BY <3>1, <3>2, <3>3, ZenonT(30) DEF Switching
  <2>9. Pending(f) = {} /\ Pending(z) = {}
    BY ZenonT(30), <1>1, <2>4 DEF Pending
  <2>10. Locks'
    BY <1>1, <2>6, <2>7, <2>9, KeepLocks, ZenonT(30)
  <2>11. FlagsOK(z, {}, H(c), IF_[c], ncli[c], intena[c])
    <3>1. Cardinality(H(c)) = 1 /\ Extra(z) = 0
      BY ZenonT(30), <2>1, <2>4, FS_Singleton DEF Extra
    <3> QED
      BY SMTT(30), <1>11, <2>1, <2>3, <2>4, <3>1 DEF FlagsOK
  <2>12. Flags(c)'
    BY <1>1, <2>6, <2>11, ZenonT(30) DEF Flags
  <2> QED
    BY <1>1, <1>10, <2>7, <2>8, <2>10, <2>12, Finish, ZenonT(30) DEF Registers
<1> QED
  BY <1>14, <1>17, <1>18, ZenonT(30)

\* scheduler() switches to a thread that is in sched() or new: ptable.lock passes
\* to it, with the intena it had.
LEMMA SwtchIInv ==
  ASSUME Types, Sound, NEW c \in CPU, swtch(c), machine' = machine
  PROVE  Types' /\ panic' = "none" /\ Sound'
<1> DEFINE f == Top(c)
<1>1. PICK x \in machine.thread :
        /\ \A d \in CPU : on[d] # x
        /\ on' = [on EXCEPT ![c] = x]
        /\ IF stack[x][Len(stack[x])].at = "switched"
           THEN /\ stack' = [stack EXCEPT ![x][Len(stack[x])] = After(stack[x][Len(stack[x])])]
                /\ intena' = [intena EXCEPT ![c] = saved[x]]
                /\ saved' = [saved EXCEPT ![x] = 0]
           ELSE UNCHANGED <<stack, intena, saved>>
  BY Zenon DEF swtch
<1> DEFINE s == stack[x]
           a == Inner(s)
           g == IF a.at = "switched" THEN After(a) ELSE a
           e2 == IF a.at = "switched" THEN saved[x] ELSE intena[c]
<1>2. /\ panic = "none" /\ f.code # << >> /\ Head(f.code).op = "pick" /\ f.at = "start"
      /\ locked' = locked /\ lcpu' = lcpu /\ IF_' = IF_ /\ ncli' = ncli /\ panic' = panic
  BY ZenonT(30) DEF swtch, Doing
<1>3. x \in Thread /\ x \in Ctx /\ x \notin CPU /\ saved[x] \in 0 .. 1
  BY ZenonT(30), MachineAssumption, CPUAssumption DEF Types, Ctx
<1>4. /\ on[c] \in Ctx /\ StackOK(on[c], stack[on[c]]) /\ Inner(stack[on[c]]) = f
      /\ (on[c] \in Thread \/ on[c] = c)
      /\ FrameOK(f) /\ H(c) = Below(stack[on[c]]) \cup Crit(f) /\ H(c) \subseteq Lock
  BY OnCPU, Zenon
<1>5. /\ FlagsOK(f, Below(stack[on[c]]), H(c), IF_[c], ncli[c], intena[c])
      /\ IF_[c] \in 0 .. 1 /\ ncli[c] \in Nat /\ intena[c] \in 0 .. 1
  BY Zenon DEF Sound, Flags, Types
<1>6. Crit(f) = {"ptable"} /\ f.kind = "scheduler"
  BY ZenonT(30), <1>2, <1>4, CritOther, WhoRuns
<1>7. on[c] = c /\ Len(stack[c]) = 1 /\ stack[c][1] = f /\ Below(stack[on[c]]) = {}
  <2>1. f.kind # "irq"
    BY Zenon, <1>6
  <2>2. Len(stack[on[c]]) = 1 /\ stack[on[c]][1] = f /\ Below(stack[on[c]]) = {}
    BY <1>4, <2>1, BelowIs, ZenonT(30)
  <2>3. Proper(on[c], 1, f)
    BY <1>4, <2>2, Zenon DEF StackOK
  <2>4. on[c] \in CPU
    BY ZenonT(30), <1>6, <2>3 DEF Proper
  <2>5. on[c] = c
    BY ZenonT(30), <1>4, <2>4, CPUAssumption
  <2> QED
    BY <2>2, <2>5, ZenonT(30)
<1>8. Parked(stack[c])
  BY <1>2, <1>7, ZenonT(30) DEF Parked
<1>9. H(c) = {"ptable"} /\ IF_[c] = 0 /\ ncli[c] = 1
  <2>1. H(c) = {"ptable"}
    BY ZenonT(30), <1>4, <1>6, <1>7
  <2>2. IF_[c] = 0
    BY SMTT(30), <1>2, <1>5, <2>1 DEF FlagsOK
  <2>3. Extra(f) = 0 /\ Cardinality({"ptable"}) = 1
    BY ZenonT(30), <1>2, FS_Singleton DEF Extra
  <2>4. ncli[c] = Cardinality(H(c)) + Extra(f)
    BY <1>5, Zenon DEF FlagsOK
  <2> QED
    BY SMTT(30), <2>1, <2>2, <2>3, <2>4
<1>10. Suspended(s, saved[x]) /\ StackOK(x, s)
  BY <1>1, <1>3, ZenonT(30) DEF Sound, Switching, Stacks
<1>11. FrameOK(a) /\ a.code # << >> /\ Crit(a) = {"ptable"} /\ Below(s) = {}
  BY <1>10, BelowIs, ZenonT(30) DEF Suspended
<1>12. /\ FrameOK(g) /\ g.kind = a.kind /\ g.at = "start" /\ Crit(g) = {"ptable"}
       /\ g.code \in {a.code, Tail(a.code)}
       /\ g.kind = "call" => e2 = 1
       /\ g.kind = "irq" => e2 = 0
       /\ g.kind \in {"call", "irq", "forkret"}
  <2>1. CASE a.at = "switched"
    <3>1. Head(a.code).op = "sched"
      <4>1. a.at \in Doings(Head(a.code).op)
        BY <1>11, HeadIs, ZenonT(30)
      <4> QED
        BY ZenonT(30), <2>1, <4>1 DEF Doings
    <3>2. a.kind \in {"call", "irq"} /\ Crit(a) = HoldAfter(a.code, 1)
      BY ZenonT(30), <1>11, <3>1, CritOther, WhoRuns
    <3>3. /\ FrameOK(After(a)) /\ After(a).kind = a.kind /\ After(a).code = Tail(a.code)
          /\ After(a).at = "start" /\ Crit(After(a)) = HoldAfter(a.code, 1)
      BY <1>11, NextFrame, ZenonT(30)
    <3>4. (a.kind = "call" => saved[x] = 1) /\ (a.kind = "irq" => saved[x] = 0)
      BY ZenonT(30), <1>10, <2>1 DEF Suspended
    <3>5. g = After(a) /\ e2 = saved[x]
      BY <2>1, Zenon
    <3> HIDE DEF g, e2
    <3> QED
      BY ZenonT(30), <1>11, <3>2, <3>3, <3>4, <3>5
  <2>2. CASE a.at # "switched"
    <3>1. g = a /\ a.at = "start" /\ a.kind = "forkret"
      BY <1>10, <2>2, ZenonT(30) DEF Suspended
    <3> HIDE DEF g, e2
    <3> QED
      BY ZenonT(30), <1>11, <3>1
  <2> QED
    BY ZenonT(30), <2>1, <2>2
<1>13. e2 \in 0 .. 1
  BY ZenonT(30), <1>3, <1>5
<1> DEFINE t == [s EXCEPT ![Len(s)] = g]
<1>14. stack' = [stack EXCEPT ![x] = t]
  <2>1. stack \in [Ctx -> Seq(FrameType)] /\ s \in Seq(FrameType) /\ Len(s) \in 1 .. 2
    BY ZenonT(30), <1>10 DEF Types, StackOK
  <2>2. CASE a.at = "switched"
    BY ZenonT(30), <1>1, <2>1, <2>2 DEF Inner
  <2>3. CASE a.at # "switched"
    <3>1. stack' = stack /\ g = s[Len(s)]
      BY <1>1, <2>3, ZenonT(30) DEF Inner
    <3>2. t = s
      BY SMTT(30), <2>1, <3>1
    <3> QED
      BY ZenonT(30), <2>1, <3>1, <3>2
  <2> QED
    BY ZenonT(30), <2>2, <2>3
<1>15. intena' = [intena EXCEPT ![c] = e2] /\ saved' \in [Thread -> 0 .. 1] /\ \A u \in Thread \ {x} : saved'[u] = saved[u]
  <2>1. CASE a.at = "switched"
    <3>1. saved' = [saved EXCEPT ![x] = 0] /\ intena' = [intena EXCEPT ![c] = e2]
      BY <1>1, <2>1, ZenonT(30) DEF Inner
    <3>2. saved \in [Thread -> 0 .. 1]
      BY Zenon DEF Types
    <3> QED
      BY SMTT(30), <1>3, <3>1, <3>2
  <2>2. CASE a.at # "switched"
    BY ZenonT(30), <1>1, <2>2 DEF Inner, Types
  <2> QED
    BY ZenonT(30), <2>1, <2>2
<1> HIDE DEF g, e2
<1>16. /\ StackOK(x, t) /\ Inner(t) = g /\ Below(t) = {} /\ HeldIn(t) = {"ptable"}
       /\ Shut(s) => Shut(t)
  <2>2. Proper(x, Len(s), g) /\ (Shut(s) => (Len(s) = 1 /\ g.kind = "call" => g.code \in Seq(Quiet)))
    BY <1>10, <1>11, <1>12, NextProper, ZenonT(30)
  <2>3. /\ StackOK(x, t) /\ Inner(t) = g /\ Below(t) = Below(s) /\ HeldIn(t) = Below(s) \cup Crit(g)
        /\ Shut(s) /\ (Len(s) = 1 /\ g.kind = "call" => g.code \in Seq(Quiet)) => Shut(t)
    BY SMTT(30), <1>10, <2>2, Replace
  <2> HIDE DEF t
  <2> QED
    BY ZenonT(30), <1>11, <1>12, <2>2, <2>3
<1> HIDE DEF t
<1>17. /\ stack' \in [Ctx -> Seq(FrameType)] /\ \A y \in Ctx : Len(stack'[y]) \in 1 .. 2
       /\ Stacks' /\ stack'[x] = t /\ \A y \in Ctx \ {x} : stack'[y] = stack[y]
  BY <1>3, <1>14, <1>16, PutStack, ZenonT(30) DEF Sound, Stacks
<1>18. /\ on' \in [CPU -> Ctx] /\ on'[c] = x /\ \A d \in CPU \ {c} : on'[d] = on[d]
       /\ \A d \in CPU : on'[d] \in Thread \cup {d}
  BY ZenonT(30), <1>1, <1>3 DEF Types
<1>19. intena' \in [CPU -> 0 .. 1] /\ intena'[c] = e2 /\ Registers(c)
  BY ZenonT(30), <1>2, <1>13, <1>15 DEF Types, Registers
<1>20. Top(c)' = g /\ Below(stack[on[c]])' = {} /\ H(c)' = H(c)
  <2>1. stack'[on'[c]] = t
    BY <1>17, <1>18, ZenonT(30)
  <2> QED
    BY <1>9, <1>16, <2>1, ZenonT(30) DEF Top, H, Inner
<1>21. Others(c)
  <2>1. ASSUME NEW d \in CPU \ {c}
        PROVE  Top(d)' = Top(d) /\ H(d)' = H(d) /\ Below(stack[on[d]])' = Below(stack[on[d]])
    <3>1. on[d] \in Ctx \ {x}
      BY <1>1, ZenonT(30) DEF Types
    <3>2. stack'[on'[d]] = stack[on[d]]
      BY <1>17, <1>18, <3>1, ZenonT(30)
    <3> QED
      BY <3>2, ZenonT(30) DEF Top, H
  <2> QED
    BY <2>1, ZenonT(30) DEF Others
<1>22. Switching'
  <2>1. \A d, e \in CPU : on'[d] = on'[e] => d = e
    <3>1. \A d \in CPU \ {c} : on'[d] # x
      BY <1>1, <1>18, ZenonT(30)
    <3>2. \A d, e \in CPU \ {c} : on'[d] = on'[e] => d = e
      BY <1>18, ZenonT(30) DEF Sound, Switching
    <3> QED
      BY <1>18, <3>1, <3>2, ZenonT(30)
  <2>2. ASSUME NEW d \in CPU, on'[d] # d PROVE Parked(stack'[d])
    <3>1. d \in Ctx \ {x}
      BY <1>3, Zenon DEF Ctx
    <3>2. CASE d = c
      BY <1>8, <1>17, <3>1, <3>2, ZenonT(30)
    <3>3. CASE d # c
      BY <1>17, <1>18, <2>2, <3>1, <3>3, ZenonT(30) DEF Sound, Switching
    <3> QED
      BY ZenonT(30), <3>2, <3>3
  <2>3. ASSUME NEW u \in Thread, \A d \in CPU : on'[d] # u PROVE Suspended(stack'[u], saved'[u])
    <3>1. u # x /\ u \in Ctx \ {x}
      BY <1>18, <2>3, ZenonT(30) DEF Ctx
    <3>2. c # u
      BY Zenon, CPUAssumption
    <3>3. \A d \in CPU : on[d] # u
      BY <1>7, <1>18, <2>3, <3>2, ZenonT(30)
    <3> QED
      BY <1>15, <1>17, <3>1, <3>3, ZenonT(30) DEF Sound, Switching
  <2> QED
    BY <2>1, <2>2, <2>3, ZenonT(30) DEF Switching
<1>23. Pending(f) = {} /\ Pending(g) = {}
  BY ZenonT(30), <1>2, <1>12 DEF Pending
<1>24. Locks'
  BY <1>2, <1>20, <1>21, <1>23, KeepLocks, ZenonT(30)
<1>25. FlagsOK(g, {}, H(c), IF_[c], ncli[c], e2)
  <2>1. Extra(g) = 0 /\ Cardinality(H(c)) = 1
    BY ZenonT(30), <1>9, <1>12, FS_Singleton DEF Extra
  <2> QED
    BY SMTT(30), <1>9, <1>12, <2>1 DEF FlagsOK
<1>26. Flags(c)'
  BY <1>2, <1>19, <1>20, <1>25, ZenonT(30) DEF Flags
<1>27. Sound'
  BY <1>17, <1>19, <1>21, <1>22, <1>24, <1>26, Finish, ZenonT(30)
<1>28. Types'
  BY <1>2, <1>15, <1>17, <1>18, <1>19, ZenonT(30) DEF Types
<1> QED
  BY <1>2, <1>27, <1>28, ZenonT(30)

-----------------------------------------------------------------------------
(* The invariant.                                                          *)

\* At boot every CPU is in scheduler() without locks, and every process waits for
\* its first switch.
LEMMA InitIInv == Init => IInv
<1>1. SUFFICES ASSUME Init PROVE IInv
  BY Zenon
<1> DEFINE a == Frame("scheduler", SchedulerCode)
           b == Frame("forkret", <<Rel("ptable")>>)
<1>2. /\ FrameOK(a) /\ a.kind = "scheduler" /\ a.at = "start" /\ Crit(a) = {} /\ a.code = SchedulerCode
      /\ FrameOK(b) /\ b.kind = "forkret" /\ b.at = "start" /\ Crit(b) = {"ptable"} /\ b.code = <<Rel("ptable")>>
  <2>1. "scheduler" \in Kind /\ "forkret" \in Kind
    BY Zenon DEF Kind
  <2>2. /\ Owes(SchedulerCode, {}) /\ SchedulerCode \in Seq(Uses("scheduler"))
        /\ Owes(<<Rel("ptable")>>, {"ptable"}) /\ <<Rel("ptable")>> \in Seq(Uses("forkret"))
    BY KernelPrograms, ZenonT(30)
  <2>3. FrameOK(a) /\ a.kind = "scheduler" /\ a.at = "start" /\ Crit(a) = {} /\ a.code = SchedulerCode
    BY SMTT(30), <2>1, <2>2, NewFrame
  <2>4. FrameOK(b) /\ b.kind = "forkret" /\ b.at = "start" /\ Crit(b) = {"ptable"} /\ b.code = <<Rel("ptable")>>
    <3> DEFINE r == <<Rel("ptable")>>
    <3>1. Owes(r, {"ptable"}) /\ r \in Seq(Uses("forkret"))
      BY <2>2, ZenonT(30)
    <3> HIDE DEF r
    <3>2. /\ FrameOK(Frame("forkret", r)) /\ Frame("forkret", r).kind = "forkret" /\ Frame("forkret", r).at = "start"
          /\ Crit(Frame("forkret", r)) = {"ptable"} /\ Frame("forkret", r).code = r
      BY SMTT(30), <2>1, <3>1, NewFrame
    <3> QED
      BY <3>2, Zenon DEF r
  <2> QED
    BY <2>3, <2>4, ZenonT(30)
<1>3. b.code # << >>
  BY <1>2
<1>4. /\ locked = [l \in Lock |-> 0] /\ lcpu = [l \in Lock |-> NoCPU] /\ IF_ = [c \in CPU |-> 0]
      /\ ncli = [c \in CPU |-> 0] /\ intena = [c \in CPU |-> 0] /\ on = [c \in CPU |-> c]
      /\ stack = [x \in Ctx |-> IF x \in CPU THEN <<a>> ELSE <<b>>]
      /\ saved = [t \in Thread |-> 0] /\ panic = "none" /\ machine \in Machines
  BY <1>1, ZenonT(30) DEF Init, Ctx
<1> HIDE DEF a, b
<1>5. /\ \A c \in CPU : stack[c] = <<a>> /\ on[c] = c
      /\ \A t \in Thread : stack[t] = <<b>>
      /\ CPU \subseteq Ctx /\ Thread \subseteq Ctx
  BY ZenonT(30), <1>4, CPUAssumption DEF Ctx
<1>6. \A x \in Ctx : StackOK(x, stack[x]) /\ Shut(stack[x])
  <2>1. ASSUME NEW x \in Ctx, NEW f, f \in {a, b}, x \in CPU <=> f = a, stack[x] = <<f>>
        PROVE  StackOK(x, stack[x]) /\ Shut(stack[x])
    <3>1. f \in FrameType /\ FrameOK(f) /\ f.kind # "call"
      BY ZenonT(30), <1>2, <2>1 DEF FrameOK
    <3>2. stack[x] \in Seq(FrameType) /\ Len(stack[x]) = 1 /\ Len(stack[x]) \in 1 .. 2 /\ Len(stack[x]) # 2
          /\ stack[x][1] = f
      BY SMTT(30), <2>1, <3>1
    <3>3. Proper(x, 1, f)
      BY SMTT(30), <1>2, <2>1, <3>1 DEF Proper
    <3>4. StackOK(x, stack[x])
      BY <3>2, <3>3, ZenonT(30) DEF StackOK
    <3>5. Shut(stack[x])
      BY <3>1, <3>2, ZenonT(30) DEF Shut, Below
    <3> QED
      BY ZenonT(30), <3>4, <3>5
  <2>2. a # b
    BY Zenon, <1>2
  <2> QED
    BY ZenonT(30), <1>5, <2>1, <2>2, CPUAssumption DEF Ctx
<1>7. Stacks
  BY <1>6, Zenon DEF Stacks
<1>8. Switching
  <2>1. ASSUME NEW t \in Thread PROVE Suspended(stack[t], saved[t])
    <3>1. Inner(stack[t]) = b /\ Below(stack[t]) = {}
      <4>1. Inner(<<b>>) = b /\ Below(<<b>>) = {}
        BY Zenon DEF Inner, Below
      <4> QED
        BY <1>5, <4>1, ZenonT(30)
    <3> QED
      BY <1>2, <1>3, <3>1, ZenonT(30) DEF Suspended
  <2> QED
    BY <1>5, <2>1, ZenonT(30) DEF Switching
<1>9. ASSUME NEW c \in CPU PROVE Top(c) = a /\ H(c) = {} /\ Below(stack[on[c]]) = {}
  <2>1. Inner(<<a>>) = a /\ Below(<<a>>) = {}
    BY Zenon DEF Inner, Below
  <2>2. HeldIn(<<a>>) = {}
    BY ZenonT(30), <1>2, <2>1 DEF HeldIn
  <2> QED
    BY <1>5, <2>1, <2>2, ZenonT(30) DEF Top, H, Inner
<1>10. Locks
  <2>1. Holds = [c \in CPU |-> {}]
    BY ZenonT(30), <1>9 DEF Holds
  <2>2. /\ \A c \in CPU : Holds[c] = {}
        /\ \A l \in Lock : locked[l] # 1 /\ lcpu[l] = NoCPU
    BY <1>4, <2>1
  <2> QED
    BY <2>2, CPUAssumption, ZenonT(30) DEF Locks, LocksOK
<1>11. ASSUME NEW c \in CPU PROVE Flags(c)
  <2>1. Extra(a) = 0 /\ Cardinality({}) = 0
    BY ZenonT(30), <1>2, FS_EmptySet DEF Extra
  <2>2. FlagsOK(a, {}, {}, 0, 0, 0)
    BY <1>2, <2>1 DEF FlagsOK
  <2>3. IF_[c] = 0 /\ ncli[c] = 0 /\ intena[c] = 0
    BY ZenonT(30), <1>4
  <2> QED
    BY <1>9, <2>2, <2>3, ZenonT(30) DEF Flags
<1>12. Types
  <2>1. \A x \in Ctx : stack[x] \in Seq(FrameType) /\ Len(stack[x]) \in 1 .. 2
    BY <1>6, Zenon DEF StackOK
  <2>2. stack \in [Ctx -> Seq(FrameType)]
    BY Zenon, <1>4, <2>1
  <2> QED
    BY SMTT(30), <1>4, <1>5, <2>1, <2>2 DEF Types
<1> QED
  BY ZenonT(30), <1>4, <1>7, <1>8, <1>10, <1>11, <1>12 DEF IInv, Sound, NoPanic

\* Every step keeps the invariant; a machine that has panicked stands still.
LEMMA NextIInv == IInv /\ [Next]_<<vars, machine>> => IInv'
<1>1. SUFFICES ASSUME IInv, [Next]_<<vars, machine>> PROVE IInv'
  BY Zenon
<1>2. CASE UNCHANGED <<vars, machine>>
  <2>1. /\ locked' = locked /\ lcpu' = lcpu /\ IF_' = IF_ /\ ncli' = ncli /\ intena' = intena
        /\ on' = on /\ stack' = stack /\ saved' = saved /\ panic' = panic /\ machine' = machine
    BY <1>2, Zenon DEF vars
  <2>2. Types'
    BY <1>1, <2>1, ZenonT(30) DEF IInv, Types
  <2>3. Sound => Sound'
    <3>1. \A c \in CPU : H(c)' = H(c) /\ Top(c)' = Top(c)
      BY <2>1, Zenon DEF H, Top
    <3>2. Holds' = Holds
      BY Zenon, <3>1 DEF Holds
    <3>3. Pend' = Pend
      <4>1. \A c \in CPU : Pending(Top(c))' = Pending(Top(c))
        BY <3>1, Zenon
      <4> QED
        BY ZenonT(30), <4>1 DEF Pend
    <3>4. Locks => Locks'
      BY <2>1, <3>2, <3>3, ZenonT(30) DEF Locks
    <3>5. Stacks /\ Switching => Stacks' /\ Switching'
      BY <2>1, Zenon DEF Stacks, Switching
    <3>6. (\A c \in CPU : Flags(c)) => \A c \in CPU : Flags(c)'
      BY <2>1, <3>1, ZenonT(30) DEF Flags
    <3> QED
      BY <3>4, <3>5, <3>6, ZenonT(30) DEF Sound
  <2> QED
    BY <1>1, <2>1, <2>2, <2>3, ZenonT(30) DEF IInv, NoPanic
<1>3. CASE Next
  <2>1. PICK c \in machine.cpu : Step(c) \/ syscall(c) \/ interrupt(c)
    BY <1>3, ZenonT(30) DEF Next
  <2>2. machine' = machine
    BY <1>3, Zenon DEF Next
  <2>3. c \in CPU
    BY <1>1, <2>1, MachineAssumption, ZenonT(30) DEF IInv, Types
  <2>4. panic = "none"
    BY <2>1, ZenonT(30) DEF Step, Doing, syscall, interrupt, readeflags, pushcli, xchg, set_cpu, clear_cpu,
       unlock, popcli, sti, cli, sched, swtch, table_end, irq_iret, trapret, scheduler_loop
  <2>5. Types /\ Sound
    BY <1>1, <2>4, ZenonT(30) DEF IInv
  <2>6. CASE sched(c)
    BY <2>2, <2>3, <2>5, <2>6, SchedIInv, ZenonT(30) DEF IInv, NoPanic
  <2>7. CASE ~sched(c)
    <3>1. Types' /\ panic' = "none" /\ Sound'
      BY <2>1, <2>2, <2>3, <2>5, <2>7, ReadeflagsIInv, PushcliIInv, XchgIInv, SetCpuIInv, ClearCpuIInv,
         UnlockIInv, PopcliIInv, StiIInv, CliIInv, SwtchIInv, TableEndIInv, IretIInv, TrapretIInv,
         LoopIInv, SyscallIInv, InterruptIInv, ZenonT(30) DEF Step
    <3> QED
      BY <3>1, Zenon DEF IInv, NoPanic
  <2> QED
    BY ZenonT(30), <2>6, <2>7
<1> QED
  BY ZenonT(30), <1>1, <1>2, <1>3

\* The inductive invariant.
THEOREM SpinLockInvariant == Spec => []IInv
  BY InitIInv, NextIInv, PTL DEF Spec

-----------------------------------------------------------------------------
\* The locks of a CPU are those its frames are in critical sections of.
LEMMA HeldIs ==
  ASSUME Types, Sound, NEW c \in CPU
  PROVE  {l \in Lock : Held(c, l)} = H(c)
<1> DEFINE s == stack[on[c]]
<1>1. StackOK(on[c], s) /\ H(c) = HeldIn(s)
  BY OnCPU, Zenon DEF H
<1>2. CASE Len(s) = 1
  <2>1. \A l \in Lock : Held(c, l) <=> InCritical(s[1], l)
    BY <1>2 DEF Held
  <2>2. HeldIn(s) = Crit(s[1])
    BY Zenon, <1>2 DEF HeldIn, Below, Inner
  <2> QED
    BY <1>1, <2>1, <2>2, ZenonT(30) DEF Crit
<1>3. CASE Len(s) = 2
  <2>1. \A l \in Lock : Held(c, l) <=> InCritical(s[1], l) \/ InCritical(s[2], l)
    BY <1>3 DEF Held
  <2>2. HeldIn(s) = Crit(s[1]) \cup Crit(s[2])
    BY Zenon, <1>3 DEF HeldIn, Below, Inner
  <2> QED
    BY <1>1, <2>1, <2>2, ZenonT(30) DEF Crit
<1> QED
  BY SMTT(30), <1>1, <1>2, <1>3 DEF StackOK

\* No two CPUs are ever in critical sections of one spinlock, and lk->locked is 1
\* exactly while one is (acquire() and release(), and ptable.lock across swtch()).
THEOREM MutualExclusionHolds == Spec => []MutualExclusion
<1>1. IInv => MutualExclusion
  <2>1. SUFFICES ASSUME IInv, panic = "none" PROVE
          \A l \in Lock : /\ \A c, d \in CPU : Held(c, l) /\ Held(d, l) => c = d
                          /\ locked[l] = 1 <=> \E c \in CPU : Held(c, l)
    BY Zenon DEF MutualExclusion
  <2>2. Types /\ Sound
    BY <2>1, Zenon DEF IInv
  <2>3. \A c \in CPU : {l \in Lock : Held(c, l)} = Holds[c]
    BY ZenonT(30), <2>2, HeldIs DEF Holds
  <2>4. \A c \in CPU : \A l \in Lock : Held(c, l) <=> l \in Holds[c]
    BY <2>3, ZenonT(30)
  <2> QED
    BY <2>2, <2>4, ZenonT(30) DEF Sound, Locks, LocksOK
<1> QED
  BY <1>1, SpinLockInvariant, PTL

\* No acquire(), release() or popcli() panics, and without filealloc() no sched():
\* holding() never takes another CPU's lock for its own, on any machine.
THEOREM NoPanicHolds == Spec => []NoPanic
<1>1. IInv => NoPanic
  BY Zenon DEF IInv
<1> QED
  BY <1>1, SpinLockInvariant, PTL

\* The panic of filealloc()'s gap is the only one any machine can reach: the
\* "sched locks" of sched() (proc.c).
THEOREM OnlySchedPanics == Spec => [](panic \in {"none", "sched_locks"})
<1>1. IInv => panic \in {"none", "sched_locks"}
  BY ZenonT(30) DEF IInv, Types
<1> QED
  BY <1>1, SpinLockInvariant, PTL

\* ncli counts the locks a CPU holds or is taking, and a system call without locks
\* runs with interrupts on, over every nesting of traps and every switch.
THEOREM InterruptsFollowLocksHolds == Spec => []InterruptsFollowLocks
<1>1. IInv => InterruptsFollowLocks
  <2>1. SUFFICES ASSUME IInv PROVE InterruptsFollowLocks
    BY Zenon
  <2>2. TypeOK
    BY Zenon, <2>1 DEF IInv, Types, TypeOK, Ctx
  <2>3. ASSUME panic = "none", NEW c \in CPU
        PROVE  /\ ncli[c] = Cardinality({l \in Lock : Held(c, l)})
                            + (IF Top(c).at \in {"xchg", "popcli"} THEN 1 ELSE 0)
               /\ Top(c).kind = "call" /\ ncli[c] = 0 => IF_[c] = 1
    <3>1. Types /\ Sound
      BY <2>1, <2>3, ZenonT(30) DEF IInv
    <3>2. {l \in Lock : Held(c, l)} = H(c)
      BY <3>1, HeldIs, ZenonT(30)
    <3>3. FlagsOK(Top(c), Below(stack[on[c]]), H(c), IF_[c], ncli[c], intena[c])
      BY <3>1, Zenon DEF Sound, Flags
    <3> QED
      BY <3>2, <3>3, ZenonT(30) DEF FlagsOK, Extra
  <2> QED
    BY <2>2, <2>3, ZenonT(30) DEF InterruptsFollowLocks, NcliCounts, InterruptsRestored
<1> QED
  BY <1>1, SpinLockInvariant, PTL
=============================================================================
