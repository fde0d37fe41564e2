------------------------------- MODULE MCLive -------------------------------
(***************************************************************************)
(* The components whose promise is that something happens, each on a small *)
(* instance of its own.  They share no state, so a behaviour runs one of   *)
(* them, the part chosen at the start: the states of this module are the   *)
(* sum of theirs, not the product.  No symmetry, for the liveness          *)
(* properties.                                                             *)
(***************************************************************************)
EXTENDS Log, SleepLock, Pipe, Clock, Shell, Ph, Boot

CONSTANTS p1, p2, p3
VARIABLE part

\* One reader and two writers.
LiveEnds == {[r |-> {p1}, w |-> {p2, p3}]}

\* Pipelines, redirections, a list, a background job in a block, an error.
LiveLines == { <<"a", "|", "a", "|", "a">>, <<"a", ";", "a", ">", "a">>, <<")">>,
               <<"<", "a", "a", "|", "(", "a", "&", ")">> }

\* Three threads put into one bucket, two of them the same key.
LiveKeys == <<1, 3, 1>>

logVars == <<vars, opblocks>>

LiveInit ==
  /\ part \in {"log", "sleeplock", "pipe", "clock", "shell", "ph", "boot"}
  /\ Init /\ SlInit /\ PipeInit /\ ClockInit /\ ShellInit /\ ParserInit /\ PhInit /\ BootInit
  /\ part # "clock" => ticks = 0

\* A part that may stop has stopped where it should.
PipeClosed == readfd \cup writefd = {} /\ \A p \in PipeProc : ppc[p] = "idle"
PhFinished == \A t \in Thread : thr[t].pc = "get" /\ thr[t].i = NKEYS
MemoryUsed == freepages = <<>> /\ \A c \in Cpus : cpu[c] = "scheduler"

\* A step of one part leaves the others alone.
OnlyLog == part = "log" /\ UNCHANGED <<part, opblocks, slvars, pipeVars, clockVars, shellVars, parserVars, phVars, bootVars>>
OnlyLock == part = "sleeplock" /\ UNCHANGED <<part, logVars, pipeVars, clockVars, shellVars, parserVars, phVars, bootVars>>
OnlyPipe == part = "pipe" /\ UNCHANGED <<part, logVars, slvars, clockVars, shellVars, parserVars, phVars, bootVars>>
OnlyClock == part = "clock" /\ UNCHANGED <<part, logVars, slvars, pipeVars, shellVars, parserVars, phVars, bootVars>>
OnlyShell == part = "shell" /\ UNCHANGED <<part, logVars, slvars, pipeVars, clockVars, parserVars, phVars, bootVars>>
OnlyPh == part = "ph" /\ UNCHANGED <<part, logVars, slvars, pipeVars, clockVars, shellVars, parserVars, bootVars>>
OnlyBoot == part = "boot" /\ UNCHANGED <<part, logVars, slvars, pipeVars, clockVars, shellVars, parserVars, phVars>>

LiveNext ==
  \/ OnlyLog /\ Next
  \/ OnlyLock /\ SlNext
  \/ OnlyPipe /\ PipeNext
  \/ OnlyClock /\ ClockNext
  \/ OnlyShell /\ ShellNext
  \/ OnlyPh /\ PhNext
  \/ OnlyBoot /\ BootNext
  \/ /\ (part = "pipe" /\ PipeClosed) \/ (part = "ph" /\ PhFinished) \/ (part = "boot" /\ MemoryUsed)
     /\ UNCHANGED <<part, logVars, slvars, pipeVars, clockVars, shellVars, parserVars, phVars, bootVars>>

LiveVars == <<part, logVars, slvars, pipeVars, clockVars, shellVars, parserVars, phVars, bootVars>>

-----------------------------------------------------------------------------
(* Fairness.  Only the part that runs takes steps, so one fairness condition
   serves a process of each part: the i-th of them.                          *)

Ith == <<p1, p2, p3>>

\* What a scheduled process goes on with (round robin, proc.c:338): inside the
\* log code, recovery included; inside a pipe's read() or write(); a shell, a
\* program, which ends with its input, or init; a thread; a processor.
Scheduled(i) ==
  \/ /\ OnlyLog /\ i <= 3
     /\ begin_op_sleep(Ith[i]) \/ begin_op(Ith[i]) \/ log_write(Ith[i]) \/ Commit(Ith[i])
  \/ OnlyLog /\ i = 4 /\ Recover
  \/ OnlyPipe /\ i <= 3 /\ PipeKernel(Ith[i])
  \/ OnlyShell /\ (JobStep(i) \/ (i = TheInit /\ InitStep))
  \/ OnlyPh /\ i <= NThread /\ ThreadStep(i - 1)
  \/ OnlyBoot /\ i <= NCpu /\ (CpuStep(i) \/ (i = BSP /\ BspStep))

\* What happens some time although it is disabled for a while again and again:
\* a call makes its last log_write() and reaches end_op(); a process that spins
\* gets the spinlocks under a sleep lock, or tickslock, and so does the timer; a
\* process outside of a call closes its ends of the pipe (it exits at the latest).
\* Nothing is assumed about crashes, kills, lines typed or new calls.
Sometime(i) ==
  \/ OnlyLog /\ end_op(Ith[i])
  \/ OnlyLock /\ Run(Ith[i])
  \/ OnlyPipe /\ pipeclose(Ith[i])
  \/ OnlyClock /\ (IF i < 3 THEN SleepStep(Ith[i]) ELSE timer_intr)

Fairness == /\ \A i \in Slot : WF_LiveVars(Scheduled(i))
            /\ \A i \in 1 .. 3 : SF_LiveVars(Sometime(i))

LiveSpec == LiveInit /\ [][LiveNext]_LiveVars /\ Fairness

\* Whoever sleeps in the kernel gets on: for a sleep lock, in a pipe's read()
\* or write(), or in sys_sleep().
CallsEnd == SleepersWoken /\ PipeCallsEnd /\ SleepReturns
=============================================================================
