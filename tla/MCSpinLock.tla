---------------------------- MODULE MCSpinLock ----------------------------
(* Instances of SpinLock for TLC. *)
EXTENDS SpinLock
CONSTANTS c0, c1, t1, t2

\* Two CPUs and a thread that sleeps on one and wakes on the other, with each of
\* the locks an interrupt handler takes.
SmpMachine == [cpu |-> {c0, c1}, thread |-> {t1}, calls |-> {"iderw", "sys_sleep"}]

\* Two threads that share one CPU, with every call.
OneCPUMachine == [cpu |-> {c0}, thread |-> {t1, t2},
                  calls |-> {"iderw", "sys_sleep", "wait", "wakeup", "filealloc"}]

BothMachines == {SmpMachine, OneCPUMachine}
FileMachine == {[SmpMachine EXCEPT !.calls = {"filealloc"}]}
=============================================================================
