\* filealloc() searches the file table with interrupts on.
CONSTANTS
  c0 = c0
  c1 = c1
  t1 = t1
  t2 = t2
  CPU = {c0, c1}
  Thread = {t1, t2}
  BootCPU = c0
  NoCPU = NoCPU
  Machines <- FileMachine
SPECIFICATION Spec
INVARIANTS SchedHoldsOnlyPtable
