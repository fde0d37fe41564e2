\* Two CPUs, init and two other slots, three forks.
CONSTANTS
  NPROC = 3
  CPU = {c0, c1}
  NoCPU = NoCPU
  MaxPid = 4
SPECIFICATION Spec
SYMMETRY Symmetry
INVARIANTS ProcTableOK StackSafe MemoryMatchesState NoMissedExit OnlyInitPanics
