\* Two CPUs with one thread, and one CPU with two threads; a panic stops the
\* machine.  No symmetry, for the liveness property.
CONSTANTS
  c0 = c0
  c1 = c1
  t1 = t1
  t2 = t2
  CPU = {c0, c1}
  Thread = {t1, t2}
  BootCPU = c0
  NoCPU = NoCPU
  Machines <- BothMachines
SPECIFICATION FairSpec
INVARIANTS MutualExclusion NoPanic InterruptsFollowLocks
PROPERTIES CPUsListen
CHECK_DEADLOCK FALSE
