\* One CPU: starvation, delayed deaths and lost orphans.
CONSTANTS
  NPROC = 3
  CPU = {c0}
  NoCPU = NoCPU
  MaxPid = 3
SPECIFICATION FairSpec
PROPERTIES NoStarvation KilledExits OrphansReaped
