\* What kill() marks.
CONSTANTS
  NPROC = 3
  CPU = {c0}
  NoCPU = NoCPU
  MaxPid = 3
SPECIFICATION Spec
PROPERTIES KillHitsProcess
