\* Crash atomicity: three calls of up to two blocks, two of which fit in the
\* log at once; the power fails twice, so also during recovery.
CONSTANTS
  Proc = {p1, p2, p3}
  Nobody = Nobody
  Block = {b1, b2}
  Val = {0, 1}
  NoBuf = NoBuf
  NoBlock = NoBlock
  MAXOPBLOCKS = 3
  LOGSIZE = 6
  NLog = 6
  OpBlocks = {2}
  MaxCrashes = 2
SPECIFICATION Spec
SYMMETRY Symmetry
INVARIANTS QuiescentDurable
PROPERTIES CrashAtomic
