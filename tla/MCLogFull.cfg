\* Log space: the real ratio LOGSIZE = 3 * MAXOPBLOCKS and nlog = LOGSIZE, with
\* enough blocks to fill the log.  Block contents do not matter here.
CONSTANTS
  Proc = {p1, p2, p3}
  Nobody = Nobody
  Block = {b1, b2, b3, b4, b5, b6}
  Val = {0}
  NoBuf = NoBuf
  NoBlock = NoBlock
  MAXOPBLOCKS = 2
  LOGSIZE = 6
  NLog = 6
  OpBlocks = {2}
  MaxCrashes = 0
SPECIFICATION Spec
SYMMETRY Symmetry
INVARIANTS NoPanic
