\* Log space: calls that write fewer blocks than they reserve, or all of them,
\* and more blocks than the log has room for; nlog = LOGSIZE as mkfs makes it.
\* The deadlocks are log_write()'s panics, which stop the machine.
CONSTANTS
  Proc = {p1, p2, p3}
  Nobody = Nobody
  Block = {b1, b2, b3, b4, b5}
  Val = {0}
  NoBuf = NoBuf
  NoBlock = NoBlock
  MAXOPBLOCKS = 2
  LOGSIZE = 4
  NLog = 4
  OpBlocks = {1, 2}
  MaxCrashes = 0
SPECIFICATION Spec
SYMMETRY Symmetry
INVARIANTS LogSpace
CHECK_DEADLOCK FALSE
