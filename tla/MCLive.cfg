\* Liveness.  Each part on a small instance: a log that makes calls wait for
\* space and for a commit; three processes at a sleep lock and at a one-byte
\* pipe; two sleepers and a tick counter about to wrap; four CPUs.
CONSTANTS
  p1 = p1
  p2 = p2
  p3 = p3
  Proc = {p1, p2, p3}
  Nobody = Nobody
  Block = {b1}
  Val = {0}
  NoBuf = NoBuf
  NoBlock = NoBlock
  MAXOPBLOCKS = 2
  LOGSIZE = 4
  NLog = 4
  OpBlocks = {1}
  MaxCrashes = 1
  PipeProc = {p1, p2, p3}
  PIPESIZE = 1
  UInt = 2
  Byte = {0}
  IOSizes = {2}
  Ends <- LiveEnds
  Sleeper = {p1, p2}
  UIntTicks = 4
  MaxSleep = 2
  Lag = 1
  MAXARGS = 3
  nbuf = 6
  NSlot = 7
  Lines <- LiveLines
  NThread = 3
  NBUCKET = 2
  keys <- LiveKeys
  NCpu = 4
  NLow = 5
  NHigh = 2
SPECIFICATION LiveSpec
INVARIANTS SleepLockSound
PROPERTIES IsMutex SleepsOnTime LogProgress CallsEnd PromptReturns TableComplete BootSound
