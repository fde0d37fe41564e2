\* Safety of the file system's parts.  Two processes in the buffer cache, the
\* inodes, the contents and the file table, three at a pipe.  A full disk or a
\* panic for want of a buffer stops a part, and so does the last close of a pipe.
CONSTANTS
  m1 = m1
  m2 = m2
  m3 = m3
  Proc = {p1, p2}
  Nobody = Nobody
  Buf = {b1, b2}
  Block = {m1, m2, m3}
  NoBlock = NoBlock
  Val = {0, 1}
  Pinned = {0, 1}
  PipeProc = {m1, m2, m3}
  PIPESIZE = 2
  UInt = 4
  Byte = {0, 1}
  IOSizes = {3}
  Ends <- FsEndsOrAll
  NFileProc = 2
  File = {m1, m2, m3}
  PipePage = {g1}
  NOFILE = 2
  NoFile = NoFile
  Inum = {1, 2, 3, 4}
  Name = {"a", "d"}
  Paths <- FsPaths
  Tree <- FsTree
  Calls = {"link", "unlink", "creat", "mkdir", "mknod", "open", "chdir", "close"}
  MaxCalls = 2
  Ino = {p1, p2}
  BSIZE = 2
  NDIRECT = 1
  NBlocks = 5
  BPB = 4
  MAXOPBLOCKS = 6
  MaxWrite = 4
  MaxOps = 2
SPECIFICATION FsSpec
SYMMETRY FsSymmetry
INVARIANTS BuffersSound PipeSound FilesCounted CountsMatch   ReadsWhatWasWritten
PROPERTIES CacheIsCoherent PipeIsFifo
CHECK_DEADLOCK FALSE
