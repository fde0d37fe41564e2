\* Safety of what user programs work with.  A part may stop: the processes of
\* the memory model have exited, a function has been applied, or the image is
\* complete.
CONSTANTS
  NVmProc = 2
  NFrame = 14
  NPage = 3
  NPTE = 2
  Proc = {p1, p2}
  Nobody = Nobody
  INPUT_BUF = 3
  UIntCons = 6
  MaxRead = 2
  Cols = 2
  Rows = 1
  MAXARGS = 3
  nbuf = 6
  NSlot = 8
  Lines <- UserLines
  NMem = 5
  DIRSIZ = 2
  MaxPath = 6
  MaxRe = 4
  MaxText = 3
  IntMod = 16
  NHeap = 14
  MinCore = 4
  MaxUnits = 4
  EPB = 3
  KDirect = 1
  KIndirect = 2
  KIpb = 2
  KBpb = 24
  Sizes = {0, 1, 3, 4, 9}
  Geometries <- UserGeometries
SPECIFICATION UserSpec
SYMMETRY UserSymmetry
INVARIANTS FramesSound NoStuckModifier ParserMatchesGrammar JobsSound TextSound HeapSound 
PROPERTIES ConsoleSound
CHECK_DEADLOCK FALSE
