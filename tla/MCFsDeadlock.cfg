\* Two processes and a file with two names in one directory.
CONSTANTS
  Proc = {p1, p2}
  Nobody = Nobody
  Inum = {1, 2, 3, 4}
  Name = {"a", "d"}
  Paths <- TwoNames
  Tree <- TwoNamesTree
  Calls = {"link", "unlink", "creat", "mkdir", "mknod", "open", "chdir", "close"}
  MaxCalls = 2
SPECIFICATION InodeSpec
INVARIANT NoLockCycle
CHECK_DEADLOCK FALSE
