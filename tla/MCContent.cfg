CONSTANTS
  Procs = {p1, p2}
  Inodes = {1, 2, 3}
  MkfsInodes = 2
  Files = {f1, f2}
  Nmeta = 1
  FSSIZE = 8
  BSIZE = 2
  NDIRECT = 1
  MaxChunk = 2
  Writes <- MCWrites
  Reads = {3}
  MkfsCalls = 2
  Calls = 5
  Mkfs = Mkfs
  None = None
SYMMETRY Symmetry
SPECIFICATION Spec
CHECK_DEADLOCK FALSE
INVARIANTS BlocksAreAccounted
PROPERTIES ImplementsFiles
