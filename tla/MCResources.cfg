CONSTANTS
  NPages = 17
  PGSIZE = 2
  NPTENTRIES = 2
  KernTables = 1
  KERNBASE = 14
  UintRange = 64
  NFILE = 3
  None = None
  NPROC = 3
  NOFILE = 2
  Programs <- MCPrograms
  PseudoLen = 2
  Increments <- MCIncrements
  Calls = 4
SPECIFICATION Spec
CHECK_DEADLOCK FALSE
INVARIANTS PagesAreAccounted SpacesAreWhole FilesAreCounted
