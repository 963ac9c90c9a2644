CONSTANTS
  a = a
  b = b
  Procs = {p1, p2}
  Inums = {i1, i2, i3}
  Root = i1
  Names = {a, b}
  Paths <- ShortPaths
  Calls <- ShortCalls
  None = None
SYMMETRY Symmetry
SPECIFICATION Spec
INVARIANTS RefsAreCounted LinksAreCounted NothingIsLost LockedIsStable NoCallPanics NoCircularWait
