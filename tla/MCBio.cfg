CONSTANTS
  Procs = {p1, p2, p3}
  Blocks = {k1, k2, k3}
  Bufs = {b1, b2}
  Data = {x, y}
  None = None
SYMMETRY Symmetry
SPECIFICATION Spec
INVARIANTS BreadReturnsNewest BuffersAreExclusive ReferencedIsKept SleepersAreServed
