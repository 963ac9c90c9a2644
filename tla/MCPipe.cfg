CONSTANTS
  Readers = {r1, r2}
  Writers = {w1}
  Bytes = {a, b}
  PIPESIZE = 2
  UintRange = 4
  MaxCount = 3
  Kills = TRUE
  None = None
SYMMETRY Symmetry
SPECIFICATION Spec
INVARIANT SleepersMustWait
PROPERTY ImplementsByteStream
