CONSTANTS
  Readers = {p1, p2}
  ReadSizes = {2}
  Keyset <- MCKeys
  Chords <- MCChords
  Serial = {"^U", "^P", "cr"}
  Texts <- MCTexts
  INPUT_BUF = 3
  UintRange = 6
  COLS = 2
  ROWS = 4
  Cursors = {3}
  First = 4
  MaxOut = 4
SPECIFICATION Spec
INVARIANTS EchoIsTheLine NoStuckModifier
PROPERTY ImplementsLines
SYMMETRY Symmetry
