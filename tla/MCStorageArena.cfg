\* Two documents that fill chunks, move, die and take over each other's memory.
SPECIFICATION Spec
CONSTANTS
  Store = {s1, s2}
  SizeOf <- MCSizeOf
  AlignOf <- MCAlignOf
  Byte = {a, b}
  Garbage = Garbage
  DefaultChunk = 6
  Word = 64
  MaxAddress = 14
  MaxPiece = 7
  MaxPieces = 2
SYMMETRY MCSymmetry
CONSTRAINT FewPieces
INVARIANTS
  TypeOK
  PiecesInChunks
  ChunksOwnedOnce
PROPERTY ImplementsTables
