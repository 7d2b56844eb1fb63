--------------------------- MODULE MCStorageArena ---------------------------
(* An element of an array takes two bytes, a member four; both are aligned *)
(* to two.  A chunk of six has room for a string of three, the padding     *)
(* after it and an element; a piece of seven needs a chunk of its own.     *)
EXTENDS StorageArena, TLC, FiniteSetsExt

MCSizeOf == [string |-> 1, array |-> 2, object |-> 4]
MCAlignOf == [string |-> 1, array |-> 2, object |-> 2]

MCSymmetry == Permutations(Store) \cup Permutations(Byte)

(* Bound: the pieces of both documents together.                           *)
FewPieces == FoldSet(LAMBDA s, n : Pieces(s) + n, 0, Store) <= MaxPieces
=============================================================================
