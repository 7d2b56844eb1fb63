\* Up to three items per stack: an inline buffer of one, blocks of two and of four.
SPECIFICATION Spec
CONSTANTS
  Stack = {s1, s2}
  Item = {a, b}
  Garbage = Garbage
  Block = {b1, b2, b3}
  Inline = Inline
  Freed = Freed
  InlineCapacity = 1
  Word = 16
  MaxSize = 3
INVARIANTS
  TypeOK
  BufferHoldsItems
  BlocksOwnedOnce
PROPERTY ImplementsStacks
