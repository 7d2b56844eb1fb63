\* Doubles against the exactness their header states.
SPECIFICATION Spec
CONSTANTS
  Texts <- MCInexact
  BlockDigits = 4
  Word = 65536
  Payload = 4096
  IntRange = 256
  MaxDigits = 4
  Precision = 5
  MaxPower = 2
INVARIANT DoublesExact
