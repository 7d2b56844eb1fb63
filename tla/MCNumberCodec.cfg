\* Integers and doubles on both sides of every width.
SPECIFICATION Spec
CONSTANTS
  Texts <- MCTexts
  BlockDigits = 4
  Word = 65536
  Payload = 4096
  IntRange = 256
  MaxDigits = 4
  Precision = 5
  MaxPower = 2
INVARIANTS
  TypeOK
  IntegersReadBack
  FastPathFaithful
