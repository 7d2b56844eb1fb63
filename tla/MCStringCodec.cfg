\* Both engines against the meaning of the body, then the serializer and back.
SPECIFICATION Spec
CONSTANTS
  Sources <- MCSources
  Engines = {"Swar", "Avx2"}
  BlockSize <- MCBlockSize
INVARIANTS
  TypeOK
  InBounds
  DecodesTruly
  RoundTrip
