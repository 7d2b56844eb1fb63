\* Both engines against the byte-wise definition of the tokens.
SPECIFICATION FairSpec
CONSTANTS
  Texts <- MCTexts
  Engines = {"Swar", "Avx2"}
  BlockSize <- MCBlockSize
INVARIANTS
  TypeOK
  TokensAreLexemes
  NothingSkipped
  RejectsNoLexeme
PROPERTY EndsOrMeetsFormFeed
