\* Integers beyond the payload.
SPECIFICATION Spec
CONSTANTS
  Texts = {"a", "long", "esc", "bad"}
  LongTexts = {"long"}
  Unescape <- MCUnescape
  Malformed = Malformed
  IntegerLiterals = {3, 4}
  IntegerModulus = 8
  DoubleLiterals = {1, 400}
  OutOfRange = {400}
  LexerErrors = {"LeadingZero"}
  MaxDepth = 2
  SourceTokens <- MCArrayTokens
  MaxTokens = 6
INVARIANT WideIntegerPromoted
