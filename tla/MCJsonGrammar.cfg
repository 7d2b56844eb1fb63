\* Every kind of token, short texts; containers only, longer texts.
SPECIFICATION FairDumpSpec
CONSTANTS
  Texts = {"a", "long", "esc", "bad"}
  LongTexts = {"long"}
  Unescape <- MCUnescape
  Malformed = Malformed
  IntegerLiterals = {3}
  IntegerModulus = 8
  DoubleLiterals = {1, 2, 400}
  OutOfRange = {400}
  LexerErrors = {"LeadingZero"}
  MaxDepth = 3
  SourceTokens <- MCAllTokens
  MaxTokens = 13
  Samples <- MCSamples
  Indents <- MCIndents
  WholeDoubles = {1}
CONSTRAINT InSamples
INVARIANTS
  TypeOK
  StructureInv
  RecursionBounded
  NothingLeftOver
  IndicesResolve
  AcceptedIsDerived
  RejectedIsUnderivable
  DumpRepeatsTokens
  LayoutNested
  DumpRecursionBounded
PROPERTIES
  NothingAfterError
  EveryCallReturns
  ImplementsBuilder
