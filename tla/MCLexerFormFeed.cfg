\* The AVX2 engine on texts with form feeds.
SPECIFICATION FairSpec
CONSTANTS
  Texts <- FormFeeds
  Engines = {"Avx2"}
  BlockSize <- MCBlockSize
PROPERTY SinglePass
