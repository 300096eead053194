SPECIFICATION Spec
CONSTANTS
  Target = 4
  Overlap = 2
  LastPart = 1
  Forms <- FormsOf
  Stopwords <- Stops
  Synonyms <- Other
  RrfK = 2
  ListTop = 3
  KeepAtLeast = 2
  SnippetWindow = 3
  BeforeMatch = 1
  Kits <- ThreeKits
  MaxTokens = 5
  Texts <- ShortTexts
  Queries <- Asked
  Fusing <- FourChunks
  TopK = 2
INVARIANTS ReadAsMeant Covered Found BothFirst
CHECK_DEADLOCK FALSE
