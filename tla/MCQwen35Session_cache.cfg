SPECIFICATION Spec
CONSTANTS
  Null = Null
  e1 = e1
  e2 = e2
  EntryOrder <- TwoEntries
  MaxChunks = 2
  MaxTokens = 3
  WidthUnit = 3
  RetainWorkspace = TRUE
  PrefillGraphCache = TRUE
  IndexedPrefill = TRUE
  GraphsPerSlice = 2
  MaxGeneration = 12
INVARIANTS
  RequestKeepsToItself
