SPECIFICATION Spec
CONSTANTS
  Null = Null
  e1 = e1
  e2 = e2
  EntryOrder <- OneEntry
  MaxChunks = 2
  MaxTokens = 3
  WidthUnit = 3
  RetainWorkspace = FALSE
  PrefillGraphCache = FALSE
  IndexedPrefill = FALSE
  GraphsPerSlice = 2
  MaxGeneration = 0
INVARIANTS
  SessionIsSound
PROPERTIES
  ImplementsApi
  CallsReturn
