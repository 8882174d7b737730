SPECIFICATION Spec
CONSTANTS
  Null = Null
  k1 = k1
  k2 = k2
  d1 = d1
  x1 = x1
  x2 = x2
  Entries = {e1, e2}
  Keys = {k1, k2, d1}
  Extents = {x1, x2}
  KeysOf <- OneDecode
  ExtentOf <- MCExtentOf
  RetainWorkspace = TRUE
  PrefillGraphCache = TRUE
  IndexedPrefill = TRUE
  GraphsPerSlice = 2
  MaxGeneration = 5
INVARIANTS
  ReadableIsLatest
  WorkspaceIsSound
PROPERTIES
  PoisonedForGood
  OneBackendKeyPerSlice
CHECK_DEADLOCK FALSE
SYMMETRY EntriesAlike
