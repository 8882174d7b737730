CONSTANTS
  Files = {"f", "g"}
  Allowed = {"f"}
  Scratch = {s1, s2}
  Names <- SmallNames
  Forked = {"child"}
  Numbers = {1}
  Limit = 1
  Moves = 4
  NLayer = 2
  NExpert = 3
  Windows <- SmallWindows
  Degrees <- SmallDegrees
  MaxDemands = 12
  MaxSteps = 60
  MaxByteTotal = 400
  MaxDegree = 2
  Corpora <- SmallCorpora
SPECIFICATION CandidatesSpec
SYMMETRY Interchangeable
INVARIANTS
  ScoredIsOfThePatch
  WatchIsExact
  NothingOutlives
  OracleAgrees
  VerdictIsSound
CHECK_DEADLOCK FALSE
