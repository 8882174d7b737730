CONSTANTS
  Altered = 1
  Paths = {p1, p2, p3, p4}
  Ids = {i1, i2, i3}
  Variants = {v1, v2, v3}
  Scopes = {s1, s2}
  MaxAncestors = 2
  Decisions = 4
  Evaluations = 2
  Mishaps = 1
SPECIFICATION DocumentsSpec
SYMMETRY Alike
INVARIANTS
  DocumentsArePassedOn
  ScoredIsEarned
  LineageIsKept
CHECK_DEADLOCK FALSE
