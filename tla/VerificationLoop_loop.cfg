SPECIFICATION Spec
CONSTANTS
  Runs = {r1, r2}
  Tasks = {t1, t2}
  MaxMax = 2
INVARIANTS
  VerdictIsEarned
  MemoryIsTruthful
PROPERTIES
  RunsFinish
CHECK_DEADLOCK FALSE
