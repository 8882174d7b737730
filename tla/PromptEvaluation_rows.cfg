CONSTANTS
  Procs = {root, child}
  Root = root
  Invocations = 2
SPECIFICATION FairSpec
INVARIANTS
  WritersAreOwned
  VerdictIsOfTheTree
  PublicationIsSound
PROPERTY
  EvaluationEnds
CHECK_DEADLOCK FALSE
