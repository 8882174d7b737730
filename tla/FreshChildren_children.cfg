CONSTANTS
  Processes = {1, 2, 3}
  Callers = {"evaluator", "gate", "verifier", "helper", "generation", "validation", "fixture", "coding", "qualifier", "summary"}
  Stubborn = {3}
  Rounds = 1
  FreshCallers = {"control", "dispatch", "git", "worker", "row"}
SPECIFICATION ChildSpec
INVARIANTS
  CleanupIsProved
  FreshReturnsAlone
CHECK_DEADLOCK FALSE
