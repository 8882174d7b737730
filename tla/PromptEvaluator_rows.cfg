CONSTANTS
  Tasks = {1}
  SampleCount = 2
  RepairLimit = 1
  MinimumGain = 1
  MinimumFaster = 100000
  MaximumSlower = 200000
  MaximumRepairs = 1
  TimeLimit = 3
  Durations = {1, 2}
  Changes = 1
SPECIFICATION Spec
INVARIANTS
  ScoreRestsOnOneInput
  GateAdmitsImprovements
  ResultIsWhole
PROPERTY
  OthersFilesSurvive
CHECK_DEADLOCK FALSE
