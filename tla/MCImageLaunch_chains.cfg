SPECIFICATION LaunchSpec
CONSTANTS
    Images = {i1, i2}
    Commits = {c1, c2}
    Modes = {"launch", "boundary", "adoption"}
    Unread = unread
    MaxInstalls = 3
    MaxEdits = 2
    MaxLeft = 2
SYMMETRY Interchangeable
INVARIANTS
  LaunchIsOfOneImage
  CompilerIsTheDescribed
CHECK_DEADLOCK FALSE
