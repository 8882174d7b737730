SPECIFICATION CaptureSpec
CONSTANTS
    Tracked = {f1, f2}
    Stray = {x}
    Good = Good
    Bad = Bad
    Absent = Absent
    Unread = Unread
    MaxEdits = 2
    Readers = {"identity", "task", "source", "gate", "recipe", "baseline", "adoption"}
    Staged = {f1}
    Cases = 4
    FileLimit = 30
    Standards = {9, 10}
    InputEdits = 2
    Chunk = 2
    Shapes <- SmallShapes
INVARIANTS
  BundleIsOfThePinnedCommit
  AcceptedIsOfOneMoment
  QualificationIsEarned
  ResultIsPublishable
CHECK_DEADLOCK FALSE
