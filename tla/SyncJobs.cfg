\* Two jobs of either type, every fault; three pages, two a run.
SPECIFICATION Spec
CONSTANTS
  Jobs = {j1, j2}
  MaxAttempts = 2
  MaxStalls = 1
  Workers = 2
  Pages = 3
  PageCap = 2
  Faults = {"enqueue", "provider", "database", "crash"}
CHECK_DEADLOCK FALSE
INVARIANTS
  KeyMeansActive
  CursorCovers
PROPERTIES
  JobsComeToRest
  WorkRunsOut
