\* Two full syncs; the provider fails once and the first is run again.
SPECIFICATION Spec
CONSTANTS
  Jobs = {j1, j2}
  MaxAttempts = 2
  MaxStalls = 0
  Workers = 1
  Pages = 1
  PageCap = 1
  Faults = {"provider"}
CHECK_DEADLOCK FALSE
INVARIANT
  OneActiveFullSync
