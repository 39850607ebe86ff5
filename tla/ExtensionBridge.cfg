\* Two calls, two browsers that take the channel from each other.
SPECIFICATION FairSpec
CONSTANTS
  Calls = {c1, c2}
  Sockets = {s1, s2, s3}
  None = none
  MaxBrowsers = 2
CHECK_DEADLOCK FALSE
INVARIANTS
  TypeOK
  PendingAgrees
PROPERTIES
  NeverCutOff
  IsRemoteCall
  CallsEnd
  Reconnects
