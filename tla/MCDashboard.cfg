SPECIFICATION DashboardFairSpec
CONSTANTS
  r1 = r1
  r2 = r2
  a1 = a1
  a2 = a2
  p1 = p1
  p2 = p2
  Requests <- MCNoRequest
  Calls <- MCCalls
  Polls <- MCPolls
  Pool = 1
  KeyLoss = TRUE
  CommitFails = TRUE
INVARIANTS
  DashboardTypeOK
  NoInventedLockdown
PROPERTIES
  ViewCatchesUp
