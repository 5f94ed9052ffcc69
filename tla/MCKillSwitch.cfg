\* Two proxy calls share one connection; two admins; the key may be lost.
SPECIFICATION FairSpec
CONSTANTS
  r1 = r1
  r2 = r2
  a1 = a1
  a2 = a2
  Requests <- MCRequests
  Calls <- MCCalls
  Pool = 1
  KeyLoss = TRUE
  CommitFails = TRUE
INVARIANTS
  TypeOK
  LockdownHolds
PROPERTIES
  LockdownDrains
  EveryCallEnds
