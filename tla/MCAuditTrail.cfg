SPECIFICATION FairSpec
CONSTANTS
  p1 = p1
  p2 = p2
  Life = 1
  MaxLate = 1
  MaxToasts = 3
  MaxEvents = 3
  Polls <- MCPolls
  FeedSize = 1
  LogSize = 1
  MaxRows = 2
INVARIANTS
  TypeOK
  NoActionMissing
PROPERTIES
  NeverEarly
  ToastsLeave
  ActionsShow
