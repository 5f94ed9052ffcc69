\* A status change that read the row before another one.
SPECIFICATION Spec
CONSTANTS
  i1 = i1
  i2 = i2
  o1 = o1
  o2 = o2
  Ids <- MCIds
  Ops <- MCOps
  Limits <- MCLimits
  MaxSecrets = 1
INVARIANTS
  StatusAnswered
CHECK_DEADLOCK FALSE
