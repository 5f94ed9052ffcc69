\* Commands may run two seconds after the clock sample and Redis may lose keys.
SPECIFICATION Spec
CONSTANTS
  j1 = j1
  r1 = r1
  r2 = r2
  r3 = r3
  r4 = r4
  Jtis <- MCJtis
  Requests <- MCFour
  Jti <- MCJti
  Exp <- MCExp
  Buffer = 3
  Skew = 2
  Grace = 1
  MaxDelay = 2
  KeyLoss = TRUE
  MaxTime = 6
SYMMETRY RequestsSymmetry
INVARIANTS
  TypeOK
  OneFirstUse
  GraceSpacing
  RetryWithin
  BoundedUses
  KeysDue
  CountersDue
PROPERTY
  KeepsPromise
CHECK_DEADLOCK FALSE
