\* Redis loses nothing, but a command may run in the second after the clock
\* sample: one second of delay and a grace period of two.
SPECIFICATION Spec
CONSTANTS
  j1 = j1
  r1 = r1
  r2 = r2
  r3 = r3
  r4 = r4
  Jtis <- MCJtis
  Requests <- MCThree
  Jti <- MCJti
  Exp <- MCExp
  Buffer = 3
  Skew = 2
  Grace = 2
  MaxDelay = 1
  KeyLoss = FALSE
  MaxTime = 4
INVARIANT
  AtMostTwoUses
CHECK_DEADLOCK FALSE
