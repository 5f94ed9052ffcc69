\* An admin and a client, one call in flight, two changes of rows.
SPECIFICATION Spec
CONSTANTS
  adm = adm
  shop = shop
  o1 = o1
  o2 = o2
  Clients <- MCBoth
  Admins <- MCAdmins
  Ops <- MCOneOp
  MaxPairs = 3
  MaxCalls = 4
  MaxSecrets = 2
  MaxChanges = 2
  AccessLife = 1
  RefreshLife = 2
  Skew = 0
  Grace = 0
  Buffer = 1
  GuardDelay = 1
  KeyLoss = FALSE
  MintDelay = 1
  MaxTime = 2
INVARIANTS
  TypeOK
  RevocationTakesEffect
  RetiredSecretOpensNothing
CHECK_DEADLOCK FALSE
