\* One client, two refreshes in flight, five pairs of tokens, commands a second late.
SPECIFICATION Spec
CONSTANTS
  adm = adm
  shop = shop
  o1 = o1
  o2 = o2
  Clients <- MCShop
  Admins <- MCNoAdmin
  Ops <- MCTwoOps
  MaxPairs = 5
  MaxCalls = 5
  MaxSecrets = 1
  MaxChanges = 0
  AccessLife = 1
  RefreshLife = 1
  Skew = 0
  Grace = 0
  Buffer = 0
  GuardDelay = 1
  KeyLoss = TRUE
  MintDelay = 1
  MaxTime = 1
SYMMETRY OpsSymmetry
INVARIANTS
  ChildrenBounded
CHECK_DEADLOCK FALSE
