\* Two calls in flight on two ids, three secrets.
SPECIFICATION Spec
CONSTANTS
  i1 = i1
  i2 = i2
  o1 = o1
  o2 = o2
  Ids <- MCIds
  Ops <- MCOps
  Limits <- MCLimits
  MaxSecrets = 3
INVARIANTS
  TypeOK
  UniqueIds
  ShownSecretsWork
PROPERTIES
  ColumnsKept
  ReplacedStaysReplaced
  ActsAtomically
SYMMETRY RegistrySymmetry
CHECK_DEADLOCK FALSE
