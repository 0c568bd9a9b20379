CONSTANTS
  Documents = {d1}
  Calls = {c1, c2}
  MaxKeys = 3
  None = None
SPECIFICATION VaultSpec
SYMMETRY MCVaultSymmetry
INVARIANTS
  VaultTypeOK
  EnvelopesOpen
  RowHasObject
  TrailIsTruthful
CHECK_DEADLOCK FALSE
