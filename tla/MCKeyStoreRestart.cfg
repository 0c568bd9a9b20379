CONSTANTS
  Documents = {d1}
  Calls = {c1}
  MaxKeys = 2
  None = None
SPECIFICATION VaultSpec
INVARIANTS
  WrittenFileLoads
CHECK_DEADLOCK FALSE
