CONSTANTS
  Events = {e1, e2, e3}
  Writers = {w1, w2}
  MaxTime = 3
  Null = null
SPECIFICATION ChainSpec
SYMMETRY MCChainSymmetry
INVARIANTS
  ChainTypeOK
  SerialChainVerifies
  LinksLeadBack
CHECK_DEADLOCK FALSE
