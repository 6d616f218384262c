SPECIFICATION Spec
CONSTANTS
  NumBlocks = 3
  Quotas = {3}
  NullBlocks = {1}
  Modulus = 64
  Shapes <- MCShapes
INVARIANTS FillsQuota
CHECK_DEADLOCK FALSE
