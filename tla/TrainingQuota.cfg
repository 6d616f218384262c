SPECIFICATION FairSpec
CONSTANTS
  NumBlocks = 3
  Quotas = {0, 3, 5, 6, 9}
  NullBlocks = {1}
  Modulus = 64
  Shapes <- MCShapes
INVARIANTS QuotaInv FreshPairs SecondShare
PROPERTIES Ends
CHECK_DEADLOCK FALSE
