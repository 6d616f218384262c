SPECIFICATION Spec
CONSTANTS
  NumBlocks = 2
  NumThreads = 2
  Skipped <- MCSkipped
  MaxCalls = 1
INVARIANT JoinsItsThread
