SPECIFICATION FairSpec
CONSTANTS
  NumBlocks = 3
  NumThreads = 2
  Skipped <- MCSkipped
  MaxCalls = 2
INVARIANTS PoolInv OnceEach ReturnSafe AllHandled ReportExact
PROPERTIES ImplementsDispatch CallReturns
