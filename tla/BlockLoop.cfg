SPECIFICATION FairLoop
CONSTANTS
  NumClusters = 5
  NumThresholds = 2
  MaxRounds = 3
  Records <- MCRecords
  Start <- MCStart
  Places <- MCPlaces
  Locations <- MCLocations
INVARIANTS SuccessIsFixpoint EveryPassMerged BlockInv
PROPERTIES ImplementsMerging Ends
