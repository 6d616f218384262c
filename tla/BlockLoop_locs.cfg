SPECIFICATION LoopSpec
CONSTANTS
  NumClusters = 4
  NumThresholds = 1
  MaxRounds = 5
  Records <- MCRecords
  Start <- MCStart
  Places <- MCPlaces
  Locations <- MCLocations
INVARIANT LocationsKnown
