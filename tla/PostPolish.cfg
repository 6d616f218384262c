SPECIFICATION FairSpec
CONSTANTS
  NumRecords = 6
  Records <- MCRecords
  Columns <- MCColumns
  AttributeOf <- MCAttributeOf
  Patent <- MCPatent
  Country <- MCCountry
  Alike <- MCAlike
  Files <- MCFiles
INVARIANTS PolishInv CompleteIsPolished PolishIsFixpoint
PROPERTIES PolishMerges Ends
