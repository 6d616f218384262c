SPECIFICATION FairSpec
CONSTANTS
  NumRecords = 3
  NumRounds = 2
  MaxStarts = 2
  Names <- MCNames
  Length <- MCLength
  CsvMiddle <- MCMiddle
  CsvCoauthors <- MCCoauthors
  Lastname <- MCLastname
  Presort <- MCPresort
  BlockKey <- MCBlockKey
  MiddleRounds <- MCMiddleRounds
INVARIANTS WholeIsPartition AlwaysConsistent SourceSurvives RestartAgrees RoundsOnlyMerge
PROPERTIES RunEnds
