SPECIFICATION Spec
CONSTANTS
  None = None
  Country_JP = "JP"
  FewPatents = 2
  RARE_NAMES_FLOOR = 3
  RARE_NAMES_UNIQUE = 1
  RARE_NAMES_MAX = 6
  Limits = {1, 9}
  laplace_base = 1
  count_to_consider = 2
  MaxNodes = 100
  MaxStarts = 2
  EastAsian = {"KR"}
  Space = 0
  Dot = 9
  frequency_adjust_mode = TRUE
  BlockColumns <- MCBlockColumns
  Log <- MCLog
  Results <- MCResults
  MaxValue <- MCMax
  Jaro <- MCJaro
  Miles <- MCMiles
  Lists <- MCLists
  Columns <- MCColumns
  Group <- MCGroup
  RoundAttributes <- MCRounds
  Truncation <- MCTruncation
  PairsByPatent <- MCPairs
INVARIANTS NonMatchPairs MatchPairs TableServes FactorsIndependent SmoothedInOrder
  PriorsUsable RareFavoured
CHECK_DEADLOCK FALSE
