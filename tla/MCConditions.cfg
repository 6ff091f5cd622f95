SPECIFICATION PassSpec
CONSTANTS
  NULL = NULL
  Fields = {"a"}
  Trees <- MCTrees
  Values <- MCValues
  Starts <- MCStarts
  Rows <- MCRows
  Meaning <- MCMeaning
INVARIANTS TextMeansTree ClausesBindInOrder PlaceholdersFollowArguments TextReadsAsTree
CHECK_DEADLOCK FALSE
