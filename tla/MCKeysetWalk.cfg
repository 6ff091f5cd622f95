SPECIFICATION WalkSpec
CONSTANTS
  NULL = NULL
  Vals <- MCVals
  Ids <- MCIds
  Orders <- MCOrders
  Databases <- MCDatabases
  Sizes <- MCSizes
  Totals <- MCTotals
  Snapshot = TRUE
  Absent = Absent
  Atoi <- MCAtoi
  ParseBool <- MCParseBool
  Queries <- MCQueries
  DefaultSize = 1
INVARIANTS NothingSkipped TotalCoversPage
PROPERTIES WalkEnds
