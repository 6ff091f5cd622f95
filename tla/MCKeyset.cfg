SPECIFICATION Spec
CONSTANTS
  NULL = NULL
  Vals <- MCVals
  Ids <- MCIds
  Orders <- MCOrders
  Databases <- MCDatabases
  Sizes <- MCSizes
  Totals <- MCTotals
  Snapshot = FALSE
INVARIANTS TypeOK NothingSkipped ExhaustedMeansAllSeen WalkInv
PROPERTIES ImplementsPager NoPageDenied NoPageInvented
