SPECIFICATION Spec
CONSTANTS
  NULL = NULL
  Fields = {"a", "b"}
  Trees <- MCTrees
  Values <- MCValues
  Conds <- MCConds
  Seeks <- MCSeeks
  Searches <- MCSearches
  Columns <- MCColumns
  Specs <- MCSpecs
  Windows <- MCWindows
  MaxTerms = 3
INVARIANTS ArgumentsReachTheirPlaceholders OrderIsAsked
