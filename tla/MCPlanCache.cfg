SPECIFICATION FairSpec
CONSTANTS
  Types <- MCTypes
  Fields <- MCFields
  Roots <- MCRoots
  Callers <- MCCallers
  MaxDepth = 4
INVARIANTS TypeOK CacheIsSound ExistsKeptFirst RepliesFit
PROPERTIES CallsReturn
