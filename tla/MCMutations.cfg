SPECIFICATION Spec
CONSTANTS
  NULL = NULL
  Unset = Unset
  Fields <- MCFields
  Trees <- MCTrees
  Values <- MCValues
  Starts = {0}
  Rows <- MCRows
  Meaning <- MCMeaning
  Silences <- MCSilences
  Filters <- MCFilters
  Conds <- MCConds
  Sets <- MCSets
  Databases <- MCDatabases
  Requests <- MCRequests
  Form <- MCForm
  Wires <- MCWires
  Pieces <- MCPieces
  Absent = Absent
  Atoi <- MCAtoi
  ParseBool <- MCParseBool
INVARIANTS TypeOK QuerySaysWhatIsAsked
PROPERTIES StatementsTouchWhatIsMeant WholeTableNeedsConsent
