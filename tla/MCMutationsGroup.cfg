SPECIFICATION Spec
CONSTANTS
  NULL = NULL
  Unset = Unset
  Fields <- MCFields
  Trees <- MCTrees
  Values <- MCValues
  Starts = {0}
  Rows <- MCRows
  Meaning <- MCMeaning
  Silences <- MCSilences
  Filters <- BadGroup
  Conds <- NoneOfThem
  Sets <- MCSets
  Databases <- MCDatabases
  Requests <- NoneOfThem
  Form <- MCForm
  Wires <- MCWires
  Pieces <- MCPieces
  Absent = Absent
  Atoi <- MCAtoi
  ParseBool <- MCParseBool
PROPERTIES BadFilterIsRefused
