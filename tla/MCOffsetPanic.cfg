SPECIFICATION ServerSpec
CONSTANTS
  Nil = Nil
  MaxInt = 7
  Rows <- MCRows
  Numbers <- MCNumbers
  Database = "postgres"
  Isolation <- MCNone
  ReuseDest = FALSE
  Absent = Absent
  Atoi <- MCAtoi
  ParseBool <- MCParseBool
  Queries <- MCQueries
  MaxHeld = 3
INVARIANTS RequestsDoNotPanic
