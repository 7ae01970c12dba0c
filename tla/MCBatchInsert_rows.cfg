SPECIFICATION FairSpec
CONSTANTS
  Sql = {a, b}
  NoSql = NoSql
  Fails = Fails
  Loses = Loses
  MaxRows = 3
  DriverFails = TRUE
INVARIANTS RowMatchesStmt Released
PROPERTIES Terminates Contract
