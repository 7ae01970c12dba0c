SPECIFICATION Spec
CONSTANTS
  Sql = {a, b}
  NoSql = NoSql
  Fails = Fails
  Loses = Loses
  MaxRows = 3
  DriverFails = TRUE
INVARIANT EachRowOnce
