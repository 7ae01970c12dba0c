SPECIFICATION Spec
CONSTANTS
  a = a
  b = b
  Name <- Names
  NoName = NoName
  Input <- Statements
INVARIANTS TypeOK InOrder NothingLost MarkNamesWord FieldsGuarded SlotsMatchColumns
