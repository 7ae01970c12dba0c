SPECIFICATION Spec
CONSTANTS
  a = a
  b = b
  Name <- Names
  NoName = NoName
  Input <- Conditions
INVARIANT OptionsApart
