SPECIFICATION Spec
CONSTANTS
  users = users
  orders = orders
  handle0 = handle0
  nil = nil
  nofile = nofile
  Name <- MCNames
  Body <- MCBodies
  Types <- MCTypes
  TypeName <- MCTypeName
  Layout <- MCLayout
  Handle <- handle0
  Unsuited <- MCUnsuited
  Programs <- MCPrograms
  Nil <- nil
  NoFile <- nofile
INVARIANTS
  RegistryTrue
  BoundTrue
  SettledRuns
PROPERTIES
  SetsApart
