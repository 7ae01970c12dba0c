SPECIFICATION Spec
CONSTANTS
  Input <- Texts
  Main = "main"
INVARIANTS TokensInOrder Closed ScopeRespected
PROPERTY Terminates
