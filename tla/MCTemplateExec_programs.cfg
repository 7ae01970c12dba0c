SPECIFICATION Spec
CONSTANTS
  Nodes <- MCNodes
  Pipes <- MCPipes
  Program <- MCProgram
  Data <- MCData
  Parts <- MCParts
  MissingKey = {"invalid", "zero", "error"}
  FieldName <- MCFieldName
  maxExecDepth = 2
INVARIANTS
  ScopeRespected
  PlaceholdersMatch
  InterpolatedInPlace
PROPERTIES
  SeparatorsAlternate
  LoopVariables
