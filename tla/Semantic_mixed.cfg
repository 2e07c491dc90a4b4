SPECIFICATION Spec
CONSTANTS
  Name <- NamesX
  Position <- Positions
  ForPosition = "1!1"
  LiteralType = {"Bool"}
  DeclaredType = {}
  ParamList <- NoParams
  Statement = {"let"}
  Operand = {"literal", "collection"}
  MaxNodes = 3
  MaxDepth = 4
  MaxOperands = 2
INVARIANT ErrorsStopCompilation
