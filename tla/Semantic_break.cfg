SPECIFICATION Spec
CONSTANTS
  Name <- NamesFX
  Position <- Positions
  ForPosition = "1!1"
  LiteralType = {"Bool"}
  DeclaredType = {}
  ParamList <- NoParams
  Statement = {"function", "while", "for", "break"}
  Operand = {"literal"}
  MaxNodes = 4
  MaxDepth = 4
  MaxOperands = 2
INVARIANT StrayBreaksReported
