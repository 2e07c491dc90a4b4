SPECIFICATION Spec
CONSTANTS
  Name <- NamesFX
  Position <- Positions
  ForPosition = "1!1"
  LiteralType = {"Bool"}
  DeclaredType = {"Int"}
  ParamList <- OneParam
  Statement = {"extern", "call"}
  Operand = {"literal"}
  MaxNodes = 3
  MaxDepth = 4
  MaxOperands = 2
INVARIANT ArityAsDeclared
