SPECIFICATION Spec
CONSTANTS
  Name <- NamesFX
  Position <- Positions
  ForPosition = "1!1"
  LiteralType = {"Bool", "Int"}
  DeclaredType = {"Int"}
  ParamList <- TwoParams
  Statement = {"let", "function", "extern", "return", "call", "while", "break", "collectionOverride", "main"}
  Operand = {"literal", "null", "collection", "use", "call"}
  MaxNodes = 5
  MaxDepth = 4
  MaxOperands = 3
INVARIANTS
  ParamsKeepTheirTypes
