SPECIFICATION Spec
CONSTANTS
  Name <- NamesFX
  Position <- Positions
  ForPosition = "1!1"
  LiteralType = {"Int", "Bool"}
  DeclaredType = {"Float"}
  ParamList <- NoParams
  Statement = {"let", "extern", "call", "if"}
  Operand = {"literal", "use", "call"}
  MaxNodes = 8
  MaxDepth = 3
  MaxOperands = 3
INVARIANTS
  StaleReadsAreLoose
PROPERTIES
  SymbolsAreStable
