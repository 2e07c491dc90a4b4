SPECIFICATION Spec
CONSTANTS
  Name <- NamesFX
  Position <- Positions
  ForPosition = "1!1"
  LiteralType = {"Bool"}
  DeclaredType = {}
  ParamList <- NoParams
  Statement = {"let", "function", "if", "while", "for", "break"}
  Operand = {"literal"}
  MaxNodes = 6
  MaxDepth = 4
  MaxOperands = 3
INVARIANTS
  TypeOK
  LoopDepthMatchesNesting
  ScopeSoundness
