SPECIFICATION Spec
CONSTANTS
  Name <- NamesFG
  Position <- Positions
  ForPosition = "1!1"
  LiteralType = {"Bool", "Int"}
  DeclaredType = {}
  ParamList <- NoParams
  Statement = {"function", "return", "if", "while", "for"}
  Operand = {"literal", "use"}
  MaxNodes = 6
  MaxDepth = 4
  MaxOperands = 3
INVARIANTS
  SignatureDrift
