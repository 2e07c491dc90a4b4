SPECIFICATION Spec
CONSTANTS
  Statement = {"main", "if"}
  Orelse = {"none", "else", "elseIf"}
  MaxNodes = 3
  MaxDepth = 5
INVARIANT IfChainDefined
