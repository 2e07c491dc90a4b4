SPECIFICATION Spec
CONSTANTS
  Statement = {"function", "main", "topLevel", "null", "let", "letOnly", "bodyless", "other", "return", "break", "if", "for", "while"}
  Orelse = {"none", "else", "elseIf"}
  MaxNodes = 8
  MaxDepth = 5
INVARIANTS
  TypeOK
  NoStringForgotten
  
  OneScopeOnly
