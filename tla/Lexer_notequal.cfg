SPECIFICATION Spec
CONSTANTS
  Source <- BangSources
  Letter = {"a", "t"}
  Digit = {"1"}
  Keyword <- Keywords
  Boolean <- Booleans
  EntryWord <- EntryA
  MaxOverread = 1
INVARIANT NotEqualIsOneToken
