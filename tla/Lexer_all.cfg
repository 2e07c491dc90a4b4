SPECIFICATION Spec
CONSTANTS
  Source <- AllSources
  Letter = {"a", "t"}
  Digit = {"1"}
  Keyword <- Keywords
  Boolean <- Booleans
  EntryWord <- EntryA
  MaxOverread = 1
INVARIANTS
  TypeOK
  WordsAreRuns
  NothingLost
  WordLocsIncrease
  LineDrift
  ReadsInBounds
PROPERTIES
  Terminates
