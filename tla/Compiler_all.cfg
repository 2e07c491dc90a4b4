SPECIFICATION CompilerSpec
CONSTANTS
  Token <- AllKinds
  MaxDepth = 5
INVARIANTS
  TypeOK
  NullsAreReported
  IterationsAdvance
  OverreadsAtEnd
  CrashesExplained
  AnalyserCrashesExplained
  BackEndCrashesExplained
PROPERTIES
  CompiledBracketsMatch
  EndsWithInput
