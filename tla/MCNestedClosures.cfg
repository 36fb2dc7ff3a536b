SPECIFICATION Spec
CONSTANTS
  MaxDepth = 4
  Escapes <- MCEscapes
  WordSize = 1000
  MaxParts = 3
  HashDigits = 2
  LongLongMax = 9999
  Symbols <- ClosureSymbols
  Documents <- NoDocuments
  Meanings <- MCMeanings
  Writings <- MCWritings
INVARIANT ClosuresReadBack
CHECK_DEADLOCK FALSE
