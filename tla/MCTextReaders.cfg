SPECIFICATION Spec
CONSTANTS
  MaxDepth = 3
  Escapes <- MCEscapes
  WordSize = 1000
  MaxParts = 3
  HashDigits = 2
  LongLongMax = 9999
  Symbols <- MCSymbols
  Documents <- MCDocuments
  Meanings <- MCMeanings
  Writings <- MCWritings
INVARIANTS
  NestingBounded
  SymbolsReadBack
  NormalizedIsPlain
  WrittenIsRead
  ReadIsWritten
PROPERTIES
  EveryTextAnswered
CHECK_DEADLOCK FALSE
