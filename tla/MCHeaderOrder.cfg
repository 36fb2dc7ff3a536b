SPECIFICATION HeaderSpec
CONSTANTS
  A = A
  B = B
  C = C
  Names <- MCNames
  Enums <- MCEnums
  Argument = A
  Databases <- MCDatabases
  Order <- MCOrder
  Renderings <- MCRenderings
INVARIANTS
  PendingIsStack
  ByValueFinishedBefore
  PlainTypesExact
  DefinedBeforeUse
  NoCycleToBreak
PROPERTY
  MemoIsFinal
CHECK_DEADLOCK FALSE
