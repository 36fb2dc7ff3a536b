SPECIFICATION RenderSpec
CONSTANTS
  MaxSize = 4
  TypeLists <- MCTypeLists
  Libraries <- MCLibraries
  NameLimit = 4
  Word = 2
INVARIANTS
  SizesExact
  MembersInPlace
  OpaqueIsIrregular
  CNamesDistinct
  MergedAreAlike
CHECK_DEADLOCK FALSE
