SPECIFICATION Spec
CONSTANTS
  A = A
  B = B
  C = C
  Names <- MCNames
  Enums <- MCEnums
  Argument = A
  Databases <- MCDatabases
INVARIANT
  ValuesKept
CHECK_DEADLOCK FALSE
