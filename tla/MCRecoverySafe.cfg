SPECIFICATION Spec
CONSTANTS
  generic = generic
  abort = abort
  s1 = s1
  s2 = s2
  s3 = s3
  NoSig = NoSig
  Funcs <- MCFuncs
  Names <- MCNames
  NoReturns <- MCNoReturns
  Sigs <- MCSigs
  ArgCount <- MCArgCount
  Parsable <- MCParsable
  Databases <- MCDatabases
  NoDatabase = NoDatabase
  MaxPasses = 2
INVARIANT
  ProvablySafe
CHECK_DEADLOCK FALSE
