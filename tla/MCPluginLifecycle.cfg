SPECIFICATION Spec
CONSTANTS
  vDb = vDb
  vOther = vOther
  None = None
  Versions <- MCVersions
  DbVersions <- MCDbVersions
  Binaries <- MCBinaries
  MaxEdits = 1
  MaxRuns = 2
INVARIANTS
  AutomaticPassIsFirst
  PlannedSignaturesApplied
  VersionOfThisDatabase
  FallbackPinned
PROPERTIES
  ImplementsSession
  EveryDatabaseRecovered
