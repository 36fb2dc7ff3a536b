SPECIFICATION MCSpec
CONSTANTS
  a3 = a3
  a2 = a2
  b3 = b3
  v1 = v1
  v2 = v2
  Procs = {p1, p2}
  First = p1
  Versions = {v1}
  Files <- MCFiles
  FilesOf <- MCFilesOf
  AllFiles <- MCAllFiles
  Shipped <- MCShipped
  Chunks = 2
  Faults = {"open", "write", "read", "flush", "plan", "crash"}
  MaxSessions = 2
INVARIANTS
  CopiedIsWhole
  DetectedIsWhole
  WholeWhenQuiet
PROPERTIES
  StagingEnds
CHECK_DEADLOCK FALSE
