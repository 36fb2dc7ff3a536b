SPECIFICATION SafetySpec
CONSTANTS
  a3 = a3
  a2 = a2
  b3 = b3
  v1 = v1
  v2 = v2
  Procs = {p1}
  First = p1
  Versions = {v1, v2}
  Files <- MCFiles
  FilesOf <- MCFilesOf
  AllFiles <- MCAllFiles
  Shipped <- MCShipped
  Chunks = 2
  Faults = {"write"}
  MaxSessions = 3
INVARIANT
  FallbackIsWhole
