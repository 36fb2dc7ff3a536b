SPECIFICATION Spec
CONSTANTS
  Commits = {h1, h2}
  Releases = {v1, v2}
  None = None
  MaxStrings = 2
  MaxLines = 2
  Names = {x1, x2}
  Candidates = 3
  MaxEntries = 2
  Searches <- MCSearches
  ProbeLimit = 3
  MaxMatches = 5
INVARIANTS
  StringsDecide
  NulloptIffDisjoint
  SharesMostIfListedOnce
  BestOfCounted
  PeakInReachFound
  AnswerIsListed
CHECK_DEADLOCK FALSE
