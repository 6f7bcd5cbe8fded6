SPECIFICATION Spec
CONSTANTS
  ChunkSize = 4
  Overlap = 1
  Text <- MCText
  Word <- MCWord
  Policy <- MCPolicy
  Score <- MCScore
  Scan = {s1, s2}
  MaxAge = 1
  MaxEntries = 1
  Timeout = 1
  MaxTime = 3
SYMMETRY Symmetry
INVARIANTS
  TypeOK
  SkippedFresh
  FoundWhole
  SpansExact
CHECK_DEADLOCK FALSE
