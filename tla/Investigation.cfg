SPECIFICATION Spec
CHECK_DEADLOCK FALSE
CONSTANTS
  f1 = f1  f2 = f2  f3 = f3  f4 = f4
  Layout <- TwoDirectories
  Entries <- MCEntries
  Trees <- MCTrees
  MaxFiles = 3
  MaxMatches = 2
  ReadCap = 3
  DigestCap = 1
  MaxEdits = 1
INVARIANTS PassIsTrue HonestPasses NothingHiddenQuietly
