SPECIFICATION Spec
CONSTANTS
  NoText = NoText
  Char <- MCChar
  InherentA = "a"
  NonJoiner = "zwnj"
  Joiner = "zwj"
  Lower <- MCLower
  Tables <- MCTables
  NewSymbols <- MCNewSymbols
  Texts <- MCTexts
  Ways <- MCWays
  CacheSize = 4
  Concurrent = TRUE
  MaxRequests = 3
  MaxChanges = 1
  MaxFaults = 1
INVARIANTS
  TypeOK
  SegmentsCoverText
  TokensMatch
  TokensAlive
PROPERTIES
  LongestUntilChanged
CHECK_DEADLOCK FALSE
