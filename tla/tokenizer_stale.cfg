SPECIFICATION Spec
CONSTANTS
  NoText = NoText
  Char <- MCChar
  InherentA = "a"
  NonJoiner = "zwnj"
  Joiner = "zwj"
  Lower <- MCLower
  Tables <- MCTables
  NewSymbols <- MCNewSymbols
  Texts <- MCTexts
  Ways <- ByPattern
  CacheSize = 100
  Concurrent = FALSE
  MaxRequests = 2
  MaxChanges = 1
  MaxFaults = 0
PROPERTIES
  LongestTokens
CHECK_DEADLOCK FALSE
