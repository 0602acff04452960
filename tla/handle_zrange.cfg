SPECIFICATION Spec
CONSTANTS
  NoText = NoText
  Char <- MCChar
  InherentA = "a"
  NonJoiner = "zwnj"
  Joiner = "zwj"
  Lower <- MCLower
  Rank <- MCRank
  Symbols <- ZSymbols
  MlUnicode = TRUE
  IndicDigits = FALSE
  MaxPatterns = 3
  IntBits = 4
  Limit = 2
  MatchLimit = 2
  Inputs <- ZInputs
  Values <- MCValues
  LearnCalls <- ZLearnCalls
  LearnedElsewhere <- MCLearnedElsewhere
  Rules <- MCRules
  Exceptions <- MCExceptions
  PerFile = 2
  MaxCalls = 3
  MaxChanges = 0
  MaxFaults = 0
INVARIANT LongestWordMatch
CHECK_DEADLOCK FALSE
