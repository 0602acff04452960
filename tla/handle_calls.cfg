SPECIFICATION FairSpec
CONSTANTS
  NoText = NoText
  Char <- MCChar
  InherentA = "a"
  NonJoiner = "zwnj"
  Joiner = "zwj"
  Lower <- MCLower
  Rank <- MCRank
  Symbols <- MCSymbols
  MlUnicode = TRUE
  IndicDigits = FALSE
  MaxPatterns = 3
  IntBits = 4
  Limit = 2
  MatchLimit = 2
  Inputs <- MCInputs
  Values <- MCValues
  LearnCalls <- MCLearnCalls
  LearnedElsewhere <- MCLearnedElsewhere
  Rules <- MCRules
  Exceptions <- MCExceptions
  PerFile = 2
  MaxCalls = 4
  MaxChanges = 1
  MaxFaults = 1
INVARIANTS
  TypeOK
  ResultStays
  LongestWordMatchBelowZ
  StemsByRules
  PatternsHaveWords
  PreferredIsLearned
  LowGoesFirst
  PatternsWithinLimit
  IndexOnlyWhileExporting
PROPERTIES
  LearnedIsOffered
  OffersOnce
  RoundTrip
  ExportWhole
  CallsReturn
CHECK_DEADLOCK FALSE
