SPECIFICATION Spec
CONSTANTS
  h1 = h1
  h2 = h2
  rule = rule
  NoText = NoText
  Char <- MCChar
  InherentA = "a"
  NonJoiner = "zwnj"
  Joiner = "zwj"
  Row = {rule}
  Handle = {h1, h2}
  Creates <- MCCreates
  RowCalls <- MCRowCalls
  Configs <- MCConfigs
  Flushers = {h1, h2}
  FaultKinds = {"statement", "commit"}
  MaxCalls = 5
  MaxFaults = 1
INVARIANTS
  TypeOK
  BufferingMeansTransaction
  SymbolsUnique
  FlagsHaveReason
PROPERTIES
  FlagsPublished
  CreatedIsStored
  FileOnlyGrows
  BufferPublishedByFlush
CHECK_DEADLOCK FALSE
