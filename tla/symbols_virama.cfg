SPECIFICATION Spec
CONSTANTS
  h1 = h1
  h2 = h2
  rule = rule
  NoText = NoText
  Char <- MCChar
  InherentA = "a"
  NonJoiner = "zwnj"
  Joiner = "zwj"
  Row = {rule}
  Handle = {h1}
  Creates <- OneCreates
  RowCalls <- MCRowCalls
  Configs <- StrictConfigs
  Flushers = {h1}
  FaultKinds = {}
  MaxCalls = 4
  MaxFaults = 0
INVARIANTS
  DeadConsonantsFollowVirama
CHECK_DEADLOCK FALSE
