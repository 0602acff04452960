SPECIFICATION Spec
CONSTANTS
  long = long
  pre = pre
  longDot = longDot
  dots = dots
  empty = empty
  l1 = l1
  l2 = l2
  p1 = p1
  p2 = p2
  tr = tr
  h1 = h1
  h2 = h2
  NoWord = NoWord
  NoPattern = NoPattern
  Handle = {h1, h2}
  Word <- MCWord
  Pattern <- MCPattern
  Empty = empty
  Plan <- MCPlan
  Importable <- MCImportable
  Sanitized <- MCSanitized
  Stems <- MCStems
  LearnCalls = {longDot}
  TrainCalls <- TrainPre
  LearnFiles <- TwoLines
  ImportFiles <- Exported
  BadImports = TRUE
  DeleteCalls = {pre}
  QueryCalls = {pre}
  FaultKinds = {"statement", "commit", "symbols", "autorollback"}
  MaxCalls = 3
  MaxFaults = 1
PROPERTIES
  LearnDurable
  AbandonedNeverPublished
  PublishedByCommit
CHECK_DEADLOCK FALSE
