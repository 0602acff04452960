SPECIFICATION Spec
CONSTANTS
  long = long
  pre = pre
  longDot = longDot
  dots = dots
  empty = empty
  l1 = l1
  l2 = l2
  p1 = p1
  p2 = p2
  tr = tr
  h1 = h1
  h2 = h2
  NoWord = NoWord
  NoPattern = NoPattern
  Handle = {h1}
  Word <- MCWord
  Pattern <- MCPattern
  Empty = empty
  Plan <- MCPlan
  Importable <- MCImportable
  Sanitized <- MCSanitized
  Stems <- MCStems
  LearnCalls = {long, pre}
  TrainCalls <- NoCalls
  LearnFiles <- NoFiles
  ImportFiles <- NoFiles
  BadImports = FALSE
  DeleteCalls = {long, pre}
  QueryCalls = {long, pre}
  FaultKinds = {}
  MaxCalls = 3
  MaxFaults = 0
INVARIANTS
  KnownWordIsStored
CHECK_DEADLOCK FALSE
