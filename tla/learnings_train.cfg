SPECIFICATION Spec
CONSTANTS
  long = long
  pre = pre
  longDot = longDot
  dots = dots
  empty = empty
  l1 = l1
  l2 = l2
  p1 = p1
  p2 = p2
  tr = tr
  h1 = h1
  h2 = h2
  NoWord = NoWord
  NoPattern = NoPattern
  Handle = {h1}
  Word <- MCWord
  Pattern <- MCPattern
  Empty = empty
  Plan <- MCPlan
  Importable <- MCImportable
  Sanitized <- MCSanitized
  Stems <- MCStems
  LearnCalls = {}
  TrainCalls <- TrainDotted
  LearnFiles <- NoFiles
  ImportFiles <- NoFiles
  BadImports = FALSE
  DeleteCalls = {}
  QueryCalls = {}
  FaultKinds = {}
  MaxCalls = 2
  MaxFaults = 0
PROPERTIES
  TrainAssociatesPattern
CHECK_DEADLOCK FALSE
