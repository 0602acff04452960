SPECIFICATION Spec
CONSTANTS
  long = long
  pre = pre
  longDot = longDot
  dots = dots
  empty = empty
  l1 = l1
  l2 = l2
  p1 = p1
  p2 = p2
  tr = tr
  h1 = h1
  h2 = h2
  NoWord = NoWord
  NoPattern = NoPattern
  Handle = {h1}
  Word <- MCWord
  Pattern <- MCPattern
  Empty = empty
  Plan <- MCPlan
  Importable <- MCImportable
  Sanitized <- MCSanitized
  Stems <- MCStems
  LearnCalls = {}
  TrainCalls <- NoCalls
  LearnFiles <- NoFiles
  ImportFiles <- WithInvalid
  BadImports = FALSE
  DeleteCalls = {}
  QueryCalls = {}
  FaultKinds = {}
  MaxCalls = 1
  MaxFaults = 0
INVARIANTS
  StoredWordsAreLearnable
CHECK_DEADLOCK FALSE
