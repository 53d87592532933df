CONSTANTS
  l1 = l1  l2 = l2
  p1 = p1  p2 = p2
  Loggers = {l1, l2}
  Pollers = {p1, p2}
  Columns <- OneColumn
  Kinds <- OneKind
  References = {"near"}
  DataTest <- MCDataTest
  PredictionTest <- MCPredictionTest
  ConceptTest <- MCConceptTest
  DriftThreshold = 5
  SeverityThreshold = "WARNING"
  WindowSize = 1
  Cooldown = 2
  None = none
  MaxLogs = 3  MaxTime = 2  MaxFailures = 1  MaxCrashes = 1  MaxReports = 0
SPECIFICATION Spec
SYMMETRY Alike
INVARIANTS TypeOK WindowIsTail CooldownHolds SilenceIsExplained
CHECK_DEADLOCK FALSE
