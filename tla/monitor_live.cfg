CONSTANTS
  l1 = l1  l2 = l2
  p1 = p1  p2 = p2
  Loggers = {l1}
  Pollers = {p1}
  Columns <- TwoColumns
  Kinds <- AllKinds
  References = {"near", "far"}
  DataTest <- MCDataTest
  PredictionTest <- MCPredictionTest
  ConceptTest <- MCConceptTest
  DriftThreshold = 5
  SeverityThreshold = "WARNING"
  WindowSize = 1
  Cooldown = 2
  None = none
  MaxLogs = 2  MaxTime = 3  MaxFailures = 1  MaxCrashes = 1  MaxReports = 1
SPECIFICATION Spec
PROPERTIES PersistentDriftIsAlerted
CHECK_DEADLOCK FALSE
