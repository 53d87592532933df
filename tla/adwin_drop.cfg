CONSTANTS
  Patterns <- MCPatterns
  MaxLength = 120  MaxSwitches = 1
  MaxBuckets = 5
  Confidence = 2000
  MinN = 30  WarningLevel = 2  DriftLevel = 3
  PHDelta = 5  PHThreshold = 50000  PHAlpha = 9999
  None = none
SPECIFICATION Spec
INVARIANTS OlderIsDropped
CHECK_DEADLOCK FALSE
