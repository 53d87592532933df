CONSTANTS
  Loop = loop
  t1 = t1  t2 = t2
  u = u
  f = f  g = g
  Threads = {t1, t2}
  Entity = {u}
  Feature = {f, g}
  Specs <- MCSpecs
  Batches <- MCBatches
  NullPercent = 50
  DayLength = 2
  Null = null
  None = none
  MaxCalls = 4  MaxCrashes = 1
SPECIFICATION Spec
SYMMETRY ThreadsAlike
INVARIANTS TypeOK NothingRunsAhead RegistryWhole ServedIsNewest MaterializeRepairs TrainingIsPast
PROPERTIES AcceptedFitsASpec
CHECK_DEADLOCK FALSE
