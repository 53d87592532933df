CONSTANTS
  Required = 2
  MaxStreak = 3
  Limit = 3
  MinRows = 2
  CrashPoints <- AfterTheMessage
  RaisePoints <- AtTheEnd
  StateLoss = FALSE
  NoShare = FALSE
  ShareKey = "measured"
SPECIFICATION Spec
PROPERTIES KeepsPromise DriftIsPaged CalmRearms
