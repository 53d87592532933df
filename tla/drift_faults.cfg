CONSTANTS
  Required = 2
  MaxStreak = 3
  Limit = 3
  MinRows = 2
  CrashPoints <- AllSteps
  RaisePoints <- AllRaise
  StateLoss = TRUE
  NoShare = TRUE
  ShareKey = "measured"
SPECIFICATION Spec
INVARIANTS TypeOK OnePagePerEpisode RestartResumes AlertedIffLongStreak ReportsAgree OnlyTwoWaysUnpaged
