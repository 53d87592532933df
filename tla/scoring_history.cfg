CONSTANTS
  Stream = Stream
  NoRow = NoRow
  Tx <- FiveTx
  User <- TwoUsers
  Device <- TwoDevices
  UserOf <- Owner
  DeviceOf <- Origin
  Http <- OneRequest
  Body <- BobPosts
  Log <- BothStream
  Faults <- HistoryFaults
  MaxPoll = 1
  MaxConn = 2
  MaxCrashes = 0
  HistoryLen = 2
  MaxEvictions = 1
SPECIFICATION Spec
INVARIANTS DevicesCoverAmounts NeverSeesItself NoSkew
