CONSTANTS
  Stream = Stream
  NoRow = NoRow
  Tx <- FiveTx
  User <- TwoUsers
  Device <- TwoDevices
  UserOf <- Owner
  DeviceOf <- Origin
  Http <- OneRequest
  Body <- AnnPosts
  Log <- AnnStreamsOne
  Faults <- LiveFaults
  MaxPoll = 1
  MaxConn = 1
  MaxCrashes = 1
  HistoryLen = 1
  MaxEvictions = 1
SPECIFICATION Spec
PROPERTIES EveryRequestAnswered EveryRecordAttempted
