CONSTANTS
  m1 = m1
  m2 = m2
  nil = nil
  Modems <- MCModems
  Nil <- nil
  Settings = {"kiss"}
  SpiSettings = {}
  OpenhopSettings = {}
  Files <- MCFilesLive
  PinMaps = {"shipped"}
  InitialRetry = 1
  MaxRetry = 2
SPECIFICATION FairSpec
PROPERTIES HupServed ShutdownCompletes RadioRecovers
