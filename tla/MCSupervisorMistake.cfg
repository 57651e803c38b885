CONSTANTS
  m1 = m1
  m2 = m2
  nil = nil
  Modems <- MCModems
  Nil <- nil
  Settings = {"kiss", "spi", "openhop"}
  SpiSettings = {"spi"}
  OpenhopSettings = {"openhop"}
  Files <- MCFiles
  PinMaps = {"shipped"}
  InitialRetry = 1
  MaxRetry = 3
SPECIFICATION Spec
PROPERTIES ConfigMistakeKeepsRunning
