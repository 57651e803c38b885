CONSTANTS
  ann = ann
  ben = ben
  zoe = zoe
  main = main
  nil = nil
  Configs <- MCConfigs
  Names <- MCNames
  Others <- MCOthers
  Channels <- MCChannels
  MaxGens = 2
  Nil <- nil
SPECIFICATION FairSpec
INVARIANTS TypeOK OnlyUnderWay MuxAccountedFor
PROPERTIES CronsEnd
