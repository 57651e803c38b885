CONSTANTS
  p1 = p1
  p2 = p2
  b1 = b1
  b2 = b2
  nil = nil
  Packets <- MCPackets
  Direct <- MCDirect
  Brokers <- MCBrokers
  Allowed <- MCAllowed
  Dedups <- MCDedups
  QueueDepth = 1
  MaxRx = 2
  MaxTx = 1
  Nil <- nil
SPECIFICATION FairSpec
INVARIANTS TypeOK EveryDirectionOffered Reconciles
PROPERTIES RxNeverBlocked
