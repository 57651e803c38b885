CONSTANTS
  k1 = k1
  k2 = k2
  b1 = b1
  b2 = b2
  nil = nil
  torn = torn
  Documents <- MCDocuments
  Remnants <- MCRemnants
  Brokers <- MCBrokers
  Keys <- MCKeys
  LastSecond = 2
  Nil <- nil
  Torn <- torn
SPECIFICATION Spec
INVARIANTS TypeOK ConfigKept NoBrokerDropped IdentityKept
SYMMETRY MCSymmetry
