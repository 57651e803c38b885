CONSTANTS
  l1 = l1
  l2 = l2
  c1 = c1
  c2 = c2
  c3 = c3
  nil = nil
  Loops <- MCLoops
  Clients <- MCTwoClients
  Nil <- nil
  QueueDepth = 1
  AuthTypes = {"token", "basic"}
SPECIFICATION FairSpec
CONSTRAINT MCTokenRuns
PROPERTIES StopCompletes StatusKeepsComing TokenReconnects
