CONSTANTS
  l1 = l1
  l2 = l2
  c1 = c1
  c2 = c2
  c3 = c3
  nil = nil
  Loops <- MCLoops
  Clients <- MCClients
  Nil <- nil
  QueueDepth = 1
  AuthTypes = {"token"}
SPECIFICATION Spec
INVARIANTS AttendedAfterRefresh
SYMMETRY MCSymmetry
