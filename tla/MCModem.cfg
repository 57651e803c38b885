CONSTANTS
  probe = probe
  status = status
  nil = nil
  Pollers <- MCPollers
  Limit = 1
  Backlog = 3
  Nil <- nil
SPECIFICATION FairSpec
INVARIANTS TypeOK NothingLeftOpen SilentShowsNothing CountersAreOwn
PROPERTIES PollsReturn
