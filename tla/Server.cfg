SPECIFICATION FairSpec
CONSTANTS
  worker_threads = 2
  Threads = {0, 1, 2}
  MaxWaits = 2
  Background = {"flush"}
  Conns = {c1, c2}
  NULL = NULL
INVARIANTS
  NobodyAhead
  FreedIsUnreachable
  ManagerOutlivesUsers
PROPERTIES
  BarrierIsUsed
  StartupCompletes
  InactiveIsClosed
  SignalEnds
