SPECIFICATION FairSpec
CONSTANTS
  Clients = {c1}
  Names = {x}
  Wrappers = {w1, w2}
  Ops = {"keys", "peek", "unmap", "create", "drop", "clear", "list", "cold"}
  MaxVsn = 1
  Vacuum = Vacuum
  NULL = NULL
PROPERTIES
  DoomedIsReclaimed
  VacuumSettles
  ShutdownCompletes
