SPECIFICATION Spec
CONSTANTS
  Clients = {c1, c2}
  Names = {x}
  Wrappers = {w1, w2}
  Ops = {"create", "drop"}
  MaxVsn = 3
  Vacuum = Vacuum
  NULL = NULL
SYMMETRY Symmetry
INVARIANTS
  TreesReplayDeltas
  DestroyClosesAllOnce
PROPERTIES
  ImplementsRegistry
  DropIsPermanent
