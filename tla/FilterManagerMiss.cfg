SPECIFICATION Spec
CONSTANTS
  Clients = {c1}
  Names = {x, y}
  Wrappers = {w1, w2}
  Ops = {"peek", "create"}
  MaxVsn = 2
  Vacuum = Vacuum
  NULL = NULL
SYMMETRY Symmetry
INVARIANTS
  MissMeansAbsent
