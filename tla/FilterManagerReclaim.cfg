SPECIFICATION Spec
CONSTANTS
  Clients = {c1, c2}
  Names = {x}
  Wrappers = {w1, w2}
  Ops = {"peek", "create", "drop"}
  MaxVsn = 2
  Vacuum = Vacuum
  NULL = NULL
SYMMETRY Symmetry
INVARIANTS
  TypeOK
  NoUseAfterFree
  AltTreeUnshared
  DeltaNotNull
  LookupSeesAll
