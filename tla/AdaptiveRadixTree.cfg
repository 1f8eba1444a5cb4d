SPECIFICATION Spec
CONSTANTS
  Bytes = {0, 1, 2, 3, 4, 5}
  Beyond = {0, 2}
  Keys <- FilterNames
  Probes <- Lookups
  Prefixed <- ListPrefixes
  ValuesOf <- OwnValues
  MAX_PREFIX_LEN = 2
  Capacity <- Sizes
  Shrink <- Few
  Existing <- Folders
  NULL = NULL
INVARIANTS
  TreesAreMaps
  IterMissesNone
  LeavesAreCounted
