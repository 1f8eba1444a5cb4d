SPECIFICATION Spec
CONSTANTS
  max_page = 2
  PerByte = 2
  Flushers = {f, g}
  Locker = l
  IOErrors = TRUE
  MaxSets = 2
  MaxMaps = 4
INVARIANTS UnsavedIsMarked 
SYMMETRY Interchangeable
