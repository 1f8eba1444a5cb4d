SPECIFICATION Spec
CONSTANTS
  k1 = k1
  k2 = k2
  k3 = k3
  Keys = {k1, k2, k3}
  hashes <- Hash3
  k_num = 2
  offset <- Offsets
  initial_capacity = 1
  default_capacity = 2
  scale_size = 2
  Readers = {r}
  Locker = l
  Settings <- Both
  MaxFilters = 4
  MaxAddresses = 2
INVARIANTS
  NoFalseNegatives
  CapacitiesHold
  ProxiedSizeIsTrue
  OnlyNewestUnloadable
  DirtyCoversUnsaved
  FlushIsDurable
