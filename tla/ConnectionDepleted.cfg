SPECIFICATION Spec
CONSTANTS
  INIT_CONN_BUF_SIZE = 4
  CONN_BUF_MULTIPLIER = 2
  UINT_MAX = 100
  IOV_MAX = 2
  Limits <- InOrOut
  Responses <- Short
INVARIANTS
  DepletedIsDirect
