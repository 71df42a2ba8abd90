SPECIFICATION Spec
CONSTANTS
  pool_size = 2
  Drained = TRUE
INVARIANTS OnePlace PacketsAccounted
PROPERTIES PoolRecovers
CHECK_DEADLOCK FALSE
