SPECIFICATION Spec
CONSTANTS
  NUM_RX_DESC = 3
  IdxMod = 6
  Budget = 2
  Frames = {f1}
  NULL = NULL
  Bad = Bad
  EarlyFrames = FALSE
  LinkFlaps = FALSE
  Watchdog = FALSE
  SlowTask = FALSE
  AllocFails = TRUE
  SharedLine = FALSE
INVARIANT NoLostEvent
