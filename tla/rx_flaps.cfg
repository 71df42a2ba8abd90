SPECIFICATION Spec
CONSTANTS
  NUM_RX_DESC = 3
  IdxMod = 6
  Budget = 2
  Frames = {f1}
  NULL = NULL
  Bad = Bad
  EarlyFrames = TRUE
  LinkFlaps = TRUE
  Watchdog = FALSE
  SlowTask = FALSE
  AllocFails = TRUE
  SharedLine = TRUE
INVARIANT OwnHasBuffer
