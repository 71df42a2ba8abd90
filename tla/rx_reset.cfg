SPECIFICATION FairSpec
CONSTANTS
  NUM_RX_DESC = 3
  IdxMod = 6
  Budget = 2
  Frames = {f1, f2}
  NULL = NULL
  Bad = Bad
  EarlyFrames = FALSE
  LinkFlaps = FALSE
  Watchdog = TRUE
  SlowTask = FALSE
  AllocFails = TRUE
  SharedLine = TRUE
INVARIANTS TypeOK RxAlone NoNullSkb HolesInWindow NextToProcess
PROPERTIES ImplementsFifo EveryFrameTaken ShortageEnds
