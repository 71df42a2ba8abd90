SPECIFICATION FairSpec
CONSTANTS
  NUM_TX_DESC = 4
  IdxMod = 8
  MAX_SKB_FRAGS = 1
  Skbs = {s1, s2, s3, s4}
  NULL = NULL
  LinkFlaps = FALSE
  Watchdog = FALSE
  SharedLine = FALSE
INVARIANTS BuffersFillWindow NicInWindow
PROPERTIES ImplementsFifo EveryBufferFreed QueueWakes
