SPECIFICATION Spec
CONSTANTS
  NUM_TX_DESC = 5
  IdxMod = 10
  MAX_SKB_FRAGS = 2
  Skbs = {s1, s2, s3, s4, s5}
  NULL = NULL
  LinkFlaps = FALSE
  Watchdog = TRUE
  SharedLine = TRUE
\* The finite set of buffers runs out when the double reset leaks them: the
\* stack then has nothing left to send.
CHECK_DEADLOCK FALSE
SYMMETRY SkbSymmetry
INVARIANTS TypeOK QueueAwakeHasRoom
