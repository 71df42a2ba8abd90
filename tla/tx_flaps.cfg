SPECIFICATION Spec
CONSTANTS
  NUM_TX_DESC = 5
  IdxMod = 20
  MAX_SKB_FRAGS = 2
  Skbs = {s1, s2, s3, s4, s5}
  NULL = NULL
  LinkFlaps = TRUE
  Watchdog = FALSE
  SharedLine = TRUE
CONSTRAINT BeforeWrap
SYMMETRY SkbSymmetry
INVARIANTS BuffersAccounted DmaFromLiveBuffer DescMatchesInfo
