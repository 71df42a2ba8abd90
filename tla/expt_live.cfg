SPECIFICATION FairSpec
CONSTANTS
  Writers = {w1, w2}
  Readers = {r1}
  SizeBit = 0
  CopyFaults = FALSE
  TxErrors = FALSE
INVARIANT BusyCounts
PROPERTIES TxEnds RxGoesOn
