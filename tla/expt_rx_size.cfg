SPECIFICATION Spec
CONSTANTS
  Writers = {w1}
  Readers = {r1}
  SizeBit = 1
  CopyFaults = FALSE
  TxErrors = FALSE
INVARIANT RxDescFits
