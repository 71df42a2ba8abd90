SPECIFICATION Spec
CONSTANTS
  Writers = {w1, w2}
  Readers = {r1}
  SizeBit = 1
  CopyFaults = TRUE
  TxErrors = TRUE
SYMMETRY CallerSymmetry
INVARIANTS TypeOK TxExclusive WholePacket RxBufferSteady
