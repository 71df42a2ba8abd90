SPECIFICATION Spec
CONSTANTS
  Drivers = {"pn", "assn_pn", "expt_dma", "assn_intr", "assn_char", "buggy"}
  Refused <- NotKmalloc
INVARIANTS LastFirst NothingLeft Grounded
