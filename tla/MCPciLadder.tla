---------------------------- MODULE MCPciLadder ----------------------------
(***************************************************************************)
(* The instance of PciLadder for TLC.                                      *)
(***************************************************************************)
EXTENDS PciLadder

\* Everything a probe asks for but the two packet buffers of kmalloc.
NotKmalloc ==
  {"device", "mwi", "regions", "regs", "dma_mask", "msi", "netdev", "interface",
   "desc_tx", "desc_rx", "irq", "chrdev", "cdev", "class", "node"}

=============================================================================
