----------------------------- MODULE MCR8101Tx -----------------------------
(***************************************************************************)
(* Small instances of the transmit side: the ring, the index width and the *)
(* environment's events are chosen by each .cfg.                           *)
(***************************************************************************)
EXTENDS R8101Tx, TLC

\* The part of a behaviour before dirty_tx + NUM_TX_DESC first wraps round,
\* 2^32 - 1024 packets after the last reset of the indexes.
BeforeWrap == dirty_tx + NUM_TX_DESC < IdxMod

SkbSymmetry == Permutations(Skbs)

=============================================================================
