----------------------------- MODULE MCR8101Rx -----------------------------
(***************************************************************************)
(* Small instances of the receive side: the ring, the budget and the       *)
(* environment's events are chosen by each .cfg.                           *)
(***************************************************************************)
EXTENDS R8101Rx

=============================================================================
