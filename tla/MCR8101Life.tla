---------------------------- MODULE MCR8101Life ----------------------------
(***************************************************************************)
(* The instance of R8101Life for TLC: its constants are flags.             *)
(***************************************************************************)
EXTENDS R8101Life

=============================================================================
