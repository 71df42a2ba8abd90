---------------------------- MODULE MCSnullPool ----------------------------
(***************************************************************************)
(* The instance of SnullPool for TLC: its constants are numbers and flags. *)
(***************************************************************************)
EXTENDS SnullPool

=============================================================================
