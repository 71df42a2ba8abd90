----------------------------- MODULE MCExptDma -----------------------------
(***************************************************************************)
(* Small instances of the character driver: packets of at most two bytes   *)
(* (the length field then has a bit to spare), two or three writers.       *)
(***************************************************************************)
EXTENDS ExptDma, TLC

\* The hypothesis of the theorem on the types, at these sizes.
ASSUME LengthsOr == SizesClosed

CallerSymmetry == Permutations(Writers) \cup Permutations(Readers)

=============================================================================
