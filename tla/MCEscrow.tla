------------------------------ MODULE MCEscrow ------------------------------
(***************************************************************************)
(* The escrow on a small instance.                                         *)
(***************************************************************************)
EXTENDS Escrow, TLC

Symmetry == Permutations(Keys)
=============================================================================
