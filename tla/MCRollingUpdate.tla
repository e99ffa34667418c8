---------------------------- MODULE MCRollingUpdate ---------------------------
(***************************************************************************)
(* A small instance of RollingUpdate for TLC.                              *)
(***************************************************************************)
EXTENDS RollingUpdate, TLC

ClaimSymmetry == Permutations(Claims)

=============================================================================
