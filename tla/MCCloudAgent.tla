----------------------------- MODULE MCCloudAgent -----------------------------
(***************************************************************************)
(* Small instances of CloudAgent for TLC.                                  *)
(***************************************************************************)
EXTENDS CloudAgent, TLC

CONSTANTS t1, t2, c1, c2, c3

ClaimSymmetry == Permutations(Claims)

=============================================================================
