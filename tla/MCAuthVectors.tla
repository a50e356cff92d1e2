---------------------------- MODULE MCAuthVectors ----------------------------
(***************************************************************************)
(* AuthVectors for TLC: which requests arrive in each run.                 *)
(***************************************************************************)
EXTENDS AuthVectorsInv, TLC

Symmetry == Permutations(Handlers)
=============================================================================
