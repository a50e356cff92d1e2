------------------------------ MODULE MCMobility ------------------------------
(***************************************************************************)
(* Mobility for TLC: the nodes are interchangeable, and so are the         *)
(* goroutines.                                                             *)
(***************************************************************************)
EXTENDS MobilityInv, TLC

Symmetry == Permutations(Handlers) \cup Permutations(Nodes)
=============================================================================
