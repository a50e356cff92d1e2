---------------------------- MODULE MCImsRegistration ----------------------------
(***************************************************************************)
(* Two users and a pool of two S-CSCFs.                                    *)
(***************************************************************************)
EXTENDS ImsRegistrationInv, TLC
CONSTANTS c1, c2
TwoCscfs == <<c1, c2>>
Symmetric == Permutations(Handlers) \cup Permutations(Users)
==================================================================================
