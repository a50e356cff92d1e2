----------------------------- MODULE MCSmsWaiting -----------------------------
(***************************************************************************)
(* SmsWaiting for TLC: the SMS-SCs are interchangeable, and so are the     *)
(* goroutines.                                                             *)
(***************************************************************************)
EXTENDS SmsWaitingInv, TLC

Symmetry == Permutations(Handlers) \cup Permutations(Centres)
=============================================================================
