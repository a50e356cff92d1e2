------------------------------ MODULE MCEquipment -------------------------------
(***************************************************************************)
(* Two handlers and two equipments of one subscriber.  The digits of the   *)
(* first IMEI begin the second, an IMEISV, so that a rule with the first   *)
(* matches both as an expression; only the second has both prefixes in the *)
(* table of device types.                                                  *)
(***************************************************************************)
EXTENDS EquipmentInv, TLC

CONSTANTS h1, h2, i1, i2, u1, t6, t8, A, B

MCMatchedBy == (i1 :> {i1, i2}) @@ (i2 :> {i2})
MCTac8      == (i1 :> None) @@ (i2 :> t8)
MCTac6      == (i1 :> t6) @@ (i2 :> t6)
Symmetry    == Permutations(Handlers)
=================================================================================
