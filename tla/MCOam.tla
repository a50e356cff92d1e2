---------------------------------- MODULE MCOam ----------------------------------
(***************************************************************************)
(* One row of each table.                                                  *)
(***************************************************************************)
EXTENDS OamInv, TLC
OneOfEach == {[table |-> t, id |-> 1] : t \in DOMAIN API}
Symmetric == Permutations(Workers)
==================================================================================
