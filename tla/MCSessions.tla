-------------------------------- MODULE MCSessions -------------------------------
(***************************************************************************)
(* A provisioned subscriber "a" with sessions g1 and g2 on the IMS APN (a  *)
(* re-attach without termination), g4 on an APN that is not configured and *)
(* two calls, and an unprovisioned UE "e" with one session; the PDU        *)
(* sessions 0, 1 and 2 of a subscriber.                                    *)
(***************************************************************************)
EXTENDS SessionsInv
CONSTANTS g1, g2, g3, g4, x1, x2
Imsis      == (g1 :> "a") @@ (g2 :> "a") @@ (g3 :> "e") @@ (g4 :> "a")
              @@ (x1 :> "a") @@ (x2 :> "a")
ApnNames   == (g1 :> "ims") @@ (g2 :> "ims") @@ (g3 :> "sos") @@ (g4 :> "web")
Beginnings == (x1 :> "p1") @@ (x2 :> "p2")
OneStatic  == {<<"a", "ims">>}
KnownImsis == {"a"}
KnownApns  == {"ims"}
Symmetric  == Permutations(Handlers) \cup Permutations(Smfs) \cup Permutations({g1, g2})
==================================================================================
