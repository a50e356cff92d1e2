-------------------------------- MODULE MCSmPolicy -------------------------------
(***************************************************************************)
(* Three goroutines: a deletion in its notification, the callback of the   *)
(* SMF, and a request of another SMF that waits for the lock.              *)
(***************************************************************************)
EXTENDS SmPolicyInv, TLC
CONSTANTS h1, h2, h3
Sym == Permutations({h1,h2,h3})
ThreeHandlers == {h1, h2, h3}
==================================================================================
