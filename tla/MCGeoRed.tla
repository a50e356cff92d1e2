-------------------------------- MODULE MCGeoRed --------------------------------
(***************************************************************************)
(* Two nodes that replicate to each other.                                 *)
(***************************************************************************)
EXTENDS GeoRedInv, TLC

CONSTANTS a, b

TwoNodes == (a :> <<b>>) @@ (b :> <<a>>)
=============================================================================
