-------------------------- MODULE MCHostActivation --------------------------
(* A historical generation, one that knows fences, and two of a later schema. *)
EXTENDS HostActivation, TLC

CONSTANTS g19, g20, g21, g22
MCSchema == (g19 :> 19) @@ (g20 :> 20) @@ (g21 :> 21) @@ (g22 :> 21)
=============================================================================
