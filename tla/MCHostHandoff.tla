--------------------------- MODULE MCHostHandoff ---------------------------
(* HostHandoff on hosts that offer a few instance names each. *)
EXTENDS HostHandoff, TLC

CONSTANTS a, b, c, A1, A2, B1, C1, T1, T2, c1, c2

\* Two names on host a, so that the ship can come back to it, and one on b.
TwoHosts == A1 :> a @@ A2 :> a @@ B1 :> b

\* A third host competes as destination.
ThreeHosts == TwoHosts @@ C1 :> c

Alike == Permutations({c1, c2})

=============================================================================
