---------------------------- MODULE MCEpochPrune ----------------------------
(* EpochPrune on two hosts with one name each. *)
EXTENDS EpochPrune, TLC

CONSTANTS a, b, A1, B1, T1, c1

OneWay == A1 :> a @@ B1 :> b

\* Text would order these 0, 10, 2.
Numbers == {0, 2, 10, 11}

Oldest == {0, 2, 10}

=============================================================================
