--------------------------- MODULE MCProjectLaunch ---------------------------
(* Two members, an anchor that may return once in another namespace.            *)
EXTENDS ProjectLaunch
=============================================================================
