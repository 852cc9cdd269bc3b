----------------------------- MODULE MCRoutines -----------------------------
(* Routines with one owner, a disabled policy and three enabled ones: one that *)
(* may not stop the ship, one that stops and resumes it, one that stops it.   *)
EXTENDS Routines

SmallConfigs ==
    {[on |-> FALSE, slots |-> {1},    stop |-> FALSE, resume |-> FALSE],
     [on |-> TRUE,  slots |-> {1, 2}, stop |-> FALSE, resume |-> FALSE],
     [on |-> TRUE,  slots |-> {2},    stop |-> TRUE,  resume |-> TRUE],
     [on |-> TRUE,  slots |-> {1},    stop |-> TRUE,  resume |-> FALSE]}
=============================================================================
