----------------------------- MODULE SingleHome -----------------------------
(***************************************************************************)
(* What the owner of an Urbit ship is promised while it moves between      *)
(* hosts: at any moment at most one place may run it, and that place holds *)
(* the newest content.  A ship is closed before it travels and opens again *)
(* with exactly what it held, in the same or in another place.             *)
(***************************************************************************)
EXTENDS Naturals

CONSTANTS
    Place,  \* the instances of all hosts
    Home    \* the one of them where the ship is registered at first

VARIABLES
    open,    \* content of the place that may run the ship, 0 elsewhere
    version  \* content the ship last had anywhere

vars == <<open, version>>

Closed == [p \in Place |-> 0]

OpenAt(p) == [Closed EXCEPT ![p] = version]

Init ==
    /\ version = 1
    /\ open = [Closed EXCEPT ![Home] = 1]

\* The ship runs where it is open, and its content moves on.
Run(p) ==
    /\ open = OpenAt(p)
    /\ version' = version + 1
    /\ open' = [Closed EXCEPT ![p] = version + 1]

Close(p) ==
    /\ open = OpenAt(p)
    /\ open' = Closed
    /\ UNCHANGED version

Open(p) ==
    /\ open = Closed
    /\ open' = OpenAt(p)
    /\ UNCHANGED version

Next == \E p \in Place : Run(p) \/ Close(p) \/ Open(p)

Spec == Init /\ [][Next]_vars

=============================================================================
