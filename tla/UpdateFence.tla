---------------------------- MODULE UpdateFence ----------------------------
(***************************************************************************)
(* What the manager of a host promises its installer: once admission is    *)
(* closed under a token nothing is under way and nothing is written until  *)
(* it is opened again, one activation holds it at a time, and the token    *)
(* that opened it last does not close it again.                            *)
(***************************************************************************)
CONSTANTS Token, NoToken

VARIABLES
    fence,   \* the token it was closed under last, and whether it still is
    busy,    \* something is under way
    journal  \* what the manager has written

Init ==
    /\ fence = [token |-> NoToken, held |-> FALSE]
    /\ busy = FALSE

\* An open host admits, works and settles.
Serve ==
    /\ ~fence.held
    /\ busy' \in BOOLEAN
    /\ UNCHANGED fence

Close(t) ==
    /\ ~busy /\ ~fence.held
    /\ fence.token # t
    /\ fence' = [token |-> t, held |-> TRUE]
    /\ UNCHANGED <<busy, journal>>

Open ==
    /\ fence.held
    /\ fence' = [fence EXCEPT !.held = FALSE]
    /\ UNCHANGED <<busy, journal>>

Next == Serve \/ Open \/ \E t \in Token : Close(t)

Spec == Init /\ [][Next]_<<fence, busy, journal>>
=============================================================================
