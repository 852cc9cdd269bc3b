--------------------------- MODULE ManagerUpgrade ---------------------------
(***************************************************************************)
(* What an upgrade promises whoever uses the host: the manager's           *)
(* executable is replaced by another only while admission is closed, and   *)
(* so over a manager that has nothing under way.                           *)
(***************************************************************************)
EXTENDS UpdateFence

CONSTANTS Generation, None

VARIABLE executable

Replace(g) ==
    /\ executable = None \/ fence.held
    /\ executable' = g
    /\ UNCHANGED <<fence, busy, journal>>

Upgrade == \/ Next /\ UNCHANGED executable
           \/ \E g \in Generation : Replace(g)

UpgradeSpec == Init /\ [][Upgrade]_<<fence, busy, journal, executable>>
=============================================================================
