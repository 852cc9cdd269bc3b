-------------------------- MODULE OperationLedger --------------------------
(***************************************************************************)
(* What the runner promises whoever submits operations: a request is       *)
(* accepted once, runs alone on its ship, ends in one outcome that never   *)
(* changes, is interrupted when the process did not survive it, and is not *)
(* accepted while an update holds the host.  Nothing here knows of workers,*)
(* Docker, snapshots or crashes.                                           *)
(***************************************************************************)
CONSTANTS Instance, Request

VARIABLES entry, held

vars == <<entry, held>>

Pending == {"queued", "running"}

PendingOf(i) == {r \in Request : entry[r].ship = i /\ entry[r].status \in Pending}

Init ==
    /\ \E i \in Instance :
          entry = [r \in Request |-> [status |-> "absent", ship |-> i]]
    /\ held = FALSE

Submit(r, i) ==
    /\ ~held
    /\ entry[r].status = "absent" /\ PendingOf(i) = {}
    /\ entry' = [entry EXCEPT ![r] = [status |-> "queued", ship |-> i]]
    /\ UNCHANGED held

Start(r) ==
    /\ entry[r].status = "queued"
    /\ entry' = [entry EXCEPT ![r].status = "running"]
    /\ UNCHANGED held

\* Only a running operation succeeds; one that never ran may be refused.
Conclude(r) ==
    /\ \E s \in {"succeeded", "failed", "interrupted"} :
          /\ \/ entry[r].status = "running"
             \/ entry[r].status = "queued" /\ s = "failed"
          /\ entry' = [entry EXCEPT ![r].status = s]
    /\ UNCHANGED held

\* A restart interrupts everything unfinished, all at once.
Interrupt ==
    /\ entry' = [r \in Request |->
                    IF entry[r].status \in Pending
                    THEN [entry[r] EXCEPT !.status = "interrupted"]
                    ELSE entry[r]]
    /\ UNCHANGED held

Hold ==
    /\ \A i \in Instance : PendingOf(i) = {}
    /\ held' = TRUE
    /\ UNCHANGED entry

Release == held /\ held' = FALSE /\ UNCHANGED entry

Next ==
    \/ \E r \in Request, i \in Instance : Submit(r, i)
    \/ \E r \in Request : Start(r) \/ Conclude(r)
    \/ Interrupt \/ Hold \/ Release

Spec == Init /\ [][Next]_vars
=============================================================================
