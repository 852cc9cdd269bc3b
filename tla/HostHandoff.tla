---------------------------- MODULE HostHandoff ----------------------------
(***************************************************************************)
(* The stopped handoff of one ship between hosts.  Each runner journals    *)
(* its half of a transfer in the handoff record of an instance             *)
(* (managed/handoff.go) and moves files with a worker                      *)
(* (runtimequalify/handoff_linux.go); coordinating clients                 *)
(* (client/move.go) carry the phases and the data between two runners and  *)
(* may stop after any of their calls.  No transaction spans two hosts.     *)
(*                                                                         *)
(* A place is an instance name on a host.  A record and its transfer agree *)
(* on every signed field (SameTransfer), so the fields both halves share   *)
(* live once, in source, destination and digest.                           *)
(*                                                                         *)
(* Not modelled: deleting or importing the ship, revisions (a fenced       *)
(* instance cannot be configured), ports, disk space, and the work gate.   *)
(* A definition marked "mutant" is a bug this code could have; no run uses *)
(* it unless it is put in the place of the definition it precedes.         *)
(***************************************************************************)
EXTENDS Naturals

CONSTANTS
    Place,       \* instances of all hosts, this ship's or free
    Runner,      \* hosts
    Host,        \* the host of each place
    Home,        \* where the ship is registered at first
    Transfer,    \* handoff identities
    NoTransfer,
    Coordinator, \* client processes running MoveStopped
    Live,        \* whether the ship is a livenet identity, not a fake ship
    MaxVersion,  \* bound on how often the ship is started
    MaxFaults    \* bound on failures, crashes and clients that go away

ASSUME HomeAssumption == Home \in Place
ASSUME HostAssumption == Host \in [Place -> Runner]
ASSUME NoTransferAssumption == NoTransfer \notin Transfer
ASSUME BoundsAssumption == MaxVersion \in Nat \ {0} /\ MaxFaults \in Nat

VARIABLES
    dir,         \* direction of the handoff record of each place
    state,       \* its phase
    id,          \* its transfer
    error,       \* whether its last attempt recorded an error
    op,          \* the handoff operation that is active there
    pier,        \* where the pier directory of the place is
    content,     \* version of the ship in that directory
    running,     \* whether the ship runs there
    used,        \* transfers that were offered
    source,      \* the place a transfer leaves ...
    destination, \* ... the place it goes to ...
    digest,      \* ... and the version its archive holds, 0 before the export
    pc,          \* the next call of each coordinator
    job,         \* what it remembers between calls
    latest,      \* history: the newest version of the ship anywhere
    faults       \* failures so far

record == <<dir, state, id, error, op>>
files  == <<pier, content, running>>
offer  == <<used, source, destination, digest>>
client == <<pc, job>>
vars   == <<record, files, offer, client, latest, faults>>

-----------------------------------------------------------------------------
(* Types *)

Outgoing == {"preparing", "ready", "moved"}
Incoming == {"reserved", "receiving", "received", "complete"}

Call == {"idle", "prepare", "source", "reserve", "inspect", "relay", "put",
         "retry", "receive", "commit", "moved", "activate"}

\* The chosen places, the transfer once it is known, and whether the source's
\* signed commitment was read with it.
Job == [from : Place, to : Place, id : Transfer \cup {NoTransfer},
        commitment : BOOLEAN]

TypeOK ==
    /\ dir \in [Place -> {"absent", "none", "out", "in"}]
    /\ state \in [Place -> Outgoing \cup Incoming \cup {"none"}]
    /\ id \in [Place -> Transfer \cup {NoTransfer}]
    /\ error \in [Place -> BOOLEAN]
    /\ op \in [Place -> {"none", "prepare", "receive", "commit"}]
    /\ pier \in [Place -> {"none", "staged", "mounted", "archived"}]
    /\ content \in [Place -> Nat]
    /\ running \in [Place -> BOOLEAN]
    /\ used \subseteq Transfer
    /\ source \in [Transfer -> Place]
    /\ destination \in [Transfer -> Place]
    /\ digest \in [Transfer -> Nat]
    /\ pc \in [Coordinator -> Call]
    /\ job \in [Coordinator -> Job]
    /\ latest \in Nat
    /\ faults \in 0 .. MaxFaults

-----------------------------------------------------------------------------
(* A stopped ship at home; every other place is free. *)

Init ==
    /\ dir = [p \in Place |-> IF p = Home THEN "none" ELSE "absent"]
    /\ state = [p \in Place |-> "none"]
    /\ id = [p \in Place |-> NoTransfer]
    /\ error = [p \in Place |-> FALSE]
    /\ op = [p \in Place |-> "none"]
    /\ pier = [p \in Place |-> IF p = Home THEN "mounted" ELSE "none"]
    /\ content = [p \in Place |-> IF p = Home THEN 1 ELSE 0]
    /\ running = [p \in Place |-> FALSE]
    /\ used = {}
    /\ source = [t \in Transfer |-> Home]
    /\ destination = [t \in Transfer |-> Home]
    /\ digest = [t \in Transfer |-> 0]
    /\ pc = [c \in Coordinator |-> "idle"]
    /\ job = [c \in Coordinator |-> [from |-> Home, to |-> Home,
                                     id |-> NoTransfer, commitment |-> FALSE]]
    /\ latest = 1
    /\ faults = 0

-----------------------------------------------------------------------------
(* The ship at one place *)

Fenced_Outgoing(p) == dir[p] = "out" /\ state[p] # "moved"   \* mutant

\* Handoff.Fenced: every record but a completed incoming one.
Fenced(p) == dir[p] = "out" \/ (dir[p] = "in" /\ state[p] # "complete")

\* accept and ApplyManaged let the place run the ship.
Startable(p) == dir[p] # "absent" /\ ~Fenced(p)

\* A run appends to the ship's event log.
Start(p) ==
    /\ Startable(p) /\ ~running[p]
    /\ latest < MaxVersion
    /\ running' = [running EXCEPT ![p] = TRUE]
    /\ latest' = latest + 1
    /\ content' = [content EXCEPT ![p] = latest + 1]
    /\ UNCHANGED <<record, pier, offer, client, faults>>

Stop(p) ==
    /\ running[p]
    /\ running' = [running EXCEPT ![p] = FALSE]
    /\ UNCHANGED <<record, pier, content, offer, client, latest, faults>>

-----------------------------------------------------------------------------
(* Handlers and the coordinator's calls.  A coordinator whose call is        *)
(* refused returns to its user.                                              *)

Abort(c) ==
    /\ pc' = [pc EXCEPT ![c] = "idle"]
    /\ UNCHANGED job

Continue(c, call) ==
    /\ pc' = [pc EXCEPT ![c] = call]
    /\ UNCHANGED job

OnlyClient == UNCHANGED <<record, files, offer, latest, faults>>

\* handoffOperation: the attempt becomes the active operation of the place.
Dispatch(p, kind) ==
    /\ op' = [op EXCEPT ![p] = kind]
    /\ error' = [error EXCEPT ![p] = FALSE]

\* The record of transfer t on the other host, as waitHandoff and
\* destinationHandoff look it up.
Receives(q, t) == dir[q] = "in" /\ id[q] = t

\* The preflight of MoveStopped: the source exists, and the destination name is
\* free or already holds this source's transfer.
Accepts(p, q) ==
    /\ Host[p] # Host[q]
    /\ dir[p] # "absent"
    /\ dir[q] # "absent" => dir[q] = "in" /\ source[id[q]] = p

Begin_Unchecked(c, p, q) ==                             \* mutant
    /\ pc[c] = "idle"
    /\ Host[p] # Host[q]
    /\ dir[p] # "absent"
    /\ pc' = [pc EXCEPT ![c] = "prepare"]
    /\ job' = [job EXCEPT ![c] = [from |-> p, to |-> q, id |-> NoTransfer,
                                  commitment |-> FALSE]]
    /\ OnlyClient

\* Up to there a coordinator changes nothing and remembers the two names.
Begin(c, p, q) ==
    /\ pc[c] = "idle"
    /\ Accepts(p, q)
    /\ pc' = [pc EXCEPT ![c] = "prepare"]
    /\ job' = [job EXCEPT ![c] = [from |-> p, to |-> q, id |-> NoTransfer,
                                  commitment |-> FALSE]]
    /\ OnlyClient

\* prepareHandoff of a source that is cleanly stopped and not yet fenced.
PrepareFresh(c, t) ==
    LET p == job[c].from IN
    /\ pc[c] = "prepare"
    /\ Startable(p) /\ ~running[p]
    /\ t \in Transfer \ used
    /\ dir' = [dir EXCEPT ![p] = "out"]
    /\ state' = [state EXCEPT ![p] = "preparing"]
    /\ id' = [id EXCEPT ![p] = t]
    /\ Dispatch(p, "prepare")
    /\ used' = used \cup {t}
    /\ source' = [source EXCEPT ![t] = p]
    /\ destination' = [destination EXCEPT ![t] = job[c].to]
    /\ pc' = [pc EXCEPT ![c] = "source"]
    /\ job' = [job EXCEPT ![c].id = t]
    /\ UNCHANGED <<files, digest, latest, faults>>

SameDestination_Any(c) == TRUE                          \* mutant

SameDestination(c) == destination[id[job[c].from]] = job[c].to

\* prepareHandoff of a fenced source: the recorded move or none.  An export
\* that failed is tried again, anything else is answered with the record.
PrepareAgain(c) ==
    LET p == job[c].from IN
    /\ pc[c] = "prepare"
    /\ dir[p] = "out" /\ SameDestination(c)
    /\ IF state[p] = "preparing" /\ op[p] = "none" /\ error[p]
       THEN Dispatch(p, "prepare")
       ELSE UNCHANGED <<op, error>>
    /\ pc' = [pc EXCEPT ![c] = "source"]
    /\ job' = [job EXCEPT ![c].id = id[p]]
    /\ UNCHANGED <<dir, state, id, files, offer, latest, faults>>

\* A source that is running, incoming, in recovery, keeps containers or has an
\* uncertain maintenance; the last three are left open here.
PrepareRefused(c) ==
    LET p == job[c].from IN
    /\ pc[c] = "prepare"
    /\ dir[p] = "out" => ~SameDestination(c)
    /\ Abort(c)
    /\ OnlyClient

\* waitHandoff on the source: a phase it waits for, or the error of an attempt
\* that ended.
WaitSource(c) ==
    LET p == job[c].from IN
    /\ pc[c] = "source"
    /\ op[p] = "none"
    /\ \/ /\ state[p] \in {"ready", "moved"}
          /\ pc' = [pc EXCEPT ![c] = "reserve"]
          /\ job' = [job EXCEPT ![c].commitment = state[p] = "moved"]
       \/ /\ state[p] \notin {"ready", "moved"} /\ error[p]
          /\ Abort(c)
    /\ OnlyClient

\* The name is taken, or the host already has a record of the live identity.
Collides(q) ==
    \/ dir[q] # "absent"
    \/ Live /\ \E r \in Place : Host[r] = Host[q] /\ dir[r] # "absent"

\* Some instance of the host of q already holds transfer t.
Holds(q, t) ==
    \E r \in Place : Host[r] = Host[q] /\ dir[r] # "absent" /\ id[r] = t

\* receiveHandoff creates the fenced destination ...
ReserveFresh(c) ==
    LET q == job[c].to
        t == job[c].id IN
    /\ pc[c] = "reserve" /\ ~job[c].commitment
    /\ ~Holds(q, t) /\ ~Collides(q)
    /\ dir' = [dir EXCEPT ![q] = "in"]
    /\ state' = [state EXCEPT ![q] = "reserved"]
    /\ id' = [id EXCEPT ![q] = t]
    /\ Continue(c, "inspect")
    /\ UNCHANGED <<error, op, files, offer, latest, faults>>

\* ... answers with the record it has, or refuses.  A source that has moved is
\* only looked up, never reserved again.
ReserveAgain(c) ==
    LET q == job[c].to
        t == job[c].id IN
    /\ pc[c] = "reserve"
    /\ Holds(q, t) \/ job[c].commitment \/ Collides(q)
    /\ IF Receives(q, t) THEN Continue(c, "inspect") ELSE Abort(c)
    /\ OnlyClient

Inspect_NoRetry(c) ==                                   \* mutant
    LET q == job[c].to IN
    /\ pc[c] = "inspect"
    /\ IF Receives(q, job[c].id) /\ state[q] # "complete"
       THEN Continue(c, IF state[q] = "reserved" THEN "relay" ELSE "receive")
       ELSE Abort(c)
    /\ OnlyClient

\* destinationHandoff: read the phase again, bound to this transfer.
Inspect(c) ==
    LET q == job[c].to IN
    /\ pc[c] = "inspect"
    /\ IF Receives(q, job[c].id) /\ state[q] # "complete"
       THEN Continue(c, IF state[q] = "reserved" THEN "relay"
                        ELSE IF state[q] = "receiving" /\ error[q] THEN "retry"
                        ELSE "receive")
       ELSE Abort(c)
    /\ OnlyClient

\* GET data: the source streams only a prepared archive.
Relay(c) ==
    /\ pc[c] = "relay"
    /\ IF state[job[c].from] = "ready" THEN Continue(c, "put") ELSE Abort(c)
    /\ OnlyClient

\* PUT data, checked again under the lock before the archive is published.
Awaits_AnyPhase(q, t) == Receives(q, t) /\ op[q] = "none"    \* mutant

Awaits(q, t) == Receives(q, t) /\ state[q] = "reserved" /\ op[q] = "none"

Put(c) ==
    LET q == job[c].to IN
    /\ pc[c] = "put"
    /\ IF Awaits(q, job[c].id)
       THEN /\ state' = [state EXCEPT ![q] = "receiving"]
            /\ Dispatch(q, "receive")
            /\ Continue(c, "receive")
       ELSE /\ UNCHANGED <<state, op, error>>
            /\ Abort(c)
    /\ UNCHANGED <<dir, id, files, offer, latest, faults>>

\* POST retry
Retry(c) ==
    LET q == job[c].to
        receiving == Receives(q, job[c].id) /\ state[q] = "receiving" IN
    /\ pc[c] = "retry"
    /\ IF receiving /\ op[q] = "none" /\ error[q]
       THEN Dispatch(q, "receive")
       ELSE UNCHANGED <<op, error>>
    /\ IF receiving /\ (op[q] # "none" \/ error[q])
       THEN Continue(c, "receive") ELSE Abort(c)
    /\ UNCHANGED <<dir, state, id, files, offer, latest, faults>>

\* waitHandoff on the destination.  A transfer someone else completed is never
\* "received" again: that wait ends with its deadline.
Verified_Delivered(q) == state[q] \in {"receiving", "received"}   \* mutant

Verified(q) == state[q] = "received"

WaitReceived(c) ==
    LET q == job[c].to IN
    /\ pc[c] = "receive"
    /\ IF Receives(q, job[c].id)
       THEN /\ op[q] = "none"
            /\ Verified(q) \/ error[q] \/ state[q] = "complete"
            /\ IF Verified(q)
               THEN Continue(c, IF job[c].commitment THEN "activate"
                                ELSE "commit")
               ELSE Abort(c)
       ELSE Abort(c)
    /\ OnlyClient

\* POST commit
Commit(c) ==
    LET p == job[c].from IN
    /\ pc[c] = "commit"
    /\ IF state[p] = "ready" /\ op[p] = "none"
       THEN Dispatch(p, "commit") ELSE UNCHANGED <<op, error>>
    /\ IF state[p] \in {"ready", "moved"} \/ op[p] # "none"
       THEN Continue(c, "moved") ELSE Abort(c)
    /\ UNCHANGED <<dir, state, id, files, offer, latest, faults>>

WaitMoved(c) ==
    LET p == job[c].from IN
    /\ pc[c] = "moved"
    /\ op[p] = "none"
    /\ \/ /\ state[p] = "moved"
          /\ pc' = [pc EXCEPT ![c] = "activate"]
          /\ job' = [job EXCEPT ![c].commitment = TRUE]
       \/ /\ state[p] # "moved" /\ error[p]
          /\ Abort(c)
    /\ OnlyClient

\* POST activate: the signed commitment releases a verified destination.
Activate(c) ==
    LET q == job[c].to IN
    /\ pc[c] = "activate"
    /\ IF /\ job[c].commitment
          /\ Receives(q, job[c].id) /\ state[q] = "received" /\ op[q] = "none"
       THEN /\ state' = [state EXCEPT ![q] = "complete"]
            /\ error' = [error EXCEPT ![q] = FALSE]
       ELSE UNCHANGED <<state, error>>
    /\ Abort(c)
    /\ UNCHANGED <<dir, id, op, files, offer, latest, faults>>

-----------------------------------------------------------------------------
(* Workers: applyHandoff.  Every attempt starts over from what it finds.     *)

Fault == faults < MaxFaults /\ faults' = faults + 1

\* The phase and the outcome commit; a lost acknowledgment of the save makes
\* the outcome an error over the new phase.
Finish(p, phase) ==
    /\ state' = [state EXCEPT ![p] = phase]
    /\ op' = [op EXCEPT ![p] = "none"]
    /\ \/ UNCHANGED <<error, faults>>
       \/ error' = [error EXCEPT ![p] = TRUE] /\ Fault

\* The archive of the stopped pier is published in the spool, once.
Export(p) ==
    /\ op[p] = "prepare" /\ digest[id[p]] = 0
    /\ digest' = [digest EXCEPT ![id[p]] = content[p]]
    /\ UNCHANGED <<record, files, used, source, destination, client, latest,
                   faults>>

FinishPrepare(p) ==
    /\ op[p] = "prepare" /\ digest[id[p]] = content[p]
    /\ Finish(p, "ready")
    /\ UNCHANGED <<dir, id, files, offer, client, latest>>

\* The archive is extracted outside the mount and recorded as ready ...
Stage(p) ==
    /\ op[p] = "receive" /\ pier[p] = "none"
    /\ pier' = [pier EXCEPT ![p] = "staged"]
    /\ content' = [content EXCEPT ![p] = digest[id[p]]]
    /\ UNCHANGED <<record, running, offer, client, latest, faults>>

\* ... and renamed into place.
Publish(p) ==
    /\ op[p] = "receive" /\ pier[p] = "staged"
    /\ pier' = [pier EXCEPT ![p] = "mounted"]
    /\ UNCHANGED <<record, content, running, offer, client, latest, faults>>

FinishReceive(p) ==
    /\ op[p] = "receive" /\ pier[p] = "mounted"
    /\ content[p] = digest[id[p]]
    /\ Finish(p, "received")
    /\ UNCHANGED <<dir, id, files, offer, client, latest>>

Archive(p) ==
    /\ op[p] = "commit" /\ pier[p] = "mounted"
    /\ content[p] = digest[id[p]]
    /\ pier' = [pier EXCEPT ![p] = "archived"]
    /\ UNCHANGED <<record, content, running, offer, client, latest, faults>>

FinishCommit_Unarchived(p) ==                           \* mutant
    /\ op[p] = "commit"
    /\ Finish(p, "moved")
    /\ UNCHANGED <<dir, id, files, offer, client, latest>>

FinishCommit(p) ==
    /\ op[p] = "commit" /\ pier[p] = "archived"
    /\ Finish(p, "moved")
    /\ UNCHANGED <<dir, id, files, offer, client, latest>>

Work(p) ==
    \/ Export(p) \/ FinishPrepare(p)
    \/ Stage(p) \/ Publish(p) \/ FinishReceive(p)
    \/ Archive(p) \/ FinishCommit(p)

-----------------------------------------------------------------------------
(* Failures *)

\* An attempt ends with an error before its phase.
Fail(p) ==
    /\ op[p] # "none" /\ Fault
    /\ op' = [op EXCEPT ![p] = "none"]
    /\ error' = [error EXCEPT ![p] = TRUE]
    /\ UNCHANGED <<dir, state, id, files, offer, client, latest>>

\* A runner ends; reconcileInterrupted records what its next start finds.
Crash(n) ==
    /\ \E p \in Place : Host[p] = n /\ op[p] # "none"
    /\ Fault
    /\ op' = [p \in Place |-> IF Host[p] = n THEN "none" ELSE op[p]]
    /\ error' = [p \in Place |-> (Host[p] = n /\ op[p] # "none") \/ error[p]]
    /\ UNCHANGED <<dir, state, id, files, offer, client, latest>>

\* A coordinator ends, loses a reply or reaches a deadline.
GiveUp(c) ==
    /\ pc[c] # "idle" /\ Fault
    /\ Abort(c)
    /\ UNCHANGED <<record, files, offer, latest>>

-----------------------------------------------------------------------------

ClientStep(c) ==
    \/ \E t \in Transfer : PrepareFresh(c, t)
    \/ PrepareAgain(c) \/ PrepareRefused(c) \/ WaitSource(c)
    \/ ReserveFresh(c) \/ ReserveAgain(c) \/ Inspect(c)
    \/ Relay(c) \/ Put(c) \/ Retry(c) \/ WaitReceived(c)
    \/ Commit(c) \/ WaitMoved(c) \/ Activate(c)

Next ==
    \/ \E p \in Place : Start(p) \/ Stop(p) \/ Work(p) \/ Fail(p)
    \/ \E c \in Coordinator : ClientStep(c) \/ GiveUp(c)
    \/ \E c \in Coordinator, p, q \in Place : Begin(c, p, q)
    \/ \E n \in Runner : Crash(n)

Spec == Init /\ [][Next]_vars

-----------------------------------------------------------------------------
(* What strengthens the safety properties below into an inductive invariant *)

\* The destination of t has verified its copy, or went on from there.
Landed(t) ==
    LET q == destination[t] IN
    \/ Receives(q, t) /\ state[q] \in {"received", "complete"}
    \/ dir[q] = "out"

\* The only places that may still become the ship's home: where it can start,
\* where it left from, and, after the commitment, where it arrived.
Carries(p) ==
    \/ Startable(p)
    \/ dir[p] = "out" /\ state[p] # "moved"
    \/ dir[p] = "in" /\ state[p] = "received"
          /\ state[source[id[p]]] = "moved"

\* Both halves of a transfer, and the phases each half can be in.
HalvesAgree ==
    /\ \A t \in used : dir[source[t]] = "out" /\ id[source[t]] = t
    /\ \A p \in Place :
          /\ dir[p] = "out" => /\ id[p] \in used /\ source[id[p]] = p
                               /\ state[p] \in Outgoing
          /\ dir[p] = "in" => /\ id[p] \in used /\ destination[id[p]] = p
                              /\ state[p] \in Incoming
                              /\ state[source[id[p]]] # "preparing"
          /\ dir[p] = "in" /\ state[p] = "complete" =>
                state[source[id[p]]] = "moved"
          /\ dir[p] = "absent" => ~running[p]
          /\ running[p] => Startable(p)

\* An active operation works on the phase it was dispatched for.
OpAgrees ==
    \A p \in Place :
        /\ op[p] = "prepare" => dir[p] = "out" /\ state[p] = "preparing"
        /\ op[p] = "receive" => dir[p] = "in" /\ state[p] = "receiving"
        /\ op[p] = "commit" => /\ dir[p] = "out" /\ state[p] = "ready"
                               /\ Landed(id[p])

\* Where the pier of each phase is, and what it holds.
PierAgrees ==
    \A p \in Place :
        /\ dir[p] = "absent" => pier[p] = "none"
        /\ dir[p] = "none" => pier[p] = "mounted"
        /\ dir[p] = "out" =>
              /\ state[p] = "preparing" => pier[p] = "mounted"
              /\ state[p] = "ready" =>
                    \/ pier[p] = "mounted"
                    \/ pier[p] = "archived" /\ Landed(id[p])
              /\ state[p] = "moved" => pier[p] = "archived" /\ Landed(id[p])
              /\ state[p] # "preparing" => digest[id[p]] = content[p]
        /\ dir[p] = "in" =>
              /\ state[p] = "reserved" => pier[p] = "none"
              /\ state[p] = "receiving" => pier[p] # "archived"
              /\ state[p] \in {"received", "complete"} => pier[p] = "mounted"
              /\ state[p] \in {"receiving", "received"} /\ pier[p] # "none" =>
                    content[p] = digest[id[p]]

\* What a coordinator has learned of its transfer stays true.
ClientKnows ==
    \A c \in Coordinator :
        /\ pc[c] \notin {"idle", "prepare"} =>
              /\ job[c].id \in used
              /\ source[job[c].id] = job[c].from
              /\ destination[job[c].id] = job[c].to
        /\ pc[c] \notin {"idle", "prepare", "source"} =>
              state[job[c].from] # "preparing"
        /\ pc[c] \in {"commit", "moved", "activate"} => Landed(job[c].id)
        /\ pc[c] # "idle" /\ job[c].commitment =>
              /\ pc[c] # "prepare"
              /\ state[job[c].from] = "moved"

\* At most one place carries the ship, and it carries the newest content.
OneCarrier ==
    \A p \in Place : Carries(p) =>
        /\ content[p] = latest
        /\ \A q \in Place : Carries(q) => q = p

IInv == /\ TypeOK /\ HalvesAgree /\ OpAgrees /\ PierAgrees /\ ClientKnows
        /\ OneCarrier

\* The ship has not gone on from the destination of an unfinished transfer, nor
\* from where a coordinator that was about to fence its source would send it.
NoReturn ==
    /\ \A t \in used :
          state[source[t]] # "moved" => dir[destination[t]] # "out"
    /\ \A c \in Coordinator : pc[c] = "prepare" =>
          /\ job[c].from # job[c].to /\ dir[job[c].from] # "absent"
          /\ dir[job[c].from] # "out" => dir[job[c].to] # "out"

FullInv == IInv /\ NoReturn

\* A fenced source whose ship has not arrived still finds the name it goes to
\* free, or holding its transfer.
NameKept ==
    \A p \in Place :
        dir[p] = "out" /\ state[p] \in {"preparing", "ready"} =>
            LET q == destination[id[p]] IN
            Receives(q, id[p]) \/ dir[q] = "absent"

\* A transfer goes to another host, and so does one about to be offered.
LeavesHost ==
    /\ \A t \in used : Host[source[t]] # Host[destination[t]]
    /\ \A c \in Coordinator : pc[c] = "prepare" =>
          Host[job[c].from] # Host[job[c].to]

MoveInv == FullInv /\ NameKept /\ LeavesHost

-----------------------------------------------------------------------------
(* Properties *)

\* A place that can start the ship has the only pier that is mounted anywhere:
\* the copy left behind is archived before the copy that travelled is released,
\* whatever failed, was repeated or was answered late.
OnlyCopy ==
    \A p, q \in Place :
        Startable(p) /\ q # p => pier[q] # "mounted" /\ ~Startable(q)

\* A place that can start the ship holds its newest content: no transfer, and
\* no stale coordinator, brings back an older copy.
CurrentCopy ==
    \A p \in Place : Startable(p) => pier[p] = "mounted" /\ content[p] = latest

\* Between two homes the ship is never lost: some place still carries the
\* newest content towards being startable.
NeverLost == \E p \in Place : Carries(p) /\ content[p] = latest

\* The source gives up its copy only after the destination has verified one.
ArchivedAfterReceipt ==
    \A p \in Place :
        dir[p] = "out" /\ pier[p] = "archived" => Landed(id[p])

Rank(phase) ==
    CASE phase \in {"preparing", "reserved"} -> 1
      [] phase \in {"ready", "receiving"} -> 2
      [] phase \in {"moved", "received"} -> 3
      [] OTHER -> 4

\* A fenced source stays fenced for one transfer to one destination, and the
\* phases of a transfer only go forward: repeated and stale calls never reopen
\* a finished half.
ForwardOnly ==
    [][\A p \in Place :
          /\ dir[p] = "out" =>
                /\ dir'[p] = "out" /\ id'[p] = id[p]
                /\ destination'[id[p]] = destination[id[p]]
          /\ dir[p] \in {"in", "out"} /\ dir'[p] = dir[p] =>
                id'[p] = id[p] /\ Rank(state[p]) <= Rank(state'[p])]_vars

\* Predictable collisions are refused before the source is fenced: a fenced
\* source whose reservation is outstanding finds its destination free.  The
\* preflight of MoveStopped looks for them in the destination's snapshot.
CollisionsRefused ==
    \A p \in Place :
        dir[p] = "out" /\ state[p] \in {"preparing", "ready"} =>
            LET q == destination[id[p]] IN
            Receives(q, id[p]) \/ ~Collides(q)

\* An interrupted move can be repeated: until the ship has gone on from its
\* destination, MoveStopped accepts the names the fenced source recorded, from
\* any client and after any failure.
Repeatable ==
    \A p \in Place : dir[p] = "out" =>
        LET q == destination[id[p]] IN
        \/ Accepts(p, q)
        \/ state[p] = "moved" /\ dir[q] = "out"

-----------------------------------------------------------------------------
(* What the owner is promised *)

Abstract == INSTANCE SingleHome WITH
                open <- [p \in Place |-> IF Startable(p) THEN content[p] ELSE 0],
                version <- latest

\* The handoff keeps the ship in one home.
ImplementsSingleHome == Abstract!Spec

=============================================================================
