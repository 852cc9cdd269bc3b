--------------------------- MODULE RunnerJournal ---------------------------
(***************************************************************************)
(* The durable operation journal of the host service urbit-runner          *)
(* (internal/managed): requests are accepted into a SQLite journal, one    *)
(* worker goroutine per accepted operation takes the host work gate, marks *)
(* the operation running, drives Docker through ApplyManaged and commits   *)
(* one outcome; a poller observes idle ships without any lock; a local     *)
(* installer can fence admission; the process closes, crashes and restarts *)
(* between any two of these steps.                                         *)
(*                                                                         *)
(* Durable: op, inst, runtime, fence.  Volatile: worker, memory, gate,     *)
(* poll, bulk, mode, failed.  External: engine (the Docker daemon).        *)
(*                                                                         *)
(* Abstractions.  An operation is named by its request: the journal holds  *)
(* at most one operation per (actor, request_id), so request and operation *)
(* identities are in bijection.  RuntimeRevision is only ever compared for *)
(* equality with a captured value and only ever grows, so a captured       *)
(* revision is represented by "no bump since the capture" (poll.current).  *)
(* The kinds start, stop, pack and inspect stand for the four classes the  *)
(* server distinguishes; pack also stands for meld and roll.  Every pier   *)
(* is already provisioned and identity-pinned.                             *)
(* A definition marked "mutant" is a bug this code could have; no run uses  *)
(* it unless it is put in the place of the definition it precedes.         *)
(***************************************************************************)
EXTENDS Naturals

CONSTANTS
    Instance,    \* registered ships
    Request,     \* client request identities, one journal row each
    NoRequest,   \* the empty ActiveOperationID
    Token,       \* activation tokens of the local installer
    NoToken,     \* the fence row before any activation
    MaxRevision, \* bound on configuration edits
    Polled,      \* bound: the ships whose observation may be in flight
    MaxBulk      \* bound on simultaneous bulk transfers

ASSUME NoRequestAssumption == NoRequest \notin Request
ASSUME NoTokenAssumption == NoToken \notin Token
ASSUME BoundsAssumption ==
    MaxRevision \in Nat \ {0} /\ Polled \subseteq Instance /\ MaxBulk \in Nat

VARIABLES
    op,       \* operations table: status, ship, kind and revision per request
    inst,     \* instances table, public half
    runtime,  \* instances table, private ManagedState
    fence,    \* meta row of the management update fence
    worker,   \* progress of the goroutine started by launch
    memory,   \* the ManagedState a driver returns after a failed save
    gate,     \* holder of Server.workGate
    poll,     \* the poller's captured snapshot of each ship
    bulk,     \* Server.updateBulk
    mode,     \* life of the server process
    failed,   \* Server.failed
    engine,   \* containers as the Docker daemon knows them
    launched  \* history: revision the runtime container was created with

durable  == <<op, inst, runtime, fence>>
volatile == <<worker, memory, gate, poll, bulk, mode, failed>>
vars     == <<durable, volatile, engine, launched>>

-----------------------------------------------------------------------------
(* Types *)

Kind      == {"start", "stop", "pack", "inspect"}
Heavy     == {"start", "pack"}          \* kinds that wait for the work gate
Container == {"probe", "runtime", "utility"}
Pending   == {"queued", "running"}
Terminal  == {"succeeded", "failed", "interrupted"}
Revision  == 0 .. MaxRevision

\* The retained container, whether its create was dispatched, and the phase of
\* a maintenance outcome that is not yet known.
Runtime == [container : Container \cup {"none"}, sent : BOOLEAN,
            maint : {"settled", "pending", "dispatched"}]

Blank == [container |-> "none", sent |-> FALSE, maint |-> "settled"]

Observed == {"running", "stopped", "busy", "unknown"}

\* Progress of a worker.  "ready" has what it needs to call beginOperation;
\* "begun" .. "settled" are points inside ApplyManaged; a "faulted" driver
\* lost a save; "done" has committed (or lost) its outcome.
Driving   == {"begun", "probed", "pending", "intended", "marked", "sent",
              "removing", "removed", "settled"}
Working   == Driving \cup {"faulted"}
WorkerAt  == Working \cup {"none", "waiting", "ready", "done"}

IdlePoll  == [busy |-> FALSE, current |-> FALSE, healthy |-> FALSE,
              recovery |-> FALSE, observed |-> "unknown", runtime |-> Blank]

OpRecord   == [status : Pending \cup Terminal \cup {"absent"},
               ship : Instance, kind : Kind, rev : Revision]
InstRecord == [active : Request \cup {NoRequest},
               desired : {"running", "stopped"}, observed : Observed,
               recovery : BOOLEAN, config : Revision, applied : Revision,
               launch : Revision]
FenceRecord == [token : Token \cup {NoToken}, held : BOOLEAN]
PollRecord == [busy : BOOLEAN, current : BOOLEAN, healthy : BOOLEAN,
               recovery : BOOLEAN, observed : Observed, runtime : Runtime]
EngineState == {"absent", "requested", "created", "live", "exited"}

TypeOK ==
    /\ op \in [Request -> OpRecord]
    /\ inst \in [Instance -> InstRecord]
    /\ runtime \in [Instance -> Runtime]
    /\ fence \in FenceRecord
    /\ worker \in [Request -> WorkerAt]
    /\ memory \in [Request -> Runtime]
    /\ gate \in Request \cup {NoRequest}
    /\ poll \in [Instance -> PollRecord]
    /\ bulk \in 0 .. MaxBulk
    /\ mode \in {"up", "closing", "down"}
    /\ failed \in BOOLEAN
    /\ engine \in [Instance -> [Container -> EngineState]]
    /\ launched \in [Instance -> Revision]

-----------------------------------------------------------------------------
(* A host with provisioned, stopped ships and an empty journal. *)

Init ==
    /\ \E i \in Instance :
          op = [r \in Request |-> [status |-> "absent", ship |-> i,
                                   kind |-> "stop", rev |-> 0]]
    /\ inst = [i \in Instance |->
                 [active |-> NoRequest, desired |-> "stopped",
                  observed |-> "stopped", recovery |-> FALSE,
                  config |-> 1, applied |-> 0, launch |-> 0]]
    /\ runtime = [i \in Instance |-> Blank]
    /\ fence = [token |-> NoToken, held |-> FALSE]
    /\ worker = [r \in Request |-> "none"]
    /\ memory = [r \in Request |-> Blank]
    /\ gate = NoRequest
    /\ poll = [i \in Instance |-> IdlePoll]
    /\ bulk = 0
    /\ mode = "up"
    /\ failed = FALSE
    /\ engine = [i \in Instance |-> [c \in Container |-> "absent"]]
    /\ launched = [i \in Instance |-> 0]

-----------------------------------------------------------------------------
(* Admission *)

\* ServeHTTP under r.mu: mutations are refused while the server closes, after
\* a journal failure, and while the update fence is held.
Admitting_Unfenced == mode = "up" /\ ~failed         \* mutant

Admitting == mode = "up" /\ ~failed /\ ~fence.held

Clean(i)     == runtime[i].container = "none"
Uncertain(i) == runtime[i].maint # "settled"

\* accept's guards for each kind, beyond the revision and the busy check.
Acceptable(i, k) ==
    /\ k # "stop" => ~Uncertain(i)
    /\ k \in {"pack", "inspect"} =>
          /\ inst[i].desired = "stopped" /\ inst[i].observed = "stopped"
          /\ ~inst[i].recovery /\ Clean(i)
    /\ k = "start" =>
          /\ ~inst[i].recovery /\ inst[i].observed # "running" /\ Clean(i)

\* RuntimeRevision+1: a snapshot captured earlier can no longer be committed.
Bump(i) == poll' = [poll EXCEPT ![i].current = FALSE]

\* replay: a request the journal knows, whatever its status, is answered from
\* the journal and changes nothing.
Fresh_OnlyPending(r) == op[r].status \notin Pending      \* mutant

Fresh(r) == op[r].status = "absent"

\* POST operations: replay, accept and launch in one critical section.
Accept(r, i, k) ==
    /\ Admitting
    /\ Fresh(r)
    /\ inst[i].active = NoRequest
    /\ Acceptable(i, k)
    /\ op' = [op EXCEPT ![r] = [status |-> "queued", ship |-> i, kind |-> k,
                                rev |-> inst[i].config]]
    /\ inst' = [inst EXCEPT ![i].active = r,
                            ![i].desired = IF k = "start" THEN "running"
                                           ELSE "stopped"]
    /\ worker' = [worker EXCEPT ![r] = IF k \in Heavy THEN "waiting"
                                       ELSE "ready"]
    /\ UNCHANGED <<runtime, fence, memory, gate, poll, bulk, mode, failed,
                   engine, launched>>

\* PUT configuration with a changed configuration and the current revision.
Configure(i) ==
    /\ Admitting
    /\ inst[i].active = NoRequest
    /\ inst[i].config < MaxRevision
    /\ inst' = [inst EXCEPT ![i].config = @ + 1]
    /\ Bump(i)
    /\ UNCHANGED <<op, runtime, fence, worker, memory, gate, bulk, mode,
                   failed, engine, launched>>

-----------------------------------------------------------------------------
(* Workers *)

\* launch: the send on workGate (capacity 1) ...
AcquireGate(r) ==
    /\ worker[r] = "waiting"
    /\ gate = NoRequest
    /\ gate' = r
    /\ worker' = [worker EXCEPT ![r] = "ready"]
    /\ UNCHANGED <<durable, memory, poll, bulk, mode, failed, engine,
                   launched>>

\* ... or the canceled context: the job stays durably queued.
AbandonGate(r) ==
    /\ worker[r] = "waiting"
    /\ mode = "closing"
    /\ worker' = [worker EXCEPT ![r] = "done"]
    /\ UNCHANGED <<durable, memory, gate, poll, bulk, mode, failed, engine,
                   launched>>

\* Any ship of the host retains a maintenance container.
HostUnresolved_IfActive ==                              \* mutant
    \E i \in Instance : inst[i].active # NoRequest
                        /\ runtime[i].container = "utility"

HostUnresolved == \E i \in Instance : runtime[i].container = "utility"

Begin(r) ==
    LET i == op[r].ship IN
    /\ worker[r] = "ready"
    /\ op[r].status = "queued" /\ inst[i].active = r
    /\ op[r].kind \in Heavy => ~HostUnresolved
    /\ op' = [op EXCEPT ![r].status = "running"]
    /\ inst' = [inst EXCEPT ![i].observed = "busy",
                            ![i].launch = IF op[r].kind = "start"
                                          THEN op[r].rev ELSE @]
    /\ worker' = [worker EXCEPT ![r] = "begun"]
    /\ UNCHANGED <<runtime, fence, memory, gate, poll, bulk, mode, failed,
                   engine, launched>>

\* finish: the outcome, the released ship and the observation commit together.
Outcome(r, status, observed, recovery, applied) ==
    LET i == op[r].ship IN
    /\ inst[i].active = r
    /\ op' = [op EXCEPT ![r].status = status]
    /\ inst' = [inst EXCEPT ![i].active = NoRequest,
                            ![i].observed = observed,
                            ![i].recovery = recovery,
                            ![i].applied = applied]
    /\ worker' = [worker EXCEPT ![r] = "done"]
    /\ memory' = [memory EXCEPT ![r] = Blank]
    /\ Bump(i)
    /\ UNCHANGED <<fence, gate, bulk, mode, failed, engine, launched>>

FailedStatus == IF mode = "closing" THEN "interrupted" ELSE "failed"

\* beginOperation refused with host_recovery_required: never dispatched.
Refuse(r) ==
    /\ worker[r] = "ready"
    /\ op[r].kind \in Heavy /\ HostUnresolved
    /\ Outcome(r, "failed", "unknown", TRUE, inst[op[r].ship].applied)
    /\ UNCHANGED runtime

-----------------------------------------------------------------------------
(* ApplyManaged.  Every change of the ManagedState goes through runtimeUpdate *)
(* before the next Docker call.                                               *)

\* runtimeUpdate: the new state and a RuntimeRevision bump, one transaction.
\* A refused save changes nothing; an unacknowledged one committed without the
\* driver knowing.  Either way the driver goes no further than finish, to which
\* it hands the state it falls back to.
Persist(r, state, next, fallback) ==
    LET i == op[r].ship IN
    /\ inst[i].active = r
    /\ \/ /\ runtime' = [runtime EXCEPT ![i] = state]
          /\ worker' = [worker EXCEPT ![r] = next]
          /\ Bump(i)
          /\ UNCHANGED <<memory, failed>>
       \/ /\ \/ runtime' = [runtime EXCEPT ![i] = state] /\ Bump(i)
             \/ UNCHANGED <<runtime, poll>>
          /\ worker' = [worker EXCEPT ![r] = "faulted"]
          /\ memory' = [memory EXCEPT ![r] = fallback]
          /\ failed' = TRUE
    /\ UNCHANGED <<op, inst, fence, gate, bulk, mode, engine, launched>>

\* A save that only records progress fails.
ProgressFault(r) ==
    /\ worker[r] \in Driving \ {"removing"}
    /\ failed' = TRUE
    /\ worker' = [worker EXCEPT ![r] = "faulted"]
    /\ memory' = [memory EXCEPT ![r] = runtime[op[r].ship]]
    /\ UNCHANGED <<durable, gate, poll, bulk, mode, engine, launched>>

Wanted(r) == IF worker[r] = "begun" THEN "probe"
             ELSE IF op[r].kind = "start" THEN "runtime" ELSE "utility"

\* Maintenance publishes its report and the pending phase before any intent.
\* Without the acknowledgment the report stays, but proves nothing.
ReportPending(r) ==
    LET i == op[r].ship IN
    /\ worker[r] = "probed" /\ op[r].kind = "pack"
    /\ Persist(r, [runtime[i] EXCEPT !.maint = "pending"], "pending",
               [runtime[i] EXCEPT !.maint = "dispatched"])

\* createWithDispatchIntent appends the container before preparing its create:
\* first the probe of start and maintenance, then the one they are about.
RecordIntent(r) ==
    LET i == op[r].ship
        intended == [runtime[i] EXCEPT !.container = Wanted(r), !.sent = FALSE] IN
    /\ \/ worker[r] = "begun" /\ op[r].kind \in Heavy /\ ~Uncertain(i)
       \/ worker[r] = "probed" /\ op[r].kind = "start"
       \/ worker[r] = "pending"
    /\ Clean(i)
    /\ Persist(r, intended, "intended", intended)

\* The dispatch marker, with the maintenance phase, precedes docker create.
\* Before it is acknowledged nothing is sent, so the driver takes it back.
MarkDispatch(r) ==
    LET i == op[r].ship IN
    /\ worker[r] = "intended"
    /\ Persist(r, [runtime[i] EXCEPT !.sent = TRUE,
                      !.maint = IF runtime[i].container = "utility"
                                THEN "dispatched" ELSE @],
               "marked", runtime[i])

\* docker create and start leave the client; the daemon acts later, or never.
SendCreate(r) ==
    LET i == op[r].ship
        c == runtime[i].container IN
    /\ worker[r] = "marked"
    /\ engine' = [engine EXCEPT ![i][c] = "requested"]
    /\ launched' = [launched EXCEPT ![i] = IF c = "runtime"
                                           THEN inst[i].launch ELSE @]
    /\ worker' = [worker EXCEPT ![r] = "sent"]
    /\ UNCHANGED <<durable, memory, gate, poll, bulk, mode, failed>>

\* docker rm of an authenticated container: the probe once it answered, a
\* utility that has exited, or, for stop, the retained container the daemon
\* shows.
RemoveContainer(r) ==
    LET i == op[r].ship
        c == runtime[i].container IN
    /\ \/ worker[r] = "sent" /\ c = "probe" /\ engine[i][c] = "live"
       \/ worker[r] = "sent" /\ c = "utility" /\ engine[i][c] = "exited"
       \/ /\ worker[r] = "begun" /\ op[r].kind = "stop"
          /\ ~Clean(i) /\ runtime[i].sent
          /\ engine[i][c] \in {"created", "live", "exited"}
    /\ engine' = [engine EXCEPT ![i][c] = "absent"]
    /\ worker' = [worker EXCEPT ![r] = "removing"]
    /\ UNCHANGED <<durable, memory, gate, poll, bulk, mode, failed, launched>>

\* The container is gone; so is its record, even if the save is refused.
PersistRemoved(r) ==
    LET i == op[r].ship
        gone == [runtime[i] EXCEPT !.container = "none", !.sent = FALSE] IN
    /\ worker[r] = "removing"
    /\ Persist(r, gone,
               IF runtime[i].container = "probe" /\ op[r].kind # "stop"
               THEN "probed" ELSE "removed", gone)

\* Stop retires an intent that was provably never dispatched without Docker.
RetireIntent(r) ==
    LET i == op[r].ship
        gone == [runtime[i] EXCEPT !.container = "none"] IN
    /\ worker[r] = "begun" /\ op[r].kind = "stop"
    /\ ~Clean(i) /\ ~runtime[i].sent
    /\ Persist(r, gone, "removed", gone)

\* The maintenance fence is lifted by a completed utility, or by a stop that
\* proves the utility was never dispatched.
SettleMaintenance(r) ==
    LET i == op[r].ship IN
    /\ \/ worker[r] = "removed" /\ op[r].kind = "pack"
       \/ /\ worker[r] \in {"begun", "removed"} /\ op[r].kind = "stop"
          /\ Clean(i) /\ runtime[i].maint = "pending"
    /\ Persist(r, [runtime[i] EXCEPT !.maint = "settled"], "settled", runtime[i])

FinishOk(r) ==
    LET i == op[r].ship IN
    /\ \/ /\ op[r].kind = "start"
          /\ worker[r] = "sent" /\ runtime[i].container = "runtime"
          /\ engine[i]["runtime"] = "live"
          /\ Outcome(r, "succeeded", "running", FALSE, op[r].rev)
       \/ /\ op[r].kind = "pack"
          /\ worker[r] = "settled"
          /\ Outcome(r, "succeeded", "stopped", FALSE, inst[i].applied)
       \/ /\ op[r].kind = "inspect"
          /\ worker[r] = "begun"
          /\ Outcome(r, "succeeded", "stopped", FALSE, inst[i].applied)
       \/ /\ op[r].kind = "stop"
          /\ worker[r] \in {"begun", "removed", "settled"} /\ Clean(i)
          /\ Outcome(r, "succeeded", "stopped", Uncertain(i), inst[i].applied)
    /\ UNCHANGED runtime

\* The state a failed driver returns to finish: every intent it journaled, or
\* what it falls back to after a failed save.
Returned_Forgotten(r) ==                                \* mutant
    [runtime[op[r].ship] EXCEPT !.container = "none"]

Returned(r) == IF worker[r] = "faulted" THEN memory[r] ELSE runtime[op[r].ship]

\* finish with a cause: a Docker error, a timeout, a canceled context.
FinishFailed(r) ==
    LET i == op[r].ship IN
    /\ worker[r] \in Working
    /\ Outcome(r, FailedStatus, "unknown", TRUE, inst[i].applied)
    /\ runtime' = [runtime EXCEPT ![i] = Returned(r)]

\* finish with ErrHostCompatibility: the engine was refused before dispatch.
\* Recovery is kept, or demanded by uncertainty, but never made up.
FinishIncompatible(r) ==
    LET i == op[r].ship IN
    /\ worker[r] \in {"begun", "probed", "pending"}
    /\ \E evidence \in IF Clean(i) THEN {FALSE} ELSE BOOLEAN :
          Outcome(r, FailedStatus, "unknown",
                  inst[i].recovery \/ Uncertain(i) \/ evidence,
                  inst[i].applied)
    /\ UNCHANGED runtime

\* beginOperation or finish fails: the operation keeps its last durable status.
OutcomeLost(r) ==
    /\ worker[r] \in Working \cup {"ready"}
    /\ failed' = TRUE
    /\ worker' = [worker EXCEPT ![r] = "done"]
    /\ memory' = [memory EXCEPT ![r] = Blank]
    /\ UNCHANGED <<durable, gate, poll, bulk, mode, engine, launched>>

WorkerExit_GateKept(r) ==                               \* mutant
    /\ worker[r] = "done"
    /\ worker' = [worker EXCEPT ![r] = "none"]
    /\ UNCHANGED <<durable, memory, gate, poll, bulk, mode, failed, engine,
                   launched>>

\* The deferred calls of launch: release the gate, leave updateWorkers.
WorkerExit(r) ==
    /\ worker[r] = "done"
    /\ worker' = [worker EXCEPT ![r] = "none"]
    /\ gate' = IF gate = r THEN NoRequest ELSE gate
    /\ UNCHANGED <<durable, memory, poll, bulk, mode, failed, engine,
                   launched>>

WorkerStep(r) ==
    \/ AbandonGate(r) \/ Begin(r) \/ Refuse(r)
    \/ ReportPending(r) \/ RecordIntent(r) \/ MarkDispatch(r)
    \/ SendCreate(r) \/ RemoveContainer(r) \/ PersistRemoved(r)
    \/ RetireIntent(r) \/ SettleMaintenance(r) \/ ProgressFault(r)
    \/ FinishOk(r) \/ FinishFailed(r) \/ FinishIncompatible(r)
    \/ OutcomeLost(r) \/ WorkerExit(r)

-----------------------------------------------------------------------------
(* The Docker daemon: it runs what was requested, leaves it created, or       *)
(* refuses it; a late start still reaches a created container; a container    *)
(* exits by itself (a finished utility, a crashed ship, a rebooted host).     *)

EngineStep(i, c) ==
    /\ \/ /\ engine[i][c] = "requested"
          /\ \E s \in {"created", "live", "absent"} :
                engine' = [engine EXCEPT ![i][c] = s]
       \/ /\ engine[i][c] = "created"
          /\ engine' = [engine EXCEPT ![i][c] = "live"]
       \/ /\ engine[i][c] = "live"
          /\ engine' = [engine EXCEPT ![i][c] = "exited"]
    /\ UNCHANGED <<durable, volatile, launched>>

-----------------------------------------------------------------------------
(* The poller *)

\* What ObserveManaged may report of ship i.  Docker may be unreachable, and
\* an unsupported engine keeps an earlier recovery requirement.
Observation(i) ==
    LET c == runtime[i].container
        report(o, rec, healthy) == [observed |-> o, recovery |-> rec,
                                    healthy |-> healthy]
    IN  {report("unknown", TRUE, FALSE),
         report("unknown", inst[i].recovery \/ Uncertain(i), FALSE)}
        \cup (IF Uncertain(i) THEN {}
              ELSE IF c = "none" THEN {report("stopped", FALSE, FALSE)}
              ELSE IF c = "probe" THEN {}
              ELSE IF engine[i][c] = "live"
                   THEN {report("running", FALSE, h) : h \in BOOLEAN}
              ELSE IF engine[i][c] \in {"created", "exited"}
                   THEN {report("stopped", TRUE, FALSE)}
              ELSE {})

\* Reads the ship and observes it with no lock held.
PollRead(i) ==
    /\ mode = "up" /\ i \in Polled
    /\ ~poll[i].busy
    /\ inst[i].active = NoRequest
    /\ \E o \in Observation(i) :
          poll' = [poll EXCEPT ![i] =
                     [busy |-> TRUE, current |-> TRUE, healthy |-> o.healthy,
                      recovery |-> o.recovery, observed |-> o.observed,
                      runtime |-> runtime[i]]]
    /\ UNCHANGED <<durable, worker, memory, gate, bulk, mode, failed, engine,
                   launched>>

\* observe: commits only over the revision that was read and an idle ship.
Committable_IfIdle(i) == inst[i].active = NoRequest      \* mutant

Committable(i) == inst[i].active = NoRequest /\ poll[i].current

\* The revision a healthy running ship is known to run: the one captured when
\* its start began, which a later edit of the configuration does not move.
AppliedRevision_Edited(i) ==                             \* mutant
    IF poll[i].observed = "running" /\ poll[i].healthy
    THEN inst[i].config ELSE inst[i].applied

AppliedRevision(i) == IF poll[i].observed = "running" /\ poll[i].healthy
                      THEN inst[i].launch ELSE inst[i].applied

PollCommit(i) ==
    /\ poll[i].busy
    /\ IF Committable(i)
       THEN /\ runtime' = [runtime EXCEPT ![i] = poll[i].runtime]
            /\ inst' = [inst EXCEPT
                          ![i].observed = poll[i].observed,
                          ![i].recovery = poll[i].recovery,
                          ![i].applied = AppliedRevision(i)]
       ELSE UNCHANGED <<runtime, inst>>
    /\ poll' = [poll EXCEPT ![i] = IdlePoll]
    /\ UNCHANGED <<op, fence, worker, memory, gate, bulk, mode, failed, engine,
                   launched>>

\* A canceled observation is dropped; a refused transaction changes nothing.
PollLost(i) ==
    /\ poll[i].busy
    /\ \/ mode = "closing" /\ UNCHANGED failed
       \/ failed' = TRUE
    /\ poll' = [poll EXCEPT ![i] = IdlePoll]
    /\ UNCHANGED <<durable, worker, memory, gate, bulk, mode, engine, launched>>

-----------------------------------------------------------------------------
(* The management update fence and bulk transfers *)

\* Nothing in flight: no transfer, no worker, no active operation.
Quiet_NoActive == \A i \in Instance : inst[i].active = NoRequest  \* mutant

Quiet == /\ bulk = 0 /\ \A r \in Request : worker[r] = "none"
         /\ \A i \in Instance : inst[i].active = NoRequest

AcquireFence(t) ==
    /\ mode = "up" /\ ~failed
    /\ fence.held => fence.token = t
    /\ ~(fence.token = t /\ ~fence.held)      \* update_token_released
    /\ Quiet
    /\ fence' = [token |-> t, held |-> TRUE]
    /\ UNCHANGED <<op, inst, runtime, volatile, engine, launched>>

ReleaseFence(t) ==
    /\ mode = "up" /\ ~failed
    /\ fence = [token |-> t, held |-> TRUE]
    /\ fence' = [fence EXCEPT !.held = FALSE]
    /\ UNCHANGED <<op, inst, runtime, volatile, engine, launched>>

BeginBulk ==
    /\ Admitting /\ bulk < MaxBulk
    /\ bulk' = bulk + 1
    /\ UNCHANGED <<durable, worker, memory, gate, poll, mode, failed, engine,
                   launched>>

EndBulk_Twice ==                                        \* mutant
    /\ bulk' = bulk - 1
    /\ UNCHANGED <<durable, worker, memory, gate, poll, mode, failed, engine,
                   launched>>

EndBulk ==
    /\ bulk > 0
    /\ bulk' = bulk - 1
    /\ UNCHANGED <<durable, worker, memory, gate, poll, mode, failed, engine,
                   launched>>

-----------------------------------------------------------------------------
(* Life of the process *)

\* A transaction of a request handler or of the poller's listing is refused:
\* nothing is written and no mutation is admitted until the next start.
JournalFails ==
    /\ mode # "down" /\ ~failed
    /\ failed' = TRUE
    /\ UNCHANGED <<durable, worker, memory, gate, poll, bulk, mode, engine,
                   launched>>

Close ==
    /\ mode = "up"
    /\ mode' = "closing"
    /\ UNCHANGED <<durable, worker, memory, gate, poll, bulk, failed, engine,
                   launched>>

Down ==
    /\ mode' = "down"
    /\ worker' = [r \in Request |-> "none"]
    /\ memory' = [r \in Request |-> Blank]
    /\ gate' = NoRequest
    /\ poll' = [i \in Instance |-> IdlePoll]
    /\ bulk' = 0
    /\ failed' = FALSE
    /\ UNCHANGED <<durable, engine, launched>>

\* Close's wg.Wait: every worker, transfer and observation has left.
Closed ==
    /\ mode = "closing"
    /\ bulk = 0 /\ \A r \in Request : worker[r] = "none"
    /\ \A i \in Instance : ~poll[i].busy
    /\ Down

Crash == mode # "down" /\ Down

\* What reconcileInterrupted leaves of a ship: an active operation of unknown
\* outcome demands recovery; a start that never left the queue does not.
Reconciled_QueuedStart(i) ==                             \* mutant
    LET r == inst[i].active IN
    IF r = NoRequest \/ (op[r].kind = "start" /\ op[r].status = "queued")
    THEN inst[i]
    ELSE [inst[i] EXCEPT !.active = NoRequest, !.observed = "unknown",
                         !.recovery = TRUE]

Reconciled_NoRecovery(i) ==                              \* mutant
    IF inst[i].active = NoRequest THEN inst[i]
    ELSE [inst[i] EXCEPT !.active = NoRequest, !.observed = "unknown"]

Reconciled(i) ==
    LET r == inst[i].active IN
    IF r = NoRequest THEN inst[i]
    ELSE IF op[r].kind = "start" /\ op[r].status = "queued"
    THEN [inst[i] EXCEPT !.active = NoRequest]
    ELSE [inst[i] EXCEPT !.active = NoRequest, !.observed = "unknown",
                         !.recovery = TRUE]

\* newServerWithStartup: reconcileInterrupted commits before anything else runs.
Restart ==
    /\ mode = "down"
    /\ mode' = "up"
    /\ op' = [r \in Request |->
                 IF \E i \in Instance : inst[i].active = r
                 THEN [op[r] EXCEPT !.status = "interrupted"] ELSE op[r]]
    /\ inst' = [i \in Instance |-> Reconciled(i)]
    /\ UNCHANGED <<runtime, fence, worker, memory, gate, poll, bulk, failed,
                   engine, launched>>

-----------------------------------------------------------------------------

Next ==
    \/ \E r \in Request, i \in Instance, k \in Kind : Accept(r, i, k)
    \/ \E r \in Request : AcquireGate(r) \/ WorkerStep(r)
    \/ \E i \in Instance : Configure(i) \/ PollRead(i) \/ PollCommit(i)
                                \/ PollLost(i)
    \/ \E i \in Instance, c \in Container : EngineStep(i, c)
    \/ \E t \in Token : AcquireFence(t) \/ ReleaseFence(t)
    \/ BeginBulk \/ EndBulk \/ JournalFails
    \/ Close \/ Closed \/ Crash \/ Restart

Spec == Init /\ [][Next]_vars

\* A worker is a goroutine of a live process, so it keeps running; every
\* ApplyManaged has a deadline, so it ends.  Blocked sends on workGate are
\* served in the order they arrived, so weak fairness suffices for the finitely
\* many requests.  An observation has a timeout and a transfer ends with its
\* connection.  Close returns once everyone left, and the service is started
\* again: by systemd after a failure, by its owner after a clean stop.
Fairness ==
    /\ \A r \in Request : WF_vars(WorkerStep(r)) /\ WF_vars(AcquireGate(r))
    /\ \A i \in Instance : WF_vars(PollCommit(i) \/ PollLost(i))
    /\ WF_vars(EndBulk) /\ WF_vars(Closed) /\ WF_vars(Restart)

FairSpec == Spec /\ Fairness

-----------------------------------------------------------------------------
(* What strengthens the safety properties below into an inductive invariant *)

\* The pc of a worker against the journal.  A worker that may still drive owns
\* its ship, and a process that is down has no goroutines.
WorkerOwns ==
    /\ \A r \in Request :
          /\ worker[r] \in {"waiting", "ready"} => op[r].status = "queued"
          /\ worker[r] \in Working => op[r].status = "running"
    /\ mode = "down" => bulk = 0 /\ \A r \in Request : worker[r] = "none"

\* Heavy kinds wait for the gate and hold it until the worker has left.
GateHeld ==
    \A r \in Request :
        /\ worker[r] = "waiting" => op[r].kind \in Heavy
        /\ worker[r] \in Working \cup {"ready"} /\ op[r].kind \in Heavy =>
              gate = r

\* Where a driver is against the intent it has journaled for its ship.
IntentKnown ==
    \A r \in Request :
        LET i == op[r].ship IN
        /\ worker[r] \in {"probed", "pending", "intended", "marked", "sent"} =>
              op[r].kind \in Heavy
        /\ worker[r] = "pending" => op[r].kind = "pack"
        /\ worker[r] \in {"intended", "marked"} => ~Clean(i)
        /\ worker[r] = "marked" => runtime[i].sent
        /\ worker[r] \in {"intended", "marked", "sent"}
              /\ runtime[i].container = "utility" => op[r].kind = "pack"
        /\ worker[r] = "removing" =>
              /\ op[r].kind \in Heavy \cup {"stop"}
              /\ \A c \in Container : engine[i][c] = "absent"
        /\ worker[r] = "faulted" =>
              /\ \A c \in Container : engine[i][c] # "absent" =>
                    memory[r].container = c /\ memory[r].sent
              /\ memory[r].container = "utility" =>
                    op[r].kind \in Heavy \/ runtime[i].container = "utility"

\* Only one ship retains a utility, and while one does no heavy worker of
\* another ship is past beginOperation.
OneUtility ==
    \A i \in Instance : runtime[i].container = "utility" =>
        /\ \A j \in Instance \ {i} : runtime[j].container # "utility"
        /\ \A r \in Request :
              worker[r] \in Working /\ op[r].kind \in Heavy => op[r].ship = i

\* A snapshot that may still be committed describes the present state.
SnapshotFresh ==
    \A i \in Instance : poll[i].busy /\ poll[i].current =>
        /\ poll[i].runtime = runtime[i]
        /\ Uncertain(i) => poll[i].recovery

\* Only stop is accepted over an unresolved maintenance outcome, and a driver
\* that ends its utility has settled it.
SettledFirst ==
    \A r \in Request :
        LET i == op[r].ship IN
        /\ op[r].status = "queued" /\ op[r].kind # "stop" => ~Uncertain(i)
        /\ worker[r] \in Working /\ op[r].kind \in {"start", "inspect"} =>
              ~Uncertain(i)
        /\ worker[r] = "settled" /\ op[r].kind = "pack" => ~Uncertain(i)

\* The revisions of a ship against the container of its last start: none is
\* newer than the configuration, and a container that exists was created with
\* the revision captured when that start began.
RevisionKnown ==
    \A i \in Instance :
        /\ inst[i].applied <= inst[i].config /\ inst[i].launch <= inst[i].config
        /\ engine[i]["runtime"] # "absent" =>
              /\ launched[i] = inst[i].launch
              /\ inst[i].applied = inst[i].config =>
                    inst[i].launch = inst[i].config

\* No edit reaches a ship with an operation in flight, and only a start, which
\* found no retained container, creates the runtime.
StartKnown ==
    \A r \in Request :
        LET i == op[r].ship IN
        /\ op[r].status \in Pending => op[r].rev = inst[i].config
        /\ op[r].status = "queued" /\ op[r].kind = "start" => Clean(i)
        /\ worker[r] \in Working /\ op[r].kind = "start" =>
              inst[i].launch = op[r].rev
        /\ worker[r] \in {"intended", "marked"}
              /\ runtime[i].container = "runtime" => op[r].kind = "start"

-----------------------------------------------------------------------------
(* Properties *)

\* A ship's ActiveOperationID and the operations table agree in every committed
\* state: exactly the pending operations are some ship's active operation.
\* Acceptance, finish and restart reconciliation each write both tables.
JournalAgrees ==
    \A r \in Request, i \in Instance :
        inst[i].active = r <=> op[r].status \in Pending /\ op[r].ship = i

\* Write-ahead intents: whatever exists, or may still appear, on the Docker
\* side is a container the journal retains, so no stop, crash, late daemon
\* reply or stale observation can make the journal forget a container.
NothingUnrecorded ==
    \A i \in Instance, c \in Container :
        engine[i][c] # "absent" => runtime[i].container = c /\ runtime[i].sent

\* The host runs at most one offline utility, and while one runs no worker of
\* another ship drives start or maintenance: the work gate across live workers
\* and the host_recovery_required check across timeouts and restarts.
UtilityExclusive ==
    \A i \in Instance :
        engine[i]["utility"] \in {"requested", "created", "live"} =>
            /\ \A j \in Instance \ {i} :
                  engine[j]["utility"] \notin {"requested", "created", "live"}
            /\ \A r \in Request :
                  worker[r] \in Driving /\ op[r].kind \in Heavy =>
                      op[r].ship = i

\* A held update fence means a quiet host: no pending operation, no worker, no
\* transfer, whatever crashed or restarted since the fence was acquired.
FenceQuiet ==
    fence.held =>
        /\ bulk = 0
        /\ \A r \in Request : worker[r] = "none" /\ op[r].status \notin Pending

\* An idle ship with an unresolved maintenance outcome demands recovery, across
\* every finish, observation and restart.
UncertainDemandsRecovery ==
    \A i \in Instance :
        inst[i].active = NoRequest /\ Uncertain(i) => inst[i].recovery

\* A ship whose applied revision equals its configuration runs a container
\* created with that configuration: drift is never hidden.
NoHiddenDrift ==
    \A i \in Instance :
        engine[i]["runtime"] = "live" /\ inst[i].applied = inst[i].config =>
            launched[i] = inst[i].config

\* An outcome, once journaled, is what every replay of the request returns: no
\* terminal operation changes and no request is rebound to other input.
OutcomeFinal ==
    [][\A r \in Request :
          /\ op[r].status \in Terminal => op'[r] = op[r]
          /\ op[r].status # "absent" =>
                <<op'[r].ship, op'[r].kind, op'[r].rev>> =
                <<op[r].ship, op[r].kind, op[r].rev>>]_vars

\* While the fence is held nothing but observation touches a ship: the
\* installer replaces the executable over an unchanged journal.
FenceFreezesJournal ==
    [][fence.held /\ fence'.held =>
          /\ op' = op /\ runtime' = runtime
          /\ \A i \in Instance : inst'[i].config = inst[i].config
                                 /\ inst'[i].desired = inst[i].desired]_vars

\* The safety properties hold because all of these hold together: where every
\* worker is, what it owns and what it has recorded, against both tables.
IInv ==
    /\ TypeOK /\ JournalAgrees /\ WorkerOwns /\ GateHeld
    /\ NothingUnrecorded /\ IntentKnown /\ OneUtility
    /\ SnapshotFresh /\ SettledFirst /\ FenceQuiet /\ UncertainDemandsRecovery

\* Every accepted operation reaches a terminal status, by its own worker or by
\* the reconciliation of a restart, unless the journal refuses a write; then the
\* process stops admitting and only its next start settles the operation.
OperationSettles ==
    \A r \in Request :
        op[r].status \in Pending ~> op[r].status \in Terminal \/ failed

-----------------------------------------------------------------------------
(* What a client is promised, over the tables alone *)

Ledger == INSTANCE OperationLedger WITH
              entry <- [r \in Request |-> [status |-> op[r].status,
                                           ship |-> op[r].ship]],
              held <- fence.held

\* The journal keeps the promises of OperationLedger.
ImplementsLedger == Ledger!Spec

-----------------------------------------------------------------------------
(* What the installer is promised, whoever asks for work *)

Busy == \/ bulk > 0
        \/ \E r \in Request : worker[r] # "none" \/ op[r].status \in Pending

Fence == INSTANCE UpdateFence WITH
             busy <- Busy,
             journal <- <<op, runtime, [i \in Instance |->
                             <<inst[i].config, inst[i].desired>>]>>

\* A held fence stops the runner: it is acquired over a quiet host, and until
\* it is released no worker, crash, restart or late observation changes the
\* journal, a ManagedState or a configuration.
ImplementsFence == Fence!Spec

=============================================================================
