------------------------ MODULE RunnerJournalProofs ------------------------
(***************************************************************************)
(* Proofs that RunnerJournal keeps its safety properties for any ships,    *)
(* requests, tokens and bounds.  The argument is one inductive invariant,  *)
(* IInv; each of its conjuncts has a lemma that every step preserves it.   *)
(***************************************************************************)
EXTENDS RunnerJournal, TLAPS

-----------------------------------------------------------------------------
(* Types *)

\* A ship of an operation, and the records the state is made of, are typed.
LEMMA Typed ==
    ASSUME TypeOK, NEW r \in Request
    PROVE  /\ op[r] \in OpRecord /\ op[r].ship \in Instance
           /\ op[r].kind \in Kind /\ op[r].rev \in Revision
           /\ inst[op[r].ship] \in InstRecord
           /\ runtime[op[r].ship] \in Runtime
BY DEF TypeOK, OpRecord

LEMMA BumpType ==
    ASSUME TypeOK, NEW i \in Instance, Bump(i)
    PROVE  poll' \in [Instance -> PollRecord]
<1>1. poll[i] \in PollRecord BY DEF TypeOK
<1>2. [poll[i] EXCEPT !.current = FALSE] \in PollRecord
  BY <1>1 DEF PollRecord
<1> QED BY <1>2 DEF TypeOK, Bump

LEMMA PersistType ==
    ASSUME TypeOK, NEW r \in Request, NEW state \in Runtime,
           NEW next \in WorkerAt, NEW fallback \in Runtime,
           Persist(r, state, next, fallback)
    PROVE  TypeOK'
<1>1. op[r].ship \in Instance BY Typed
<1>2. runtime' \in [Instance -> Runtime] BY <1>1 DEF TypeOK, Persist
<1>3. worker' \in [Request -> WorkerAt]
  BY DEF TypeOK, Persist, WorkerAt, Working
<1>4. memory' \in [Request -> Runtime] BY DEF TypeOK, Persist
<1>5. poll' \in [Instance -> PollRecord]
  BY <1>1, BumpType DEF TypeOK, Persist
<1>6. failed' \in BOOLEAN BY DEF TypeOK, Persist
<1> QED BY <1>2, <1>3, <1>4, <1>5, <1>6 DEF TypeOK, Persist

LEMMA BlankType == Blank \in Runtime
BY DEF Blank, Runtime

LEMMA OutcomeType ==
    ASSUME TypeOK, NEW r \in Request, NEW status \in Terminal,
           NEW observed \in Observed, NEW recovery \in BOOLEAN,
           NEW applied \in Revision,
           Outcome(r, status, observed, recovery, applied),
           runtime' \in [Instance -> Runtime]
    PROVE  TypeOK'
<1> DEFINE i == op[r].ship
<1>1. i \in Instance /\ op[r] \in OpRecord /\ inst[i] \in InstRecord BY Typed
<1>2. op' \in [Request -> OpRecord]
  <2>1. [op[r] EXCEPT !.status = status] \in OpRecord
    BY <1>1 DEF OpRecord, Terminal
  <2> QED BY <2>1 DEF TypeOK, Outcome
<1>3. inst' \in [Instance -> InstRecord]
  <2>1. [inst[i] EXCEPT !.active = NoRequest, !.observed = observed,
                        !.recovery = recovery, !.applied = applied]
        \in InstRecord
    BY <1>1 DEF InstRecord
  <2> QED BY <1>1, <2>1 DEF TypeOK, Outcome
<1>4. worker' \in [Request -> WorkerAt] BY DEF TypeOK, Outcome, WorkerAt
<1>5. poll' \in [Instance -> PollRecord] BY <1>1, BumpType DEF Outcome
<1>6. memory' \in [Request -> Runtime] BY BlankType DEF TypeOK, Outcome
<1> QED BY <1>2, <1>3, <1>4, <1>5, <1>6 DEF TypeOK, Outcome

LEMMA WorkerType ==
    ASSUME TypeOK, NEW r \in Request, WorkerStep(r)
    PROVE  TypeOK'
<1> DEFINE i == op[r].ship
<1>0. /\ i \in Instance /\ op[r] \in OpRecord /\ inst[i] \in InstRecord
      /\ runtime[i] \in Runtime /\ op[r].rev \in Revision
      /\ inst[i].applied \in Revision /\ inst[i].launch \in Revision
      /\ inst[i].recovery \in BOOLEAN
  BY Typed DEF InstRecord
<1>1. Uncertain(i) \in BOOLEAN /\ FailedStatus \in Terminal
  BY DEF Uncertain, FailedStatus, Terminal
<1>2. \A m \in {"settled", "pending", "dispatched"} :
         [runtime[i] EXCEPT !.maint = m] \in Runtime
  BY <1>0 DEF Runtime
<1>3. \A c \in Container \cup {"none"} :
         /\ [runtime[i] EXCEPT !.container = c] \in Runtime
         /\ [runtime[i] EXCEPT !.container = c, !.sent = FALSE] \in Runtime
  BY <1>0 DEF Runtime
<1> USE DEF WorkerAt, Working, Driving
<1>4. CASE AbandonGate(r) BY <1>4 DEF TypeOK, AbandonGate, durable
<1>5. CASE Begin(r)
  <2>1. [op[r] EXCEPT !.status = "running"] \in OpRecord
    BY <1>0 DEF OpRecord, Pending
  <2>2. [inst[i] EXCEPT !.observed = "busy",
                        !.launch = IF op[r].kind = "start" THEN op[r].rev ELSE @]
        \in InstRecord
    BY <1>0 DEF InstRecord, Observed
  <2>3. op' \in [Request -> OpRecord] BY <1>5, <2>1 DEF TypeOK, Begin
  <2>4. inst' \in [Instance -> InstRecord]
    BY <1>0, <1>5, <2>2 DEF TypeOK, Begin
  <2>5. worker' \in [Request -> WorkerAt] BY <1>5 DEF TypeOK, Begin
  <2> QED BY <1>5, <2>3, <2>4, <2>5 DEF TypeOK, Begin
<1>6. CASE Refuse(r)
  <2>1. runtime' \in [Instance -> Runtime] BY <1>6 DEF TypeOK, Refuse
  <2> QED BY <1>0, <1>6, <2>1, OutcomeType DEF Refuse, Terminal, Observed
<1>7. CASE ReportPending(r)
  BY <1>2, <1>7, PersistType DEF ReportPending
<1>8. CASE RecordIntent(r)
  <2>1. Wanted(r) \in Container BY DEF Wanted, Container
  <2> QED BY <1>3, <1>8, <2>1, PersistType DEF RecordIntent
<1>8a. CASE MarkDispatch(r)
  <2> DEFINE m == IF runtime[i].container = "utility"
                  THEN "dispatched" ELSE runtime[i].maint
  <2>1. [runtime[i] EXCEPT !.sent = TRUE, !.maint = m] \in Runtime
    BY <1>0 DEF Runtime
  <2>2. Persist(r, [runtime[i] EXCEPT !.sent = TRUE, !.maint = m], "marked",
                runtime[i])
    BY <1>8a DEF MarkDispatch
  <2> HIDE DEF m
  <2> QED BY <1>0, <2>1, <2>2, PersistType
<1>9. CASE SendCreate(r)
  <2>1. engine' \in [Instance -> [Container -> EngineState]]
    BY <1>0, <1>9 DEF TypeOK, SendCreate, EngineState
  <2>2. launched' \in [Instance -> Revision]
    BY <1>0, <1>9 DEF TypeOK, SendCreate
  <2>3. worker' \in [Request -> WorkerAt] BY <1>9 DEF TypeOK, SendCreate
  <2> QED BY <1>9, <2>1, <2>2, <2>3 DEF TypeOK, SendCreate, durable
<1>10. CASE RemoveContainer(r)
  <2>1. engine' \in [Instance -> [Container -> EngineState]]
    BY <1>0, <1>10 DEF TypeOK, RemoveContainer, EngineState
  <2>2. worker' \in [Request -> WorkerAt] BY <1>10 DEF TypeOK, RemoveContainer
  <2> QED BY <1>10, <2>1, <2>2 DEF TypeOK, RemoveContainer, durable
<1>11. CASE PersistRemoved(r)
  BY <1>3, <1>11, PersistType DEF PersistRemoved
<1>11a. CASE RetireIntent(r)
  BY <1>3, <1>11a, PersistType DEF RetireIntent
<1>12. CASE SettleMaintenance(r)
  BY <1>0, <1>2, <1>12, PersistType DEF SettleMaintenance
<1>13. CASE FinishOk(r)
  <2>1. runtime' \in [Instance -> Runtime] BY <1>13 DEF TypeOK, FinishOk
  <2> QED BY <1>0, <1>1, <1>13, <2>1, OutcomeType
          DEF FinishOk, Terminal, Observed
<1>14. CASE FinishFailed(r)
  <2>1. Returned(r) \in Runtime BY <1>0 DEF TypeOK, Returned
  <2>2. runtime' \in [Instance -> Runtime]
    BY <1>0, <1>14, <2>1 DEF TypeOK, FinishFailed
  <2> QED BY <1>0, <1>1, <1>14, <2>2, OutcomeType DEF FinishFailed, Observed
<1>15. CASE FinishIncompatible(r)
  <2>1. runtime' \in [Instance -> Runtime]
    BY <1>15 DEF TypeOK, FinishIncompatible
  <2>2. PICK evidence \in BOOLEAN :
           Outcome(r, FailedStatus, "unknown",
                   inst[i].recovery \/ Uncertain(i) \/ evidence,
                   inst[i].applied)
    BY <1>15 DEF FinishIncompatible
  <2>3. (inst[i].recovery \/ Uncertain(i) \/ evidence) \in BOOLEAN OBVIOUS
  <2> QED BY <1>0, <1>1, <2>1, <2>2, <2>3, OutcomeType DEF Observed
<1>16. CASE ProgressFault(r)
  BY <1>0, <1>16 DEF TypeOK, ProgressFault, durable
<1>17. CASE OutcomeLost(r)
  BY <1>17, BlankType DEF TypeOK, OutcomeLost, durable
<1>18. CASE WorkerExit(r) BY <1>18 DEF TypeOK, WorkerExit, durable
<1> QED BY <1>4, <1>5, <1>6, <1>7, <1>8, <1>8a, <1>9, <1>10, <1>11, <1>11a,
           <1>12, <1>13, <1>14, <1>15, <1>16, <1>17, <1>18 DEF WorkerStep

LEMMA TypeStep == TypeOK /\ [Next]_vars => TypeOK'
<1> SUFFICES ASSUME TypeOK, [Next]_vars PROVE TypeOK'
  OBVIOUS
<1>1. ASSUME NEW r \in Request, NEW i \in Instance, NEW k \in Kind,
             Accept(r, i, k)
      PROVE  TypeOK'
  <2>1. inst[i] \in InstRecord /\ inst[i].config \in Revision
    BY DEF TypeOK, InstRecord
  <2>2. [status |-> "queued", ship |-> i, kind |-> k, rev |-> inst[i].config]
        \in OpRecord
    BY <2>1 DEF OpRecord, Pending
  <2>3. [inst[i] EXCEPT !.active = r,
                        !.desired = IF k = "start" THEN "running" ELSE "stopped"]
        \in InstRecord
    BY <2>1 DEF InstRecord
  <2>4. op' \in [Request -> OpRecord] BY <1>1, <2>2 DEF TypeOK, Accept
  <2>5. inst' \in [Instance -> InstRecord] BY <1>1, <2>3 DEF TypeOK, Accept
  <2>6. worker' \in [Request -> WorkerAt] BY <1>1 DEF TypeOK, Accept, WorkerAt
  <2> QED BY <1>1, <2>4, <2>5, <2>6 DEF TypeOK, Accept
<1>2. ASSUME NEW r \in Request, AcquireGate(r) PROVE TypeOK'
  BY <1>2 DEF TypeOK, AcquireGate, WorkerAt, durable
<1>3. ASSUME NEW r \in Request, WorkerStep(r) PROVE TypeOK'
  BY <1>3, WorkerType
<1>4. ASSUME NEW i \in Instance, Configure(i) PROVE TypeOK'
  <2>1. [inst[i] EXCEPT !.config = @ + 1] \in InstRecord
    <3>1. inst[i] \in InstRecord /\ inst[i].config < MaxRevision
      BY <1>4 DEF TypeOK, Configure
    <3>2. inst[i].config + 1 \in Revision
      BY <3>1, BoundsAssumption DEF InstRecord, Revision
    <3> QED BY <3>1, <3>2 DEF InstRecord
  <2>2. inst' \in [Instance -> InstRecord] BY <1>4, <2>1 DEF TypeOK, Configure
  <2>3. poll' \in [Instance -> PollRecord] BY <1>4, BumpType DEF Configure
  <2> QED BY <1>4, <2>2, <2>3 DEF TypeOK, Configure
<1>5. ASSUME NEW i \in Instance, PollRead(i) PROVE TypeOK'
  <2>1. PICK o \in Observation(i) :
           poll' = [poll EXCEPT ![i] =
                     [busy |-> TRUE, current |-> TRUE, healthy |-> o.healthy,
                      recovery |-> o.recovery, observed |-> o.observed,
                      runtime |-> runtime[i]]]
    BY <1>5 DEF PollRead
  <2>2. o.healthy \in BOOLEAN /\ o.recovery \in BOOLEAN /\ o.observed \in Observed
    <3>1. inst[i].recovery \in BOOLEAN BY DEF TypeOK, InstRecord
    <3>2. Uncertain(i) \in BOOLEAN BY DEF Uncertain
    <3>3. \E ob \in Observed, rec \in BOOLEAN, h \in BOOLEAN :
             o = [observed |-> ob, recovery |-> rec, healthy |-> h]
      BY <2>1, <3>1, <3>2 DEF Observation, Observed
    <3> QED BY <3>3
  <2>3. [busy |-> TRUE, current |-> TRUE, healthy |-> o.healthy,
         recovery |-> o.recovery, observed |-> o.observed,
         runtime |-> runtime[i]] \in PollRecord
    BY <2>2 DEF TypeOK, PollRecord
  <2>4. poll' \in [Instance -> PollRecord] BY <2>1, <2>3 DEF TypeOK
  <2> QED BY <1>5, <2>4 DEF TypeOK, PollRead, durable
<1>6. ASSUME NEW i \in Instance, PollCommit(i) PROVE TypeOK'
  <2>1. poll[i] \in PollRecord /\ inst[i] \in InstRecord BY DEF TypeOK
  <2>2. IdlePoll \in PollRecord
    BY BlankType DEF IdlePoll, PollRecord, Observed
  <2>3. poll' \in [Instance -> PollRecord] BY <1>6, <2>2 DEF TypeOK, PollCommit
  <2>4. [inst[i] EXCEPT !.observed = poll[i].observed,
                        !.recovery = poll[i].recovery,
                        !.applied = AppliedRevision(i)] \in InstRecord
    BY <2>1 DEF InstRecord, PollRecord, AppliedRevision
  <2>5. inst' \in [Instance -> InstRecord] BY <1>6, <2>4 DEF TypeOK, PollCommit
  <2>6. runtime' \in [Instance -> Runtime]
    BY <1>6, <2>1 DEF TypeOK, PollCommit, PollRecord
  <2> QED BY <1>6, <2>3, <2>5, <2>6 DEF TypeOK, PollCommit
<1>7. ASSUME NEW i \in Instance, NEW c \in Container, EngineStep(i, c)
      PROVE  TypeOK'
  <2>1. PICK s \in EngineState : engine' = [engine EXCEPT ![i][c] = s]
    BY <1>7 DEF EngineStep, EngineState
  <2>2. engine' \in [Instance -> [Container -> EngineState]]
    BY <2>1 DEF TypeOK
  <2> QED BY <1>7, <2>2 DEF TypeOK, EngineStep, durable, volatile
<1>8. ASSUME NEW t \in Token, AcquireFence(t) \/ ReleaseFence(t) PROVE TypeOK'
  <2>1. fence' \in FenceRecord
    <3>1. [token |-> t, held |-> TRUE] \in FenceRecord BY DEF FenceRecord
    <3>2. [fence EXCEPT !.held = FALSE] \in FenceRecord
      BY DEF TypeOK, FenceRecord
    <3> QED BY <1>8, <3>1, <3>2 DEF AcquireFence, ReleaseFence
  <2>2. UNCHANGED <<op, inst, runtime, volatile, engine, launched>>
    BY <1>8 DEF AcquireFence, ReleaseFence
  <2> QED BY <2>1, <2>2 DEF TypeOK, volatile
<1>9. CASE BeginBulk
  BY <1>9, BoundsAssumption DEF TypeOK, BeginBulk, durable
<1>10. CASE EndBulk BY <1>10, BoundsAssumption DEF TypeOK, EndBulk, durable
<1>11. CASE Close BY <1>11 DEF TypeOK, Close, durable
<1>12. CASE Closed \/ Crash
  <2>1. IdlePoll \in PollRecord
    BY BlankType DEF IdlePoll, PollRecord, Observed
  <2>2. poll' \in [Instance -> PollRecord]
    BY <1>12, <2>1 DEF TypeOK, Closed, Crash, Down
  <2>3. bulk' \in 0 .. MaxBulk
    BY <1>12, BoundsAssumption DEF Closed, Crash, Down
  <2>4. worker' \in [Request -> WorkerAt]
    BY <1>12 DEF Closed, Crash, Down, WorkerAt
  <2>5. memory' \in [Request -> Runtime]
    BY <1>12, BlankType DEF Closed, Crash, Down
  <2> QED BY <1>12, <2>2, <2>3, <2>4, <2>5
          DEF TypeOK, Closed, Crash, Down, durable
<1>13. CASE Restart
  <2>1. ASSUME NEW i \in Instance PROVE Reconciled(i) \in InstRecord
    <3>1. inst[i] \in InstRecord BY DEF TypeOK
    <3> QED BY <3>1 DEF InstRecord, Observed, Reconciled
  <2>2. ASSUME NEW r \in Request
        PROVE  [op[r] EXCEPT !.status = "interrupted"] \in OpRecord
    <3>1. op[r] \in OpRecord BY DEF TypeOK
    <3> QED BY <3>1 DEF OpRecord, Terminal
  <2>3. inst' \in [Instance -> InstRecord] BY <1>13, <2>1 DEF Restart
  <2>4. op' \in [Request -> OpRecord] BY <1>13, <2>2 DEF TypeOK, Restart
  <2> QED BY <1>13, <2>3, <2>4 DEF TypeOK, Restart
<1>15. ASSUME NEW i \in Instance, PollLost(i) PROVE TypeOK'
  <2>1. IdlePoll \in PollRecord
    BY BlankType DEF IdlePoll, PollRecord, Observed
  <2>2. poll' \in [Instance -> PollRecord]
    BY <1>15, <2>1 DEF TypeOK, PollLost
  <2>3. failed' \in BOOLEAN BY <1>15 DEF TypeOK, PollLost
  <2> QED BY <1>15, <2>2, <2>3 DEF TypeOK, PollLost, durable
<1>16. CASE JournalFails BY <1>16 DEF TypeOK, JournalFails, durable
<1>14. CASE UNCHANGED vars BY <1>14 DEF TypeOK, vars, durable, volatile
<1> QED BY <1>1, <1>2, <1>3, <1>4, <1>5, <1>6, <1>7, <1>8, <1>9, <1>10,
           <1>11, <1>12, <1>13, <1>14, <1>15, <1>16 DEF Next

-----------------------------------------------------------------------------
(* What each kind of step does to the tables and the workers *)

LEMMA AcceptEffect ==
    ASSUME TypeOK, NEW r \in Request, NEW i \in Instance, NEW k \in Kind,
           Accept(r, i, k)
    PROVE  /\ \A q \in Request \ {r} : op'[q] = op[q] /\ worker'[q] = worker[q]
           /\ op'[r].status = "queued" /\ op'[r].ship = i /\ op'[r].kind = k
           /\ worker'[r] = IF k \in Heavy THEN "waiting" ELSE "ready"
           /\ \A j \in Instance \ {i} : inst'[j] = inst[j]
           /\ inst'[i].active = r /\ inst'[i].recovery = inst[i].recovery
<1>1. inst[i] \in InstRecord BY DEF TypeOK
<1>2. /\ \A q \in Request \ {r} : op'[q] = op[q] /\ worker'[q] = worker[q]
      /\ op'[r] = [status |-> "queued", ship |-> i, kind |-> k,
                   rev |-> inst[i].config]
      /\ worker'[r] = IF k \in Heavy THEN "waiting" ELSE "ready"
  BY DEF TypeOK, Accept
<1>3. /\ \A j \in Instance \ {i} : inst'[j] = inst[j]
      /\ inst'[i] = [inst[i] EXCEPT !.active = r,
                        !.desired = IF k = "start" THEN "running" ELSE "stopped"]
  BY DEF TypeOK, Accept
<1> QED BY <1>1, <1>2, <1>3 DEF InstRecord

LEMMA BeginEffect ==
    ASSUME TypeOK, NEW r \in Request, Begin(r)
    PROVE  /\ \A q \in Request \ {r} : op'[q] = op[q] /\ worker'[q] = worker[q]
           /\ op'[r].status = "running" /\ op'[r].ship = op[r].ship
           /\ op'[r].kind = op[r].kind /\ worker'[r] = "begun"
           /\ \A j \in Instance : /\ inst'[j].active = inst[j].active
                                  /\ inst'[j].recovery = inst[j].recovery
<1> DEFINE i == op[r].ship
<1>1. op[r] \in OpRecord /\ i \in Instance /\ inst[i] \in InstRecord BY Typed
<1>2. /\ \A q \in Request \ {r} : op'[q] = op[q] /\ worker'[q] = worker[q]
      /\ op'[r] = [op[r] EXCEPT !.status = "running"] /\ worker'[r] = "begun"
  BY DEF TypeOK, Begin
<1>3. /\ \A j \in Instance \ {i} : inst'[j] = inst[j]
      /\ inst'[i] = [inst[i] EXCEPT !.observed = "busy",
                        !.launch = IF op[r].kind = "start" THEN op[r].rev ELSE @]
  BY <1>1 DEF TypeOK, Begin
<1>4. inst'[i].active = inst[i].active /\ inst'[i].recovery = inst[i].recovery
  BY <1>1, <1>3 DEF InstRecord
<1>5. op'[r].status = "running" /\ op'[r].ship = i /\ op'[r].kind = op[r].kind
  BY <1>1, <1>2 DEF OpRecord
<1> QED BY <1>2, <1>3, <1>4, <1>5

LEMMA OutcomeEffect ==
    ASSUME TypeOK, NEW r \in Request, NEW status, NEW observed, NEW recovery,
           NEW applied, Outcome(r, status, observed, recovery, applied)
    PROVE  /\ \A q \in Request \ {r} : op'[q] = op[q] /\ worker'[q] = worker[q]
           /\ op'[r].status = status /\ op'[r].ship = op[r].ship
           /\ op'[r].kind = op[r].kind /\ worker'[r] = "done"
           /\ \A q \in Request \ {r} : memory'[q] = memory[q]
           /\ inst[op[r].ship].active = r
           /\ \A j \in Instance \ {op[r].ship} : inst'[j] = inst[j]
           /\ inst'[op[r].ship].active = NoRequest
           /\ inst'[op[r].ship].recovery = recovery
           /\ \A j \in Instance : /\ poll'[j].busy = poll[j].busy
                                  /\ poll'[j].runtime = poll[j].runtime
                                  /\ poll'[j].recovery = poll[j].recovery
                                  /\ poll'[j].current => poll[j].current
                                  /\ j = op[r].ship => ~poll'[j].current
<1> DEFINE i == op[r].ship
<1>1. op[r] \in OpRecord /\ i \in Instance /\ inst[i] \in InstRecord BY Typed
<1>2. /\ \A q \in Request \ {r} : op'[q] = op[q] /\ worker'[q] = worker[q]
      /\ op'[r] = [op[r] EXCEPT !.status = status] /\ worker'[r] = "done"
  BY DEF TypeOK, Outcome
<1>3. /\ \A j \in Instance \ {i} : inst'[j] = inst[j]
      /\ inst'[i] = [inst[i] EXCEPT !.active = NoRequest, !.observed = observed,
                        !.recovery = recovery, !.applied = applied]
  BY <1>1 DEF TypeOK, Outcome
<1>4. \A j \in Instance : poll[j] \in PollRecord BY DEF TypeOK
<1>5. /\ \A j \in Instance \ {i} : poll'[j] = poll[j]
      /\ poll'[i] = [poll[i] EXCEPT !.current = FALSE]
  BY <1>1 DEF TypeOK, Outcome, Bump
<1>6. \A j \in Instance : /\ poll'[j].busy = poll[j].busy
                          /\ poll'[j].runtime = poll[j].runtime
                          /\ poll'[j].recovery = poll[j].recovery
                          /\ poll'[j].current => poll[j].current
                          /\ j = i => ~poll'[j].current
  BY <1>4, <1>5 DEF PollRecord
<1>7. inst[i].active = r BY DEF Outcome
<1>8. \A q \in Request \ {r} : memory'[q] = memory[q] BY DEF TypeOK, Outcome
<1> QED BY <1>1, <1>2, <1>3, <1>6, <1>7, <1>8 DEF OpRecord, InstRecord

LEMMA PersistEffect ==
    ASSUME TypeOK, NEW r \in Request, NEW state, NEW next, NEW fallback,
           Persist(r, state, next, fallback)
    PROVE  /\ \A q \in Request \ {r} : /\ worker'[q] = worker[q]
                                       /\ memory'[q] = memory[q]
           /\ \/ worker'[r] = next /\ runtime'[op[r].ship] = state
              \/ /\ worker'[r] = "faulted" /\ memory'[r] = fallback
                 /\ runtime'[op[r].ship] \in {state, runtime[op[r].ship]}
           /\ inst[op[r].ship].active = r
           /\ \A j \in Instance \ {op[r].ship} : runtime'[j] = runtime[j]
           /\ UNCHANGED <<op, inst, fence, gate, bulk, mode, engine>>
           /\ \A j \in Instance : /\ poll'[j].busy = poll[j].busy
                                  /\ poll'[j].runtime = poll[j].runtime
                                  /\ poll'[j].recovery = poll[j].recovery
                                  /\ poll'[j].current => poll[j].current
           /\ \/ runtime'[op[r].ship] = runtime[op[r].ship]
              \/ ~poll'[op[r].ship].current
<1> DEFINE i == op[r].ship
<1>1. i \in Instance BY Typed
<1>2. /\ \A q \in Request \ {r} : /\ worker'[q] = worker[q]
                                  /\ memory'[q] = memory[q]
  BY DEF TypeOK, Persist
<1>3. \A j \in Instance \ {i} : runtime'[j] = runtime[j]
  BY <1>1 DEF TypeOK, Persist
<1>4. \/ worker'[r] = next /\ runtime'[i] = state
      \/ /\ worker'[r] = "faulted" /\ memory'[r] = fallback
         /\ runtime'[i] \in {state, runtime[i]}
  BY <1>1 DEF TypeOK, Persist
<1>5. \A j \in Instance : poll[j] \in PollRecord BY DEF TypeOK
<1>6. CASE Bump(i)
  <2>1. /\ \A j \in Instance \ {i} : poll'[j] = poll[j]
        /\ poll'[i] = [poll[i] EXCEPT !.current = FALSE]
    BY <1>1, <1>6 DEF TypeOK, Bump
  <2>2. \A j \in Instance : /\ poll'[j].busy = poll[j].busy
                            /\ poll'[j].runtime = poll[j].runtime
                            /\ poll'[j].recovery = poll[j].recovery
                            /\ poll'[j].current => poll[j].current
    BY <1>5, <2>1 DEF PollRecord
  <2>3. ~poll'[i].current BY <1>1, <1>5, <2>1 DEF PollRecord
  <2> QED BY <1>2, <1>3, <1>4, <2>2, <2>3 DEF Persist
<1>7. CASE UNCHANGED <<runtime, poll>>
  BY <1>2, <1>3, <1>4, <1>7 DEF Persist
<1> QED BY <1>6, <1>7 DEF Persist

LEMMA PollCommitEffect ==
    ASSUME TypeOK, NEW i \in Instance, PollCommit(i)
    PROVE  /\ \A j \in Instance : inst'[j].active = inst[j].active
           /\ \A j \in Instance \ {i} : /\ inst'[j] = inst[j]
                                        /\ runtime'[j] = runtime[j]
                                        /\ poll'[j] = poll[j]
           /\ poll'[i] = IdlePoll
           /\ \/ inst'[i] = inst[i] /\ runtime'[i] = runtime[i]
              \/ /\ poll[i].busy /\ Committable(i)
                 /\ runtime'[i] = poll[i].runtime
                 /\ inst'[i].recovery = poll[i].recovery
<1>1. /\ \A j \in Instance \ {i} : poll'[j] = poll[j]
      /\ poll'[i] = IdlePoll
  BY DEF TypeOK, PollCommit
<1>2. CASE ~Committable(i) BY <1>1, <1>2 DEF PollCommit
<1>3. CASE Committable(i)
  <2>1. inst[i] \in InstRecord BY DEF TypeOK
  <2>2. /\ \A j \in Instance \ {i} : inst'[j] = inst[j]
        /\ inst'[i] = [inst[i] EXCEPT !.observed = poll[i].observed,
                                      !.recovery = poll[i].recovery,
                                      !.applied = AppliedRevision(i)]
    BY <1>3 DEF TypeOK, PollCommit
  <2>3. /\ \A j \in Instance \ {i} : runtime'[j] = runtime[j]
        /\ runtime'[i] = poll[i].runtime
    BY <1>3 DEF TypeOK, PollCommit
  <2>4. inst'[i].active = inst[i].active /\ inst'[i].recovery = poll[i].recovery
    BY <2>1, <2>2 DEF InstRecord
  <2> QED BY <1>1, <1>3, <2>2, <2>3, <2>4 DEF PollCommit
<1> QED BY <1>2, <1>3

\* A worker's step begins its operation, concludes it, journals a driver state
\* or touches neither table.
LEMMA WorkerStepKinds ==
    ASSUME TypeOK, NEW r \in Request, WorkerStep(r)
    PROVE  \/ Begin(r)
           \/ \E status \in Terminal : \E observed, recovery, applied :
                 Outcome(r, status, observed, recovery, applied)
           \/ UNCHANGED <<op, inst>>
<1>1. FailedStatus \in Terminal BY DEF FailedStatus, Terminal
<1>2. CASE Refuse(r) BY <1>2 DEF Refuse, Terminal
<1>3. CASE FinishOk(r) BY <1>3 DEF FinishOk, Terminal
<1>4. CASE FinishFailed(r) BY <1>1, <1>4 DEF FinishFailed
<1>5. CASE FinishIncompatible(r) BY <1>1, <1>5 DEF FinishIncompatible
<1>6. CASE \/ AbandonGate(r) \/ SendCreate(r) \/ RemoveContainer(r)
           \/ ProgressFault(r) \/ OutcomeLost(r) \/ WorkerExit(r)
  BY <1>6 DEF AbandonGate, SendCreate, RemoveContainer, ProgressFault,
              OutcomeLost, WorkerExit, durable
<1>7. CASE \/ ReportPending(r) \/ RecordIntent(r) \/ MarkDispatch(r)
           \/ PersistRemoved(r) \/ RetireIntent(r) \/ SettleMaintenance(r)
  BY <1>7 DEF ReportPending, RecordIntent, MarkDispatch, PersistRemoved,
              RetireIntent, SettleMaintenance, Persist
<1> QED BY <1>2, <1>3, <1>4, <1>5, <1>6, <1>7 DEF WorkerStep

-----------------------------------------------------------------------------
(* The two tables agree *)

LEMMA AgreeStep == TypeOK /\ JournalAgrees /\ [Next]_vars => JournalAgrees'
<1> SUFFICES ASSUME TypeOK, JournalAgrees, [Next]_vars,
                    NEW q \in Request, NEW j \in Instance
             PROVE  inst'[j].active = q <=>
                        op'[q].status \in Pending /\ op'[q].ship = j
  BY DEF JournalAgrees
<1>0. \A r \in Request, i \in Instance :
         inst[i].active = r <=> op[r].status \in Pending /\ op[r].ship = i
  BY DEF JournalAgrees
<1> DEFINE Goal == inst'[j].active = q <=>
                      op'[q].status \in Pending /\ op'[q].ship = j
<1>1. ASSUME NEW r \in Request, NEW i \in Instance, NEW k \in Kind,
             Accept(r, i, k)
      PROVE  Goal
  <2>1. op[r].status = "absent" /\ inst[i].active = NoRequest
    BY <1>1 DEF Accept, Fresh
  <2> QED BY <1>0, <1>1, <2>1, AcceptEffect, NoRequestAssumption DEF Pending
<1>2. ASSUME NEW r \in Request, AcquireGate(r) PROVE Goal
  BY <1>0, <1>2 DEF AcquireGate, durable
<1>3. ASSUME NEW r \in Request, WorkerStep(r) PROVE Goal
  <2>1. CASE Begin(r)
    <3>1. op[r].status = "queued" BY <2>1 DEF Begin
    <3> QED BY <1>0, <2>1, <3>1, BeginEffect DEF Pending
  <2>2. ASSUME NEW status \in Terminal, NEW observed, NEW recovery, NEW applied,
               Outcome(r, status, observed, recovery, applied)
        PROVE  Goal
    BY <1>0, <2>2, OutcomeEffect, Typed, NoRequestAssumption
       DEF Pending, Terminal
  <2>3. CASE UNCHANGED <<op, inst>> BY <1>0, <2>3
  <2> QED BY <1>3, <2>1, <2>2, <2>3, WorkerStepKinds
<1>4. ASSUME NEW i \in Instance, Configure(i) PROVE Goal
  <2>1. \A x \in Instance : inst'[x].active = inst[x].active
    BY <1>4 DEF TypeOK, InstRecord, Configure
  <2> QED BY <1>0, <1>4, <2>1 DEF Configure
<1>5. ASSUME NEW i \in Instance, PollRead(i) \/ PollLost(i) PROVE Goal
  BY <1>0, <1>5 DEF PollRead, PollLost, durable
<1>6. ASSUME NEW i \in Instance, PollCommit(i) PROVE Goal
  <2>1. \A x \in Instance : inst'[x].active = inst[x].active
    BY <1>6, PollCommitEffect
  <2> QED BY <1>0, <1>6, <2>1 DEF PollCommit
<1>7. ASSUME NEW i \in Instance, NEW c \in Container, EngineStep(i, c)
      PROVE  Goal
  BY <1>0, <1>7 DEF EngineStep, durable
<1>8. ASSUME NEW t \in Token, AcquireFence(t) \/ ReleaseFence(t) PROVE Goal
  BY <1>0, <1>8 DEF AcquireFence, ReleaseFence
<1>9. CASE BeginBulk \/ EndBulk \/ JournalFails \/ Close \/ Closed \/ Crash
  BY <1>0, <1>9 DEF BeginBulk, EndBulk, JournalFails, Close, Closed, Crash, Down, durable
<1>10. CASE Restart
  <2>1. inst'[j].active = NoRequest
    <3>1. inst[j] \in InstRecord /\ inst'[j] = Reconciled(j)
      BY <1>10 DEF TypeOK, Restart
    <3> QED BY <3>1 DEF InstRecord, Reconciled
  <2>2. op'[q].status \notin Pending
    <3>1. op[q] \in OpRecord /\ op[q].ship \in Instance BY Typed
    <3>2. CASE \E i \in Instance : inst[i].active = q
      <4>1. op'[q] = [op[q] EXCEPT !.status = "interrupted"]
        BY <1>10, <3>2 DEF Restart
      <4> QED BY <3>1, <4>1 DEF OpRecord, Pending
    <3>3. CASE ~\E i \in Instance : inst[i].active = q
      <4>1. op'[q] = op[q] BY <1>10, <3>3 DEF Restart
      <4> QED BY <1>0, <3>1, <3>3, <4>1
    <3> QED BY <3>2, <3>3
  <2> QED BY <2>1, <2>2, NoRequestAssumption
<1>11. CASE UNCHANGED vars BY <1>0, <1>11 DEF vars, durable
<1> QED BY <1>1, <1>2, <1>3, <1>4, <1>5, <1>6, <1>7, <1>8, <1>9, <1>10,
           <1>11 DEF Next

-----------------------------------------------------------------------------
(* Workers own their operations, the gate and the process they run in *)

\* What every step of a worker leaves alone, and how its pc moves.
LEMMA WorkerMoves ==
    ASSUME TypeOK, NEW r \in Request, WorkerStep(r)
    PROVE  /\ worker[r] # "none"
           /\ \A q \in Request \ {r} : op'[q] = op[q] /\ worker'[q] = worker[q]
           /\ op'[r].ship = op[r].ship /\ op'[r].kind = op[r].kind
           /\ \/ /\ Begin(r) /\ worker[r] = "ready" /\ worker'[r] = "begun"
                 /\ op'[r].status = "running"
              \/ /\ worker[r] \in Working /\ worker'[r] \in Working
                 /\ op' = op
              \/ worker'[r] \in {"none", "done"}
           /\ UNCHANGED <<mode, bulk, fence>>
           /\ \/ gate' = gate
              \/ gate = r /\ worker'[r] = "none"
<1> USE DEF Working, Driving
<1>1. CASE Begin(r) BY <1>1, BeginEffect DEF Begin
<1>2. ASSUME NEW status \in Terminal, NEW observed, NEW recovery, NEW applied,
             worker[r] # "none",
             Outcome(r, status, observed, recovery, applied)
      PROVE  /\ \A q \in Request \ {r} : op'[q] = op[q] /\ worker'[q] = worker[q]
             /\ op'[r].ship = op[r].ship /\ op'[r].kind = op[r].kind
             /\ worker'[r] = "done"
             /\ UNCHANGED <<mode, bulk, fence, gate>>
  <2>1. UNCHANGED <<mode, bulk, fence, gate>> BY <1>2 DEF Outcome
  <2> QED BY <1>2, <2>1, OutcomeEffect
<1>3. FailedStatus \in Terminal BY DEF FailedStatus, Terminal
<1>4. CASE Refuse(r) BY <1>2, <1>4 DEF Refuse, Terminal
<1>5. CASE FinishOk(r) BY <1>2, <1>5 DEF FinishOk, Terminal
<1>6. CASE FinishFailed(r) BY <1>2, <1>3, <1>6 DEF FinishFailed
<1>7. CASE FinishIncompatible(r) BY <1>2, <1>3, <1>7 DEF FinishIncompatible
<1>8. ASSUME NEW state, NEW next \in Working, NEW fallback,
             worker[r] \in Working, Persist(r, state, next, fallback)
      PROVE  /\ \A q \in Request \ {r} : worker'[q] = worker[q]
             /\ worker'[r] \in Working
             /\ UNCHANGED <<op, mode, bulk, fence, gate>>
  BY <1>8, PersistEffect
<1>9. CASE ReportPending(r) \/ RecordIntent(r)
  BY <1>8, <1>9 DEF ReportPending, RecordIntent
<1>10. CASE MarkDispatch(r) BY <1>8, <1>10 DEF MarkDispatch
<1>11. CASE PersistRemoved(r) \/ RetireIntent(r)
  BY <1>8, <1>11 DEF PersistRemoved, RetireIntent
<1>12. CASE SettleMaintenance(r) BY <1>8, <1>12 DEF SettleMaintenance
<1>13. CASE SendCreate(r) BY <1>13 DEF TypeOK, SendCreate, durable
<1>14. CASE RemoveContainer(r) BY <1>14 DEF TypeOK, RemoveContainer, durable
<1>15. CASE ProgressFault(r) BY <1>15 DEF TypeOK, ProgressFault, durable
<1>16. CASE OutcomeLost(r) BY <1>16 DEF TypeOK, OutcomeLost, durable
<1>17. CASE WorkerExit(r) BY <1>17 DEF TypeOK, WorkerExit, durable
<1>18. CASE AbandonGate(r) BY <1>18 DEF TypeOK, AbandonGate, durable
<1> QED BY <1>1, <1>4, <1>5, <1>6, <1>7, <1>9, <1>10, <1>11, <1>12, <1>13,
           <1>14, <1>15, <1>16, <1>17, <1>18 DEF WorkerStep

LEMMA OwnStep ==
    TypeOK /\ JournalAgrees /\ WorkerOwns /\ [Next]_vars => WorkerOwns'
<1> SUFFICES ASSUME TypeOK, JournalAgrees, WorkerOwns, [Next]_vars
             PROVE  WorkerOwns'
  OBVIOUS
<1> USE DEF WorkerOwns
<1>1. ASSUME NEW r \in Request, NEW i \in Instance, NEW k \in Kind,
             Accept(r, i, k)
      PROVE  WorkerOwns'
  <2>1. mode' = "up" BY <1>1 DEF Accept, Admitting
  <2> QED BY <1>1, <2>1, AcceptEffect DEF Working, Driving
<1>2. ASSUME NEW r \in Request, AcquireGate(r) PROVE WorkerOwns'
  BY <1>2 DEF TypeOK, AcquireGate, durable, Working, Driving
<1>3. ASSUME NEW r \in Request, WorkerStep(r) PROVE WorkerOwns'
  BY <1>3, WorkerMoves DEF Working, Driving
<1>4. ASSUME NEW i \in Instance, Configure(i) \/ PollRead(i) \/ PollLost(i) \/ PollCommit(i)
      PROVE  WorkerOwns'
  BY <1>4 DEF Configure, PollRead, PollLost, PollCommit, durable
<1>5. ASSUME NEW i \in Instance, NEW c \in Container, EngineStep(i, c)
      PROVE  WorkerOwns'
  BY <1>5 DEF EngineStep, durable, volatile
<1>6. ASSUME NEW t \in Token, AcquireFence(t) \/ ReleaseFence(t)
      PROVE  WorkerOwns'
  BY <1>6 DEF AcquireFence, ReleaseFence, volatile
<1>7. CASE BeginBulk \/ EndBulk \/ JournalFails \/ Close
  BY <1>7 DEF BeginBulk, Admitting, EndBulk, JournalFails, Close, durable
<1>8. CASE Closed \/ Crash
  BY <1>8 DEF Closed, Crash, Down, durable, Working, Driving
<1>9. CASE Restart BY <1>9 DEF Restart, Working, Driving
<1>10. CASE UNCHANGED vars BY <1>10 DEF vars, durable, volatile
<1> QED BY <1>1, <1>2, <1>3, <1>4, <1>5, <1>6, <1>7, <1>8, <1>9, <1>10 DEF Next

LEMMA GateStep ==
    TypeOK /\ WorkerOwns /\ GateHeld /\ [Next]_vars => GateHeld'
<1> SUFFICES ASSUME TypeOK, WorkerOwns, GateHeld, [Next]_vars
             PROVE  GateHeld'
  OBVIOUS
<1> USE DEF GateHeld
<1>1. ASSUME NEW r \in Request, NEW i \in Instance, NEW k \in Kind,
             Accept(r, i, k)
      PROVE  GateHeld'
  <2>1. gate' = gate BY <1>1 DEF Accept
  <2> QED BY <1>1, <2>1, AcceptEffect DEF Working, Driving
<1>2. ASSUME NEW r \in Request, AcquireGate(r) PROVE GateHeld'
  BY <1>2, NoRequestAssumption DEF TypeOK, AcquireGate, durable, Working, Driving
<1>3. ASSUME NEW r \in Request, WorkerStep(r) PROVE GateHeld'
  BY <1>3, WorkerMoves DEF Working, Driving
<1>4. ASSUME NEW i \in Instance, Configure(i) \/ PollRead(i) \/ PollLost(i) \/ PollCommit(i)
      PROVE  GateHeld'
  BY <1>4 DEF Configure, PollRead, PollLost, PollCommit, durable
<1>5. ASSUME NEW i \in Instance, NEW c \in Container, EngineStep(i, c)
      PROVE  GateHeld'
  BY <1>5 DEF EngineStep, durable, volatile
<1>6. ASSUME NEW t \in Token, AcquireFence(t) \/ ReleaseFence(t)
      PROVE  GateHeld'
  BY <1>6 DEF AcquireFence, ReleaseFence, volatile
<1>7. CASE BeginBulk \/ EndBulk \/ JournalFails \/ Close
  BY <1>7 DEF BeginBulk, EndBulk, JournalFails, Close, durable
<1>8. CASE Closed \/ Crash
  BY <1>8 DEF Closed, Crash, Down, durable, Working, Driving
<1>9. CASE Restart BY <1>9 DEF Restart, WorkerOwns, Working, Driving
<1>10. CASE UNCHANGED vars BY <1>10 DEF vars, durable, volatile
<1> QED BY <1>1, <1>2, <1>3, <1>4, <1>5, <1>6, <1>7, <1>8, <1>9, <1>10 DEF Next

\* The fence is acquired only on a quiet host and no step disturbs the quiet
\* of a held one.
LEMMA FenceStep ==
    TypeOK /\ JournalAgrees /\ FenceQuiet /\ [Next]_vars => FenceQuiet'
<1> SUFFICES ASSUME TypeOK, JournalAgrees, FenceQuiet, [Next]_vars, fence'.held
             PROVE  /\ bulk' = 0
                    /\ \A r \in Request : /\ worker'[r] = "none"
                                          /\ op'[r].status \notin Pending
  BY DEF FenceQuiet
<1> DEFINE Goal == /\ bulk' = 0
                   /\ \A r \in Request : /\ worker'[r] = "none"
                                         /\ op'[r].status \notin Pending
<1>0. fence.held => /\ bulk = 0
                    /\ \A r \in Request : /\ worker[r] = "none"
                                          /\ op[r].status \notin Pending
  BY DEF FenceQuiet
<1>1. ASSUME NEW r \in Request, NEW i \in Instance, NEW k \in Kind,
             Accept(r, i, k)
      PROVE  Goal
  BY <1>1 DEF Accept, Admitting
<1>2. ASSUME NEW r \in Request, AcquireGate(r) PROVE Goal
  BY <1>0, <1>2 DEF AcquireGate, durable
<1>3. ASSUME NEW r \in Request, WorkerStep(r) PROVE Goal
  BY <1>0, <1>3, WorkerMoves
<1>4. ASSUME NEW i \in Instance, Configure(i) \/ PollRead(i) \/ PollLost(i) \/ PollCommit(i)
      PROVE  Goal
  BY <1>0, <1>4 DEF Configure, PollRead, PollLost, PollCommit, durable
<1>5. ASSUME NEW i \in Instance, NEW c \in Container, EngineStep(i, c)
      PROVE  Goal
  BY <1>0, <1>5 DEF EngineStep, durable, volatile
<1>6. ASSUME NEW t \in Token, AcquireFence(t) PROVE Goal
  <2>1. /\ bulk = 0 /\ \A r \in Request : worker[r] = "none"
        /\ \A i \in Instance : inst[i].active = NoRequest
        /\ UNCHANGED <<op, worker, bulk>>
    BY <1>6 DEF AcquireFence, Quiet, volatile
  <2>2. \A r \in Request : op[r].status \notin Pending
    BY <2>1, Typed, NoRequestAssumption DEF JournalAgrees
  <2> QED BY <2>1, <2>2
<1>7. ASSUME NEW t \in Token, ReleaseFence(t) PROVE Goal
  <2>1. ~fence'.held
    <3>1. fence \in FenceRecord BY DEF TypeOK
    <3>2. fence' = [fence EXCEPT !.held = FALSE] BY <1>7 DEF ReleaseFence
    <3> QED BY <3>1, <3>2 DEF FenceRecord
  <2> QED BY <2>1
<1>8. CASE BeginBulk \/ EndBulk \/ JournalFails \/ Close
  BY <1>0, <1>8, BoundsAssumption
     DEF BeginBulk, Admitting, EndBulk, JournalFails, Close, durable
<1>9. CASE Closed \/ Crash
  BY <1>0, <1>9 DEF Closed, Crash, Down, durable
<1>10. CASE Restart
  <2>1. ASSUME NEW r \in Request PROVE op'[r].status \notin Pending
    <3>1. op'[r] = op[r] \/ op'[r] = [op[r] EXCEPT !.status = "interrupted"]
      BY <1>10 DEF Restart
    <3>2. op[r] \in OpRecord BY Typed
    <3>3. op[r].status \notin Pending BY <1>0, <1>10 DEF Restart
    <3> QED BY <3>1, <3>2, <3>3 DEF OpRecord, Pending
  <2> QED BY <1>0, <1>10, <2>1 DEF Restart
<1>11. CASE UNCHANGED vars BY <1>0, <1>11 DEF vars, durable, volatile
<1> QED BY <1>1, <1>2, <1>3, <1>4, <1>5, <1>6, <1>7, <1>8, <1>9, <1>10,
           <1>11 DEF Next

-----------------------------------------------------------------------------
(* Intents are journaled before Docker can act on them *)

\* A ship has at most one worker that may still drive it.
LEMMA OneWorker ==
    ASSUME TypeOK, JournalAgrees, WorkerOwns, NEW q \in Request,
           NEW r \in Request, worker[q] \in Working \cup {"ready"},
           worker[r] \in Working \cup {"ready"}, op[q].ship = op[r].ship
    PROVE  q = r
<1>1. op[q].status \in Pending /\ op[r].status \in Pending
  BY DEF WorkerOwns, Pending
<1>2. op[q].ship \in Instance BY Typed
<1> QED BY <1>1, <1>2 DEF JournalAgrees

LEMMA CleanAbsent ==
    ASSUME NothingUnrecorded, NEW i \in Instance, Clean(i)
    PROVE  \A c \in Container : engine[i][c] = "absent"
BY DEF NothingUnrecorded, Clean, Container

\* A snapshot commits the runtime it read, which is still the present one.
LEMMA PollKeepsRuntime ==
    ASSUME TypeOK, SnapshotFresh, NEW i \in Instance, PollCommit(i)
    PROVE  \A j \in Instance : runtime'[j] = runtime[j]
BY PollCommitEffect DEF SnapshotFresh, Committable

\* Where a worker has journaled an intent or depends on one.
IntentPc == {"probed", "pending", "intended", "marked", "sent", "removing",
             "faulted"}

LEMMA PersistIntent ==
    ASSUME TypeOK, JournalAgrees, WorkerOwns, NothingUnrecorded, IntentKnown,
           NEW r \in Request, NEW state, NEW next, NEW fallback,
           Persist(r, state, next, fallback), worker[r] \in Working,
           \A c \in Container : engine[op[r].ship][c] # "absent" =>
              /\ state.container = c /\ state.sent
              /\ fallback.container = c /\ fallback.sent,
           fallback.container = "utility" =>
              \/ op[r].kind \in Heavy
              \/ /\ runtime[op[r].ship].container = "utility"
                 /\ state.container = "utility",
           next \in IntentPc => op[r].kind \in Heavy,
           next = "pending" => op[r].kind = "pack",
           next \in {"intended", "marked"} => state.container # "none",
           next = "marked" => state.sent,
           next \in {"intended", "marked", "sent"} =>
              (state.container = "utility" => op[r].kind = "pack"),
           next \notin {"removing", "faulted"}
    PROVE  NothingUnrecorded' /\ IntentKnown'
<1> DEFINE i == op[r].ship
<1>0. i \in Instance BY Typed
<1>1. /\ op' = op /\ engine' = engine
      /\ \A q \in Request \ {r} : worker'[q] = worker[q] /\ memory'[q] = memory[q]
      /\ \A j \in Instance \ {i} : runtime'[j] = runtime[j]
      /\ \/ worker'[r] = next /\ runtime'[i] = state
         \/ /\ worker'[r] = "faulted" /\ memory'[r] = fallback
            /\ runtime'[i] \in {state, runtime[i]}
  BY PersistEffect
<1>2. NothingUnrecorded' BY <1>0, <1>1 DEF NothingUnrecorded
<1>3. ASSUME NEW q \in Request, q # r, worker[q] \in Working
      PROVE  runtime'[op[q].ship] = runtime[op[q].ship]
  <2>1. op[q].ship # i BY <1>3, OneWorker
  <2> QED BY <1>1, <2>1, Typed
<1>4. IntentKnown'
  <2>1. ASSUME NEW q \in Request, q # r
        PROVE  worker'[q] = worker[q] /\ memory'[q] = memory[q]
               /\ (worker[q] \in Working =>
                      runtime'[op[q].ship] = runtime[op[q].ship])
    BY <1>1, <1>3, <2>1
  <2>2. CASE worker'[r] = next /\ runtime'[i] = state
    BY <1>1, <2>1, <2>2 DEF IntentKnown, IntentPc, Clean, Working, Driving
  <2>3. CASE /\ worker'[r] = "faulted" /\ memory'[r] = fallback
             /\ runtime'[i] \in {state, runtime[i]}
    BY <1>1, <2>1, <2>3 DEF IntentKnown, IntentPc, Clean, Working, Driving
  <2> QED BY <1>1, <2>2, <2>3
<1> QED BY <1>2, <1>4

\* A step that leaves Docker and the runtime alone and advances no driver.
LEMMA IdleIntent ==
    ASSUME NothingUnrecorded, IntentKnown,
           engine' = engine, \A j \in Instance : runtime'[j] = runtime[j],
           \A q \in Request :
              \/ worker'[q] \notin IntentPc
              \/ /\ worker'[q] = worker[q] /\ memory'[q] = memory[q]
                 /\ op'[q].kind = op[q].kind
                 /\ op'[q].ship = op[q].ship /\ op[q].ship \in Instance
    PROVE  NothingUnrecorded' /\ IntentKnown'
<1>1. NothingUnrecorded' BY DEF NothingUnrecorded
<1>2. IntentKnown' BY DEF IntentKnown, IntentPc, Clean
<1> QED BY <1>1, <1>2

LEMMA OutcomeIntent ==
    ASSUME TypeOK, NothingUnrecorded, IntentKnown,
           NEW r \in Request, NEW status, NEW observed, NEW recovery,
           NEW applied, Outcome(r, status, observed, recovery, applied),
           runtime' = runtime
    PROVE  NothingUnrecorded' /\ IntentKnown'
<1>1. engine' = engine BY DEF Outcome
<1>2. \A q \in Request : op[q].ship \in Instance BY Typed
<1> QED BY <1>1, <1>2, IdleIntent, OutcomeEffect DEF IntentPc

\* finish takes over the state of a driver, whose intents cover Docker.
LEMMA FailedIntent ==
    ASSUME TypeOK, JournalAgrees, WorkerOwns, NothingUnrecorded, IntentKnown,
           NEW r \in Request, FinishFailed(r)
    PROVE  NothingUnrecorded' /\ IntentKnown'
<1> DEFINE i == op[r].ship
<1>0. i \in Instance /\ \A q \in Request : op[q].ship \in Instance BY Typed
<1>1. /\ \A j \in Instance \ {i} : runtime'[j] = runtime[j]
      /\ runtime'[i] = Returned(r)
  BY <1>0 DEF TypeOK, FinishFailed
<1>2. PICK status, observed, recovery, applied :
         Outcome(r, status, observed, recovery, applied)
  BY DEF FinishFailed
<1>3. engine' = engine BY <1>2 DEF Outcome
<1>4. \A c \in Container : engine[i][c] # "absent" =>
         Returned(r).container = c /\ Returned(r).sent
  BY <1>0 DEF Returned, NothingUnrecorded, IntentKnown
<1>5. NothingUnrecorded' BY <1>1, <1>3, <1>4 DEF NothingUnrecorded
<1>6. ASSUME NEW q \in Request, worker'[q] \in Working
      PROVE  /\ worker'[q] = worker[q] /\ memory'[q] = memory[q]
             /\ op'[q] = op[q] /\ runtime'[op[q].ship] = runtime[op[q].ship]
  <2>1. q # r BY <1>2, <1>6, OutcomeEffect DEF Working, Driving
  <2>2. worker'[q] = worker[q] /\ memory'[q] = memory[q] /\ op'[q] = op[q]
    BY <1>2, <2>1, OutcomeEffect
  <2>3. op[q].ship # i BY <1>6, <2>1, <2>2, OneWorker DEF FinishFailed
  <2> QED BY <1>0, <1>1, <2>2, <2>3
<1>7. IntentKnown'
  BY <1>3, <1>6 DEF IntentKnown, Clean, Working, Driving
<1> QED BY <1>5, <1>7

LEMMA WorkerIntent ==
    ASSUME TypeOK, JournalAgrees, WorkerOwns, NothingUnrecorded, IntentKnown,
           NEW r \in Request, WorkerStep(r)
    PROVE  NothingUnrecorded' /\ IntentKnown'
<1> DEFINE i == op[r].ship
<1>0. /\ i \in Instance /\ runtime[i] \in Runtime
      /\ \A q \in Request : op[q].ship \in Instance
  BY Typed
<1>1. \A c \in Container : engine[i][c] # "absent" =>
         runtime[i].container = c /\ runtime[i].sent
  BY <1>0 DEF NothingUnrecorded
<1> USE DEF Working, Driving
<1>2. CASE Begin(r)
  <2>1. engine' = engine /\ runtime' = runtime /\ memory' = memory
    BY <1>2 DEF Begin
  <2> QED BY <1>0, <1>2, <2>1, BeginEffect, IdleIntent DEF IntentPc
<1>3. CASE Refuse(r) BY <1>3, OutcomeIntent DEF Refuse
<1>4. CASE FinishOk(r) BY <1>4, OutcomeIntent DEF FinishOk
<1>5. CASE FinishIncompatible(r)
  BY <1>5, OutcomeIntent DEF FinishIncompatible
<1>6. CASE FinishFailed(r) BY <1>6, FailedIntent
<1>7. CASE ReportPending(r)
  <2> DEFINE state == [runtime[i] EXCEPT !.maint = "pending"]
             fallback == [runtime[i] EXCEPT !.maint = "dispatched"]
  <2>1. /\ state.container = runtime[i].container /\ state.sent = runtime[i].sent
        /\ fallback.container = runtime[i].container
        /\ fallback.sent = runtime[i].sent
    BY <1>0 DEF Runtime
  <2>2. Persist(r, state, "pending", fallback) /\ op[r].kind = "pack"
        /\ worker[r] = "probed" /\ op[r].kind \in Heavy
    BY <1>7 DEF ReportPending, Heavy
  <2> HIDE DEF state, fallback
  <2> QED BY <1>1, <2>1, <2>2, PersistIntent DEF IntentPc
<1>8. CASE RecordIntent(r)
  <2> DEFINE state == [runtime[i] EXCEPT !.container = Wanted(r), !.sent = FALSE]
  <2>1. state.container = Wanted(r) BY <1>0 DEF Runtime
  <2>2. Persist(r, state, "intended", state) /\ Clean(i)
        /\ worker[r] \in Working
    BY <1>8 DEF RecordIntent
  <2>3. op[r].kind \in Heavy
    BY <1>8 DEF RecordIntent, IntentKnown, Heavy
  <2>4. Wanted(r) \in Container
        /\ (Wanted(r) = "utility" => op[r].kind = "pack")
    BY <2>3 DEF Wanted, Container, Heavy
  <2>5. \A c \in Container : engine[i][c] = "absent"
    BY <1>0, <2>2, CleanAbsent
  <2> HIDE DEF state
  <2> QED BY <2>1, <2>2, <2>3, <2>4, <2>5, PersistIntent DEF Container
<1>9. CASE MarkDispatch(r)
  <2> DEFINE m == IF runtime[i].container = "utility"
                  THEN "dispatched" ELSE runtime[i].maint
             state == [runtime[i] EXCEPT !.sent = TRUE, !.maint = m]
  <2>1. state.container = runtime[i].container /\ state.sent
    BY <1>0 DEF Runtime
  <2>2. Persist(r, state, "marked", runtime[i]) /\ worker[r] = "intended"
    BY <1>9 DEF MarkDispatch
  <2>3. /\ op[r].kind \in Heavy /\ runtime[i].container # "none"
        /\ runtime[i].container = "utility" => op[r].kind = "pack"
    BY <2>2 DEF IntentKnown, Clean
  <2> HIDE DEF state
  <2> QED BY <1>1, <2>1, <2>2, <2>3, PersistIntent
<1>10. CASE PersistRemoved(r)
  <2> DEFINE gone == [runtime[i] EXCEPT !.container = "none", !.sent = FALSE]
             next == IF runtime[i].container = "probe" /\ op[r].kind # "stop"
                     THEN "probed" ELSE "removed"
  <2>1. Persist(r, gone, next, gone) /\ worker[r] = "removing"
    BY <1>10 DEF PersistRemoved
  <2>2. /\ \A c \in Container : engine[i][c] = "absent"
        /\ next = "probed" => op[r].kind \in Heavy
    BY <2>1 DEF IntentKnown
  <2>3. gone.container = "none" BY <1>0 DEF Runtime
  <2>4. next \in {"probed", "removed"} OBVIOUS
  <2> HIDE DEF gone, next
  <2> QED BY <2>1, <2>2, <2>3, <2>4, PersistIntent DEF IntentPc
<1>11. CASE RetireIntent(r)
  <2> DEFINE gone == [runtime[i] EXCEPT !.container = "none"]
  <2>1. Persist(r, gone, "removed", gone) /\ worker[r] = "begun"
        /\ ~runtime[i].sent
    BY <1>11 DEF RetireIntent
  <2>2. gone.container = "none" BY <1>0 DEF Runtime
  <2> HIDE DEF gone
  <2> QED BY <1>1, <2>1, <2>2, PersistIntent DEF IntentPc
<1>12. CASE SettleMaintenance(r)
  <2> DEFINE state == [runtime[i] EXCEPT !.maint = "settled"]
  <2>1. state.container = runtime[i].container /\ state.sent = runtime[i].sent
    BY <1>0 DEF Runtime
  <2>2. Persist(r, state, "settled", runtime[i]) /\ worker[r] \in Working
    BY <1>12 DEF SettleMaintenance
  <2> HIDE DEF state
  <2> QED BY <1>1, <2>1, <2>2, PersistIntent DEF IntentPc
<1>13. CASE SendCreate(r)
  <2> DEFINE x == runtime[i].container
  <2>1. /\ op[r].kind \in Heavy /\ runtime[i].sent
        /\ x = "utility" => op[r].kind = "pack"
    BY <1>13 DEF SendCreate, IntentKnown
  <2>2. /\ \A j \in Instance \ {i} : engine'[j] = engine[j]
        /\ \A c \in Container \ {x} : engine'[i][c] = engine[i][c]
        /\ UNCHANGED <<op, runtime, memory>> /\ worker'[r] = "sent"
        /\ \A q \in Request \ {r} : worker'[q] = worker[q]
    BY <1>0, <1>13 DEF TypeOK, SendCreate, durable
  <2>3. NothingUnrecorded' BY <2>1, <2>2 DEF NothingUnrecorded
  <2>4. ASSUME NEW q \in Request, q # r, worker[q] \in Working
        PROVE  engine'[op[q].ship] = engine[op[q].ship]
    <3>1. op[q].ship # i BY <1>13, <2>4, OneWorker DEF SendCreate
    <3> QED BY <1>0, <2>2, <3>1
  <2>5. IntentKnown' BY <2>1, <2>2, <2>4 DEF IntentKnown, Clean
  <2> QED BY <2>3, <2>5
<1>14. CASE RemoveContainer(r)
  <2>1. /\ worker[r] \in Working /\ runtime[i].container \in Container
        /\ op[r].kind \in Heavy \cup {"stop"}
    <3>1. CASE worker[r] = "sent"
      BY <1>14, <3>1 DEF RemoveContainer, IntentKnown, Container
    <3>2. CASE worker[r] = "begun"
      BY <1>0, <1>14, <3>2 DEF RemoveContainer, Clean, Runtime
    <3> QED BY <1>14, <3>1, <3>2 DEF RemoveContainer
  <2>2. /\ \A j \in Instance \ {i} : engine'[j] = engine[j]
        /\ UNCHANGED <<op, runtime, memory>> /\ worker'[r] = "removing"
        /\ \A q \in Request \ {r} : worker'[q] = worker[q]
    BY <1>0, <1>14 DEF TypeOK, RemoveContainer, durable
  <2>3. engine'[i] = [engine[i] EXCEPT ![runtime[i].container] = "absent"]
    BY <1>0, <1>14 DEF TypeOK, RemoveContainer
  <2>4. \A c \in Container : engine'[i][c] = "absent"
    <3>1. engine[i] \in [Container -> EngineState] BY <1>0 DEF TypeOK
    <3> QED BY <1>1, <2>1, <2>3, <3>1
  <2>5. NothingUnrecorded' BY <2>2, <2>4 DEF NothingUnrecorded
  <2>6. ASSUME NEW q \in Request, q # r, worker[q] \in Working
        PROVE  engine'[op[q].ship] = engine[op[q].ship]
    <3>1. op[q].ship # i BY <2>1, <2>6, OneWorker
    <3> QED BY <1>0, <2>2, <3>1
  <2>7. IntentKnown' BY <2>1, <2>2, <2>4, <2>6 DEF IntentKnown, Clean
  <2> QED BY <2>5, <2>7
<1>15. CASE ProgressFault(r)
  <2>1. /\ UNCHANGED <<op, runtime, engine>> /\ worker'[r] = "faulted"
        /\ memory'[r] = runtime[i]
        /\ \A q \in Request \ {r} : /\ worker'[q] = worker[q]
                                    /\ memory'[q] = memory[q]
    BY <1>15 DEF TypeOK, ProgressFault, durable
  <2>2. NothingUnrecorded' BY <2>1 DEF NothingUnrecorded
  <2>3. IntentKnown' BY <1>1, <2>1 DEF IntentKnown, Clean
  <2> QED BY <2>2, <2>3
<1>16. CASE AbandonGate(r) \/ OutcomeLost(r) \/ WorkerExit(r)
  <2>1. /\ UNCHANGED <<op, runtime, engine>>
        /\ \A q \in Request \ {r} : /\ worker'[q] = worker[q]
                                    /\ memory'[q] = memory[q]
        /\ worker'[r] \in {"done", "none"}
    BY <1>16 DEF TypeOK, AbandonGate, OutcomeLost, WorkerExit, durable
  <2> QED BY <1>0, <2>1, IdleIntent DEF IntentPc
<1> QED BY <1>2, <1>3, <1>4, <1>5, <1>6, <1>7, <1>8, <1>9, <1>10, <1>11,
           <1>12, <1>13, <1>14, <1>15, <1>16 DEF WorkerStep

LEMMA IntentStep ==
    /\ TypeOK /\ JournalAgrees /\ WorkerOwns /\ SnapshotFresh
    /\ NothingUnrecorded /\ IntentKnown /\ [Next]_vars
    => NothingUnrecorded' /\ IntentKnown'
<1> SUFFICES ASSUME TypeOK, JournalAgrees, WorkerOwns, SnapshotFresh,
                    NothingUnrecorded, IntentKnown, [Next]_vars
             PROVE  NothingUnrecorded' /\ IntentKnown'
  OBVIOUS
<1>0. \A q \in Request : op[q].ship \in Instance BY Typed
<1>1. ASSUME NEW r \in Request, NEW i \in Instance, NEW k \in Kind,
             Accept(r, i, k)
      PROVE  NothingUnrecorded' /\ IntentKnown'
  <2>1. engine' = engine /\ runtime' = runtime /\ memory' = memory
    BY <1>1 DEF Accept
  <2>2. worker'[r] \in {"waiting", "ready"} BY <1>1, AcceptEffect
  <2> QED BY <1>0, <1>1, <2>1, <2>2, AcceptEffect, IdleIntent DEF IntentPc
<1>2. ASSUME NEW r \in Request, AcquireGate(r)
      PROVE  NothingUnrecorded' /\ IntentKnown'
  <2>1. /\ UNCHANGED <<op, runtime, engine, memory>> /\ worker'[r] = "ready"
        /\ \A q \in Request \ {r} : worker'[q] = worker[q]
    BY <1>2 DEF TypeOK, AcquireGate, durable
  <2> QED BY <1>0, <2>1, IdleIntent DEF IntentPc
<1>3. ASSUME NEW r \in Request, WorkerStep(r)
      PROVE  NothingUnrecorded' /\ IntentKnown'
  BY <1>3, WorkerIntent
<1>4. ASSUME NEW i \in Instance, Configure(i) \/ PollRead(i) \/ PollLost(i)
      PROVE  NothingUnrecorded' /\ IntentKnown'
  <2>1. UNCHANGED <<op, runtime, engine, worker, memory>>
    BY <1>4 DEF Configure, PollRead, PollLost, durable
  <2> QED BY <1>0, <2>1, IdleIntent
<1>5. ASSUME NEW i \in Instance, PollCommit(i)
      PROVE  NothingUnrecorded' /\ IntentKnown'
  <2>1. UNCHANGED <<op, engine, worker, memory>> BY <1>5 DEF PollCommit
  <2> QED BY <1>0, <1>5, <2>1, IdleIntent, PollKeepsRuntime
<1>6. ASSUME NEW i \in Instance, NEW c \in Container, EngineStep(i, c)
      PROVE  NothingUnrecorded' /\ IntentKnown'
  <2>1. /\ engine[i][c] # "absent" /\ UNCHANGED <<op, runtime, worker, memory>>
        /\ \A j \in Instance \ {i} : engine'[j] = engine[j]
        /\ \A x \in Container \ {c} : engine'[i][x] = engine[i][x]
    BY <1>6 DEF TypeOK, EngineStep, durable, volatile
  <2>2. NothingUnrecorded' BY <2>1 DEF NothingUnrecorded
  <2>3. IntentKnown'
    BY <1>0, <2>1 DEF IntentKnown, Clean
  <2> QED BY <2>2, <2>3
<1>7. ASSUME NEW t \in Token, AcquireFence(t) \/ ReleaseFence(t)
      PROVE  NothingUnrecorded' /\ IntentKnown'
  <2>1. UNCHANGED <<op, runtime, engine, worker, memory>>
    BY <1>7 DEF AcquireFence, ReleaseFence, volatile
  <2> QED BY <1>0, <2>1, IdleIntent
<1>8. CASE BeginBulk \/ EndBulk \/ JournalFails \/ Close
  <2>1. UNCHANGED <<op, runtime, engine, worker, memory>>
    BY <1>8 DEF BeginBulk, EndBulk, JournalFails, Close, durable
  <2> QED BY <1>0, <2>1, IdleIntent
<1>9. CASE Closed \/ Crash
  <2>1. UNCHANGED <<runtime, engine>> /\ \A q \in Request : worker'[q] = "none"
    BY <1>9 DEF Closed, Crash, Down, durable
  <2> QED BY <2>1, IdleIntent DEF IntentPc
<1>10. CASE Restart
  <2>1. UNCHANGED <<runtime, engine>> /\ \A q \in Request : worker'[q] = "none"
    BY <1>10 DEF Restart, WorkerOwns
  <2> QED BY <2>1, IdleIntent DEF IntentPc
<1>11. CASE UNCHANGED vars
  <2>1. UNCHANGED <<op, runtime, engine, worker, memory>>
    BY <1>11 DEF vars, durable, volatile
  <2> QED BY <1>0, <2>1, IdleIntent
<1> QED BY <1>1, <1>2, <1>3, <1>4, <1>5, <1>6, <1>7, <1>8, <1>9, <1>10,
           <1>11 DEF Next

-----------------------------------------------------------------------------
(* Snapshots, the single utility and the maintenance fence *)

\* A worker changes the runtime of no ship but its own, and only while it
\* drives it; whenever it does, an uncommitted snapshot of the ship is stale.
LEMMA WorkerRuntime ==
    ASSUME TypeOK, NEW r \in Request, WorkerStep(r)
    PROVE  /\ \A j \in Instance \ {op[r].ship} : runtime'[j] = runtime[j]
           /\ \/ runtime'[op[r].ship] = runtime[op[r].ship]
              \/ worker[r] \in Working /\ ~poll'[op[r].ship].current
           /\ \A j \in Instance : /\ poll'[j].busy = poll[j].busy
                                  /\ poll'[j].runtime = poll[j].runtime
                                  /\ poll'[j].recovery = poll[j].recovery
                                  /\ poll'[j].current => poll[j].current
<1> DEFINE i == op[r].ship
<1> DEFINE Goal ==
      /\ \A j \in Instance \ {i} : runtime'[j] = runtime[j]
      /\ \/ runtime'[i] = runtime[i]
         \/ worker[r] \in Working /\ ~poll'[i].current
      /\ \A j \in Instance : /\ poll'[j].busy = poll[j].busy
                             /\ poll'[j].runtime = poll[j].runtime
                             /\ poll'[j].recovery = poll[j].recovery
                             /\ poll'[j].current => poll[j].current
<1>0. i \in Instance BY Typed
<1>1. ASSUME NEW status, NEW observed, NEW recovery, NEW applied,
             Outcome(r, status, observed, recovery, applied),
             \/ runtime' = runtime
             \/ /\ worker[r] \in Working
                /\ \A j \in Instance \ {i} : runtime'[j] = runtime[j]
      PROVE  Goal
  BY <1>0, <1>1, OutcomeEffect
<1>2. ASSUME NEW state, NEW next, NEW fallback,
             Persist(r, state, next, fallback), worker[r] \in Working
      PROVE  Goal
  BY <1>0, <1>2, PersistEffect
<1> USE DEF Working, Driving
<1>3. CASE Refuse(r) BY <1>1, <1>3 DEF Refuse
<1>4. CASE FinishOk(r) BY <1>1, <1>4 DEF FinishOk
<1>5. CASE FinishIncompatible(r) BY <1>1, <1>5 DEF FinishIncompatible
<1>6. CASE FinishFailed(r)
  <2>1. \A j \in Instance \ {i} : runtime'[j] = runtime[j]
    BY <1>6 DEF TypeOK, FinishFailed
  <2> QED BY <1>1, <1>6, <2>1 DEF FinishFailed
<1>7. CASE ReportPending(r) \/ RecordIntent(r)
  BY <1>2, <1>7 DEF ReportPending, RecordIntent
<1>8. CASE MarkDispatch(r) BY <1>2, <1>8 DEF MarkDispatch
<1>9. CASE PersistRemoved(r) \/ RetireIntent(r)
  BY <1>2, <1>9 DEF PersistRemoved, RetireIntent
<1>10. CASE SettleMaintenance(r) BY <1>2, <1>10 DEF SettleMaintenance
<1>11. CASE \/ AbandonGate(r) \/ Begin(r) \/ SendCreate(r) \/ RemoveContainer(r)
            \/ ProgressFault(r) \/ OutcomeLost(r) \/ WorkerExit(r)
  BY <1>11 DEF AbandonGate, Begin, SendCreate, RemoveContainer, ProgressFault,
               OutcomeLost, WorkerExit, durable
<1> QED BY <1>3, <1>4, <1>5, <1>6, <1>7, <1>8, <1>9, <1>10, <1>11
        DEF WorkerStep

LEMMA SnapshotStep ==
    TypeOK /\ SnapshotFresh /\ [Next]_vars => SnapshotFresh'
<1> SUFFICES ASSUME TypeOK, SnapshotFresh, [Next]_vars,
                    NEW j \in Instance, poll'[j].busy, poll'[j].current
             PROVE  /\ poll'[j].runtime = runtime'[j]
                    /\ runtime'[j].maint # "settled" => poll'[j].recovery
  BY DEF SnapshotFresh, Uncertain
<1> DEFINE Goal == /\ poll'[j].runtime = runtime'[j]
                   /\ runtime'[j].maint # "settled" => poll'[j].recovery
<1>0. poll[j].busy /\ poll[j].current =>
         /\ poll[j].runtime = runtime[j]
         /\ runtime[j].maint # "settled" => poll[j].recovery
  BY DEF SnapshotFresh, Uncertain
<1>1. CASE UNCHANGED <<poll, runtime>> BY <1>0, <1>1
<1>2. ASSUME NEW r \in Request, NEW i \in Instance, NEW k \in Kind,
             Accept(r, i, k)
      PROVE  Goal
  BY <1>1, <1>2 DEF Accept
<1>3. ASSUME NEW r \in Request, AcquireGate(r) PROVE Goal
  BY <1>1, <1>3 DEF AcquireGate, durable
<1>4. ASSUME NEW r \in Request, WorkerStep(r) PROVE Goal
  BY <1>0, <1>4, WorkerRuntime
<1>5. ASSUME NEW i \in Instance, Configure(i) PROVE Goal
  <2>1. poll[i] \in PollRecord /\ runtime' = runtime
    BY <1>5 DEF TypeOK, Configure
  <2>2. /\ \A x \in Instance \ {i} : poll'[x] = poll[x]
        /\ poll'[i] = [poll[i] EXCEPT !.current = FALSE]
    BY <1>5 DEF TypeOK, Configure, Bump
  <2>3. j # i BY <2>1, <2>2 DEF PollRecord
  <2> QED BY <1>0, <2>1, <2>2, <2>3
<1>6. ASSUME NEW i \in Instance, PollRead(i) PROVE Goal
  <2>1. PICK o \in Observation(i) :
           poll' = [poll EXCEPT ![i] =
                     [busy |-> TRUE, current |-> TRUE, healthy |-> o.healthy,
                      recovery |-> o.recovery, observed |-> o.observed,
                      runtime |-> runtime[i]]]
    BY <1>6 DEF PollRead
  <2>2. runtime' = runtime BY <1>6 DEF PollRead, durable
  <2>3. Uncertain(i) => o.recovery
    <3>1. Uncertain(i) \in BOOLEAN /\ inst[i].recovery \in BOOLEAN
      BY DEF TypeOK, InstRecord, Uncertain
    <3>2. ASSUME Uncertain(i)
          PROVE  o = [observed |-> "unknown", recovery |-> TRUE,
                      healthy |-> FALSE]
      <4>1. (inst[i].recovery \/ Uncertain(i)) = TRUE BY <3>2
      <4> QED BY <2>1, <3>2, <4>1 DEF Observation
    <3> QED BY <3>2
  <2>4. CASE j = i
    BY <2>1, <2>2, <2>3, <2>4 DEF TypeOK, Uncertain
  <2>5. CASE j # i
    <3>1. poll'[j] = poll[j] BY <2>1, <2>5 DEF TypeOK
    <3> QED BY <1>0, <2>2, <3>1
  <2> QED BY <2>4, <2>5
<1>7. ASSUME NEW i \in Instance, PollCommit(i) PROVE Goal
  <2>1. poll'[i] = IdlePoll BY <1>7, PollCommitEffect
  <2>2. j # i BY <2>1 DEF IdlePoll
  <2> QED BY <1>0, <1>7, <2>2, PollCommitEffect
<1>8. ASSUME NEW i \in Instance, NEW c \in Container, EngineStep(i, c)
      PROVE  Goal
  BY <1>1, <1>8 DEF EngineStep, durable, volatile
<1>9. ASSUME NEW t \in Token, AcquireFence(t) \/ ReleaseFence(t) PROVE Goal
  BY <1>1, <1>9 DEF AcquireFence, ReleaseFence, volatile
<1>10. CASE BeginBulk \/ EndBulk \/ JournalFails \/ Close \/ Restart
  BY <1>1, <1>10 DEF BeginBulk, EndBulk, JournalFails, Close, Restart, durable
<1>11. CASE Closed \/ Crash
  BY <1>11 DEF Closed, Crash, Down, IdlePoll
<1>12. CASE UNCHANGED vars BY <1>1, <1>12 DEF vars, durable, volatile
<1>13. ASSUME NEW i \in Instance, PollLost(i) PROVE Goal
  <2>1. poll'[i] = IdlePoll /\ runtime' = runtime
    BY <1>13 DEF TypeOK, PollLost, durable
  <2>2. \A x \in Instance \ {i} : poll'[x] = poll[x]
    BY <1>13 DEF TypeOK, PollLost
  <2> QED BY <1>0, <2>1, <2>2 DEF IdlePoll
<1> QED BY <1>2, <1>3, <1>4, <1>5, <1>6, <1>7, <1>8, <1>9, <1>10, <1>11,
           <1>12, <1>13 DEF Next

\* A step that makes no ship retain a utility and starts no heavy driver.
LEMMA KeepUtility ==
    ASSUME OneUtility,
           \A j \in Instance : runtime'[j].container = "utility" =>
                                  runtime[j].container = "utility",
           \A q \in Request :
              worker'[q] \in Working /\ op'[q].kind \in Heavy =>
                 /\ worker[q] \in Working /\ op'[q].kind = op[q].kind
                 /\ op'[q].ship = op[q].ship
    PROVE  OneUtility'
BY DEF OneUtility

\* A worker records a utility only for its own ship, while it holds the gate;
\* beginOperation let it through because no ship retained one.
LEMMA WorkerUtility ==
    ASSUME TypeOK, JournalAgrees, WorkerOwns, GateHeld, IntentKnown, OneUtility,
           NEW r \in Request, WorkerStep(r)
    PROVE  OneUtility'
<1> DEFINE i == op[r].ship
<1>0. i \in Instance /\ runtime[i] \in Runtime BY Typed
<1>1. CASE Begin(r)
  <2>1. runtime' = runtime /\ (op[r].kind \in Heavy => ~HostUnresolved)
    BY <1>1 DEF Begin
  <2>2. CASE op[r].kind \in Heavy
    BY <2>1, <2>2 DEF HostUnresolved, OneUtility
  <2>3. CASE op[r].kind \notin Heavy
    BY <1>1, <2>1, <2>3, BeginEffect, KeepUtility
  <2> QED BY <2>2, <2>3
<1>2. ASSUME ~Begin(r),
             runtime'[i].container = "utility" =>
                runtime[i].container = "utility"
      PROVE  OneUtility'
  <2>1. worker'[r] \in Working => worker[r] \in Working
    BY <1>2, WorkerMoves DEF Working, Driving
  <2>2. \A j \in Instance : runtime'[j].container = "utility" =>
                               runtime[j].container = "utility"
    BY <1>2, WorkerRuntime
  <2> QED BY <2>1, <2>2, WorkerMoves, KeepUtility
<1>3. ASSUME worker[r] \in Working, op[r].kind \in Heavy PROVE OneUtility'
  <2>1. ~Begin(r) BY <1>3 DEF Begin, Working, Driving
  <2>2. ASSUME NEW q \in Request, worker'[q] \in Working, op'[q].kind \in Heavy
        PROVE  q = r
    <3>1. q # r => worker[q] \in Working /\ op[q].kind \in Heavy
      BY <2>2, WorkerMoves
    <3> QED BY <1>3, <3>1 DEF GateHeld
  <2>3. \A j \in Instance \ {i} : runtime'[j].container # "utility"
    BY <1>0, <1>3, WorkerRuntime DEF OneUtility
  <2>4. op'[r].ship = i BY WorkerMoves
  <2> QED BY <2>2, <2>3, <2>4 DEF OneUtility
<1> USE DEF Working, Driving
<1>4. CASE ReportPending(r) BY <1>3, <1>4 DEF ReportPending, Heavy
<1>5. CASE RecordIntent(r)
  <2>1. worker[r] \in Working /\ op[r].kind \in Heavy
    BY <1>5 DEF RecordIntent, IntentKnown, Heavy
  <2> QED BY <1>3, <2>1
<1>6. CASE MarkDispatch(r) BY <1>3, <1>6 DEF MarkDispatch, IntentKnown
<1>7. CASE PersistRemoved(r) \/ RetireIntent(r) \/ SettleMaintenance(r)
  <2>1. \/ runtime'[i] = runtime[i]
        \/ runtime'[i] = [runtime[i] EXCEPT !.container = "none",
                                            !.sent = FALSE]
        \/ runtime'[i] = [runtime[i] EXCEPT !.container = "none"]
        \/ runtime'[i] = [runtime[i] EXCEPT !.maint = "settled"]
    BY <1>7, PersistEffect DEF PersistRemoved, RetireIntent, SettleMaintenance
  <2>2. runtime'[i].container = "utility" => runtime[i].container = "utility"
    BY <1>0, <2>1 DEF Runtime
  <2>3. ~Begin(r)
    BY <1>7 DEF PersistRemoved, RetireIntent, SettleMaintenance, Begin
  <2> QED BY <1>2, <2>2, <2>3
<1>8. CASE FinishFailed(r)
  <2>1. runtime'[i] = Returned(r) /\ worker[r] \in Working /\ ~Begin(r)
    BY <1>0, <1>8 DEF TypeOK, FinishFailed, Begin
  <2>2. Returned(r).container = "utility" =>
           op[r].kind \in Heavy \/ runtime[i].container = "utility"
    BY DEF Returned, IntentKnown
  <2> QED BY <1>2, <1>3, <2>1, <2>2
<1>9. CASE /\ ~Begin(r)
           /\ \/ Refuse(r) \/ FinishOk(r) \/ FinishIncompatible(r)
              \/ AbandonGate(r) \/ SendCreate(r) \/ RemoveContainer(r)
              \/ ProgressFault(r) \/ OutcomeLost(r) \/ WorkerExit(r)
  <2>1. runtime' = runtime
    BY <1>9 DEF Refuse, FinishOk, FinishIncompatible, AbandonGate, SendCreate,
                RemoveContainer, ProgressFault, OutcomeLost, WorkerExit, durable
  <2> QED BY <1>2, <1>9, <2>1
<1> QED BY <1>1, <1>4, <1>5, <1>6, <1>7, <1>8, <1>9 DEF WorkerStep

LEMMA UtilityStep ==
    /\ TypeOK /\ JournalAgrees /\ WorkerOwns /\ GateHeld /\ SnapshotFresh
    /\ IntentKnown /\ OneUtility /\ [Next]_vars
    => OneUtility'
<1> SUFFICES ASSUME TypeOK, JournalAgrees, WorkerOwns, GateHeld, SnapshotFresh,
                    IntentKnown, OneUtility, [Next]_vars
             PROVE  OneUtility'
  OBVIOUS
<1>1. CASE UNCHANGED <<runtime, op, worker>> BY <1>1, KeepUtility
<1>2. ASSUME NEW r \in Request, NEW i \in Instance, NEW k \in Kind,
             Accept(r, i, k)
      PROVE  OneUtility'
  <2>1. runtime' = runtime BY <1>2 DEF Accept
  <2> QED BY <1>2, <2>1, AcceptEffect, KeepUtility DEF Working, Driving
<1>3. ASSUME NEW r \in Request, AcquireGate(r) PROVE OneUtility'
  <2>1. /\ UNCHANGED <<runtime, op>> /\ worker'[r] = "ready"
        /\ \A q \in Request \ {r} : worker'[q] = worker[q]
    BY <1>3 DEF TypeOK, AcquireGate, durable
  <2> QED BY <2>1, KeepUtility DEF Working, Driving
<1>4. ASSUME NEW r \in Request, WorkerStep(r) PROVE OneUtility'
  BY <1>4, WorkerUtility
<1>5. ASSUME NEW i \in Instance, Configure(i) \/ PollRead(i) \/ PollLost(i) PROVE OneUtility'
  BY <1>1, <1>5 DEF Configure, PollRead, PollLost, durable
<1>6. ASSUME NEW i \in Instance, PollCommit(i) PROVE OneUtility'
  <2>1. UNCHANGED <<op, worker>> BY <1>6 DEF PollCommit
  <2> QED BY <1>6, <2>1, PollKeepsRuntime, KeepUtility
<1>7. ASSUME NEW i \in Instance, NEW c \in Container, EngineStep(i, c)
      PROVE  OneUtility'
  BY <1>1, <1>7 DEF EngineStep, durable, volatile
<1>8. ASSUME NEW t \in Token, AcquireFence(t) \/ ReleaseFence(t)
      PROVE  OneUtility'
  BY <1>1, <1>8 DEF AcquireFence, ReleaseFence, volatile
<1>9. CASE BeginBulk \/ EndBulk \/ JournalFails \/ Close
  BY <1>1, <1>9 DEF BeginBulk, EndBulk, JournalFails, Close, durable
<1>10. CASE Closed \/ Crash \/ Restart
  <2>1. runtime' = runtime /\ \A q \in Request : worker'[q] = "none"
    BY <1>10 DEF Closed, Crash, Down, Restart, WorkerOwns, durable
  <2> QED BY <2>1, KeepUtility DEF Working, Driving
<1>11. CASE UNCHANGED vars BY <1>1, <1>11 DEF vars, durable, volatile
<1> QED BY <1>2, <1>3, <1>4, <1>5, <1>6, <1>7, <1>8, <1>9, <1>10, <1>11
        DEF Next

-----------------------------------------------------------------------------
(* Unresolved maintenance *)

\* A step that leaves every maintenance phase alone and makes no operation
\* queued, no driver of a start or an inspection and no finished utility.
LEMMA KeepSettled ==
    ASSUME TypeOK, SettledFirst,
           \A j \in Instance : runtime'[j].maint = runtime[j].maint,
           \A q \in Request :
              /\ op'[q].kind = op[q].kind /\ op'[q].ship = op[q].ship
              /\ op'[q].status = "queued" => op[q].status = "queued"
              /\ worker'[q] \in Working =>
                    worker[q] \in Working \/ op[q].status = "queued"
              /\ worker'[q] = "settled" => worker[q] = "settled"
    PROVE  SettledFirst'
<1>1. \A q \in Request : op[q].ship \in Instance BY Typed
<1> QED BY <1>1 DEF SettledFirst, Uncertain

\* The operations of a driven ship other than the driver's own are over.
LEMMA OthersOver ==
    ASSUME TypeOK, JournalAgrees, WorkerOwns, NEW r \in Request,
           inst[op[r].ship].active = r, NEW q \in Request, q # r,
           op[q].ship = op[r].ship
    PROVE  op[q].status \notin Pending /\ worker[q] \notin Working
<1>1. op[q].ship \in Instance BY Typed
<1>2. op[q].status \notin Pending BY <1>1 DEF JournalAgrees
<1> QED BY <1>2 DEF WorkerOwns, Pending

\* A driver that journals a new state of its ship.
LEMMA PersistSettled ==
    ASSUME TypeOK, JournalAgrees, WorkerOwns, SettledFirst,
           NEW r \in Request, NEW state, NEW next, NEW fallback,
           Persist(r, state, next, fallback), worker[r] \in Working,
           op[r].kind \in {"start", "inspect"} =>
              state.maint = runtime[op[r].ship].maint,
           next = "settled" => state.maint = "settled"
    PROVE  SettledFirst'
<1> DEFINE i == op[r].ship
<1>1. /\ \A q \in Request \ {r} : worker'[q] = worker[q]
      /\ \/ worker'[r] = next /\ runtime'[i] = state
         \/ worker'[r] = "faulted" /\ runtime'[i] \in {state, runtime[i]}
      /\ op' = op
      /\ \A j \in Instance \ {i} : runtime'[j] = runtime[j]
      /\ inst[i].active = r
  BY PersistEffect
<1>2. op[r].status = "running" BY DEF WorkerOwns
<1>3. ASSUME NEW q \in Request
      PROVE  /\ op'[q].status = "queued" /\ op'[q].kind # "stop" =>
                   runtime'[op'[q].ship].maint = "settled"
             /\ worker'[q] \in Working /\ op'[q].kind \in {"start", "inspect"} =>
                   runtime'[op'[q].ship].maint = "settled"
             /\ worker'[q] = "settled" /\ op'[q].kind = "pack" =>
                   runtime'[op'[q].ship].maint = "settled"
  <2>1. op[q].ship \in Instance BY Typed
  <2>2. CASE q = r BY <1>1, <1>2, <2>2 DEF SettledFirst, Uncertain
  <2>3. CASE q # r /\ op[q].ship # i
    BY <1>1, <2>1, <2>3 DEF SettledFirst, Uncertain
  <2>4. CASE q # r /\ op[q].ship = i
    <3>1. op[q].status \notin Pending /\ worker[q] \notin Working
      BY <1>1, <2>4, OthersOver
    <3> QED BY <1>1, <2>4, <3>1 DEF Pending, Working, Driving
  <2> QED BY <2>2, <2>3, <2>4
<1> QED BY <1>3 DEF SettledFirst, Uncertain

LEMMA WorkerSettled ==
    ASSUME TypeOK, JournalAgrees, WorkerOwns, IntentKnown, SettledFirst,
           NEW r \in Request, WorkerStep(r)
    PROVE  SettledFirst'
<1> DEFINE i == op[r].ship
<1>0. i \in Instance /\ runtime[i] \in Runtime BY Typed
<1> USE DEF Working, Driving
<1>1. CASE Begin(r)
  <2>1. runtime' = runtime /\ op[r].status = "queued" BY <1>1 DEF Begin
  <2> QED BY <1>1, <2>1, BeginEffect, KeepSettled
<1>2. ASSUME NEW status \in Terminal, NEW observed, NEW recovery, NEW applied,
             Outcome(r, status, observed, recovery, applied),
             \A j \in Instance : runtime'[j].maint = runtime[j].maint
      PROVE  SettledFirst'
  <2>1. op'[r].status # "queued" /\ worker'[r] = "done"
    BY <1>2, OutcomeEffect DEF Terminal
  <2> QED BY <1>2, <2>1, OutcomeEffect, KeepSettled
<1>3. FailedStatus \in Terminal /\ FailedStatus # "queued"
  BY DEF FailedStatus, Terminal
<1>4. CASE Refuse(r) BY <1>2, <1>4 DEF Refuse, Terminal
<1>5. CASE FinishOk(r) BY <1>2, <1>5 DEF FinishOk, Terminal
<1>6. CASE FinishIncompatible(r) BY <1>2, <1>3, <1>6 DEF FinishIncompatible
<1>7. CASE FinishFailed(r)
  <2>1. Outcome(r, FailedStatus, "unknown", TRUE, inst[i].applied)
        /\ \A j \in Instance \ {i} : runtime'[j] = runtime[j]
    BY <1>0, <1>7 DEF TypeOK, FinishFailed
  <2>2. /\ op'[r].status # "queued" /\ worker'[r] = "done"
        /\ op'[r].ship = i /\ inst[i].active = r
        /\ \A q \in Request \ {r} : op'[q] = op[q] /\ worker'[q] = worker[q]
    <3>1. PICK status, observed, recovery, applied :
             /\ status # "queued"
             /\ Outcome(r, status, observed, recovery, applied)
      BY <1>3, <2>1
    <3> QED BY <3>1, OutcomeEffect
  <2>3. ASSUME NEW q \in Request, q # r, op[q].ship = i
        PROVE  op[q].status # "queued" /\ worker[q] \notin Working
    BY <2>2, <2>3, OthersOver DEF Pending
  <2>4. \A q \in Request : op[q].ship \in Instance BY Typed
  <2> QED BY <2>1, <2>2, <2>3, <2>4 DEF SettledFirst, Uncertain
<1>8. CASE ReportPending(r)
  BY <1>8, PersistSettled DEF ReportPending
<1>8a. CASE RecordIntent(r)
  <2> DEFINE state == [runtime[i] EXCEPT !.container = Wanted(r), !.sent = FALSE]
  <2>1. state.maint = runtime[i].maint BY <1>0 DEF Runtime
  <2>2. Persist(r, state, "intended", state) /\ worker[r] \in Working
    BY <1>8a DEF RecordIntent
  <2> HIDE DEF state
  <2> QED BY <2>1, <2>2, PersistSettled
<1>9. CASE MarkDispatch(r)
  <2> DEFINE m == IF runtime[i].container = "utility"
                  THEN "dispatched" ELSE runtime[i].maint
             state == [runtime[i] EXCEPT !.sent = TRUE, !.maint = m]
  <2>1. state.maint = m BY <1>0 DEF Runtime
  <2>2. Persist(r, state, "marked", runtime[i]) /\ worker[r] = "intended"
    BY <1>9 DEF MarkDispatch
  <2>3. op[r].kind \in {"start", "inspect"} => m = runtime[i].maint
    BY <2>2 DEF IntentKnown
  <2> HIDE DEF m, state
  <2> QED BY <2>1, <2>2, <2>3, PersistSettled
<1>10. CASE PersistRemoved(r)
  <2> DEFINE gone == [runtime[i] EXCEPT !.container = "none", !.sent = FALSE]
             next == IF runtime[i].container = "probe" /\ op[r].kind # "stop"
                     THEN "probed" ELSE "removed"
  <2>1. gone.maint = runtime[i].maint /\ next # "settled" BY <1>0 DEF Runtime
  <2>2. Persist(r, gone, next, gone) /\ worker[r] \in Working
    BY <1>10 DEF PersistRemoved
  <2> HIDE DEF gone, next
  <2> QED BY <2>1, <2>2, PersistSettled
<1>10a. CASE RetireIntent(r)
  BY <1>10a, PersistSettled DEF RetireIntent
<1>11. CASE SettleMaintenance(r)
  <2>1. [runtime[i] EXCEPT !.maint = "settled"].maint = "settled"
    BY <1>0 DEF Runtime
  <2> QED BY <1>11, <2>1, PersistSettled DEF SettleMaintenance
<1>12. CASE \/ AbandonGate(r) \/ SendCreate(r) \/ RemoveContainer(r)
            \/ ProgressFault(r) \/ OutcomeLost(r) \/ WorkerExit(r)
  <2>1. UNCHANGED <<op, runtime>>
    BY <1>12 DEF AbandonGate, SendCreate, RemoveContainer, ProgressFault,
                 OutcomeLost, WorkerExit, durable
  <2>2. /\ worker'[r] \in Working => worker[r] \in Working
        /\ worker'[r] # "settled"
        /\ \A q \in Request \ {r} : worker'[q] = worker[q]
    BY <1>12 DEF TypeOK, AbandonGate, SendCreate, RemoveContainer,
                 ProgressFault, OutcomeLost, WorkerExit
  <2> QED BY <2>1, <2>2, KeepSettled
<1> QED BY <1>1, <1>4, <1>5, <1>6, <1>7, <1>8, <1>8a, <1>9, <1>10, <1>10a,
           <1>11, <1>12 DEF WorkerStep

LEMMA SettledStep ==
    /\ TypeOK /\ JournalAgrees /\ WorkerOwns /\ IntentKnown /\ SnapshotFresh
    /\ SettledFirst /\ [Next]_vars
    => SettledFirst'
<1> SUFFICES ASSUME TypeOK, JournalAgrees, WorkerOwns, IntentKnown,
                    SnapshotFresh, SettledFirst, [Next]_vars
             PROVE  SettledFirst'
  OBVIOUS
<1>1. CASE UNCHANGED <<runtime, op, worker>> BY <1>1, KeepSettled
<1>2. ASSUME NEW r \in Request, NEW i \in Instance, NEW k \in Kind,
             Accept(r, i, k)
      PROVE  SettledFirst'
  <2>1. runtime' = runtime /\ (k # "stop" => ~Uncertain(i))
    BY <1>2 DEF Accept, Acceptable
  <2> QED BY <1>2, <2>1, AcceptEffect
          DEF SettledFirst, Uncertain, Working, Driving
<1>3. ASSUME NEW r \in Request, AcquireGate(r) PROVE SettledFirst'
  <2>1. /\ UNCHANGED <<runtime, op>> /\ worker'[r] = "ready"
        /\ \A q \in Request \ {r} : worker'[q] = worker[q]
    BY <1>3 DEF TypeOK, AcquireGate, durable
  <2> QED BY <2>1, KeepSettled DEF Working, Driving
<1>4. ASSUME NEW r \in Request, WorkerStep(r) PROVE SettledFirst'
  BY <1>4, WorkerSettled
<1>5. ASSUME NEW i \in Instance, Configure(i) \/ PollRead(i) \/ PollLost(i)
      PROVE  SettledFirst'
  BY <1>1, <1>5 DEF Configure, PollRead, PollLost, durable
<1>6. ASSUME NEW i \in Instance, PollCommit(i) PROVE SettledFirst'
  <2>1. UNCHANGED <<op, worker>> BY <1>6 DEF PollCommit
  <2> QED BY <1>6, <2>1, PollKeepsRuntime, KeepSettled
<1>7. ASSUME NEW i \in Instance, NEW c \in Container, EngineStep(i, c)
      PROVE  SettledFirst'
  BY <1>1, <1>7 DEF EngineStep, durable, volatile
<1>8. ASSUME NEW t \in Token, AcquireFence(t) \/ ReleaseFence(t)
      PROVE  SettledFirst'
  BY <1>1, <1>8 DEF AcquireFence, ReleaseFence, volatile
<1>9. CASE BeginBulk \/ EndBulk \/ JournalFails \/ Close
  BY <1>1, <1>9 DEF BeginBulk, EndBulk, JournalFails, Close, durable
<1>10. CASE Closed \/ Crash
  <2>1. UNCHANGED <<op, runtime>> /\ \A q \in Request : worker'[q] = "none"
    BY <1>10 DEF Closed, Crash, Down, durable
  <2> QED BY <2>1, KeepSettled DEF Working, Driving
<1>11. CASE Restart
  <2>1. runtime' = runtime /\ \A q \in Request : worker'[q] = "none"
    BY <1>11 DEF Restart, WorkerOwns
  <2>2. ASSUME NEW q \in Request
        PROVE  /\ op'[q].kind = op[q].kind /\ op'[q].ship = op[q].ship
               /\ op'[q].status = "queued" => op[q].status = "queued"
    <3>1. op'[q] = op[q] \/ op'[q] = [op[q] EXCEPT !.status = "interrupted"]
      BY <1>11 DEF Restart
    <3>2. op[q] \in OpRecord BY Typed
    <3> QED BY <3>1, <3>2 DEF OpRecord
  <2> QED BY <2>1, <2>2, KeepSettled DEF Working, Driving
<1>12. CASE UNCHANGED vars BY <1>1, <1>12 DEF vars, durable, volatile
<1> QED BY <1>2, <1>3, <1>4, <1>5, <1>6, <1>7, <1>8, <1>9, <1>10, <1>11,
           <1>12 DEF Next

\* A finish leaves recovery demanded wherever maintenance stays unresolved.
LEMMA OutcomeRecovery ==
    ASSUME TypeOK, UncertainDemandsRecovery, NEW r \in Request,
           NEW status, NEW observed, NEW recovery, NEW applied,
           Outcome(r, status, observed, recovery, applied),
           \A j \in Instance \ {op[r].ship} : runtime'[j] = runtime[j],
           runtime'[op[r].ship].maint # "settled" => recovery
    PROVE  UncertainDemandsRecovery'
<1>1. op[r].ship \in Instance BY Typed
<1> QED BY <1>1, OutcomeEffect DEF UncertainDemandsRecovery, Uncertain

LEMMA WorkerRecovery ==
    ASSUME TypeOK, WorkerOwns, IntentKnown, SettledFirst,
           UncertainDemandsRecovery, NEW r \in Request, WorkerStep(r)
    PROVE  UncertainDemandsRecovery'
<1> DEFINE i == op[r].ship
<1>0. /\ i \in Instance /\ runtime[i] \in Runtime /\ inst[i].recovery \in BOOLEAN
      /\ Uncertain(i) \in BOOLEAN
  BY Typed DEF InstRecord, Uncertain
<1> USE DEF Working, Driving
<1>1. CASE Begin(r)
  <2>1. runtime' = runtime BY <1>1 DEF Begin
  <2> QED BY <1>1, <2>1, BeginEffect DEF UncertainDemandsRecovery, Uncertain
<1>2. CASE Refuse(r)
  <2>1. PICK recovery \in {TRUE} :
           Outcome(r, "failed", "unknown", recovery, inst[i].applied)
    BY <1>2 DEF Refuse
  <2> QED BY <1>2, <2>1, OutcomeRecovery DEF Refuse, Uncertain
<1>3. CASE FinishOk(r)
  <2>1. PICK recovery \in BOOLEAN : \E status, observed, applied :
           /\ Outcome(r, status, observed, recovery, applied)
           /\ Uncertain(i) => recovery
    <3>1. CASE op[r].kind \in {"start", "inspect"}
      <4>1. ~Uncertain(i) BY <1>3, <3>1 DEF FinishOk, SettledFirst
      <4> QED BY <1>3, <3>1, <4>1 DEF FinishOk
    <3>2. CASE op[r].kind = "pack"
      <4>1. ~Uncertain(i) BY <1>3, <3>2 DEF FinishOk, SettledFirst
      <4> QED BY <1>3, <3>2, <4>1 DEF FinishOk
    <3>3. CASE op[r].kind = "stop"
      BY <1>0, <1>3, <3>3 DEF FinishOk
    <3> QED BY <1>3, <3>1, <3>2, <3>3 DEF FinishOk
  <2> QED BY <1>3, <2>1, OutcomeRecovery DEF FinishOk, Uncertain
<1>4. CASE FinishFailed(r)
  <2>1. \A j \in Instance \ {i} : runtime'[j] = runtime[j]
    BY <1>0, <1>4 DEF TypeOK, FinishFailed
  <2>2. PICK recovery \in {TRUE} :
           Outcome(r, FailedStatus, "unknown", recovery, inst[i].applied)
    BY <1>4 DEF FinishFailed
  <2> QED BY <2>1, <2>2, OutcomeRecovery
<1>5. CASE FinishIncompatible(r)
  <2>1. PICK evidence \in BOOLEAN :
           Outcome(r, FailedStatus, "unknown",
                   inst[i].recovery \/ Uncertain(i) \/ evidence,
                   inst[i].applied)
    BY <1>5 DEF FinishIncompatible
  <2>2. PICK recovery \in BOOLEAN :
           /\ recovery = (inst[i].recovery \/ Uncertain(i) \/ evidence)
           /\ Outcome(r, FailedStatus, "unknown", recovery, inst[i].applied)
    BY <2>1
  <2>3. runtime' = runtime BY <1>5 DEF FinishIncompatible
  <2> QED BY <2>2, <2>3, OutcomeRecovery DEF Uncertain
<1>6. CASE \/ ReportPending(r) \/ RecordIntent(r) \/ MarkDispatch(r)
           \/ PersistRemoved(r) \/ RetireIntent(r) \/ SettleMaintenance(r)
  <2>1. PICK state, next, fallback : Persist(r, state, next, fallback)
    BY <1>6 DEF ReportPending, RecordIntent, MarkDispatch, PersistRemoved,
                RetireIntent, SettleMaintenance
  <2>2. inst' = inst /\ inst[i].active # NoRequest
        /\ \A j \in Instance \ {i} : runtime'[j] = runtime[j]
    BY <2>1, PersistEffect, NoRequestAssumption
  <2> QED BY <2>2 DEF UncertainDemandsRecovery, Uncertain
<1>7. CASE \/ AbandonGate(r) \/ SendCreate(r) \/ RemoveContainer(r)
           \/ ProgressFault(r) \/ OutcomeLost(r) \/ WorkerExit(r)
  <2>1. UNCHANGED <<inst, runtime>>
    BY <1>7 DEF AbandonGate, SendCreate, RemoveContainer, ProgressFault,
                OutcomeLost, WorkerExit, durable
  <2> QED BY <2>1 DEF UncertainDemandsRecovery, Uncertain
<1> QED BY <1>1, <1>2, <1>3, <1>4, <1>5, <1>6, <1>7 DEF WorkerStep

LEMMA RecoveryStep ==
    /\ TypeOK /\ JournalAgrees /\ WorkerOwns /\ IntentKnown /\ SnapshotFresh
    /\ SettledFirst /\ UncertainDemandsRecovery /\ [Next]_vars
    => UncertainDemandsRecovery'
<1> SUFFICES ASSUME TypeOK, JournalAgrees, WorkerOwns, IntentKnown,
                    SnapshotFresh, SettledFirst, UncertainDemandsRecovery,
                    [Next]_vars
             PROVE  UncertainDemandsRecovery'
  OBVIOUS
<1> USE DEF UncertainDemandsRecovery, Uncertain
<1>1. CASE UNCHANGED <<runtime, inst>> BY <1>1
<1>2. ASSUME NEW r \in Request, NEW i \in Instance, NEW k \in Kind,
             Accept(r, i, k)
      PROVE  UncertainDemandsRecovery'
  <2>1. runtime' = runtime BY <1>2 DEF Accept
  <2> QED BY <1>2, <2>1, AcceptEffect, NoRequestAssumption
<1>3. ASSUME NEW r \in Request, AcquireGate(r) PROVE UncertainDemandsRecovery'
  BY <1>1, <1>3 DEF AcquireGate, durable
<1>4. ASSUME NEW r \in Request, WorkerStep(r) PROVE UncertainDemandsRecovery'
  BY <1>4, WorkerRecovery
<1>5. ASSUME NEW i \in Instance, Configure(i) PROVE UncertainDemandsRecovery'
  <2>1. runtime' = runtime BY <1>5 DEF Configure
  <2>2. \A j \in Instance : /\ inst'[j].active = inst[j].active
                            /\ inst'[j].recovery = inst[j].recovery
    BY <1>5 DEF TypeOK, InstRecord, Configure
  <2> QED BY <2>1, <2>2
<1>6. ASSUME NEW i \in Instance, PollRead(i) \/ PollLost(i) PROVE UncertainDemandsRecovery'
  BY <1>1, <1>6 DEF PollRead, PollLost, durable
<1>7. ASSUME NEW i \in Instance, PollCommit(i) PROVE UncertainDemandsRecovery'
  <2>1. ASSUME NEW j \in Instance, j # i
        PROVE  inst'[j] = inst[j] /\ runtime'[j] = runtime[j]
    BY <1>7, <2>1, PollCommitEffect
  <2>2. inst'[i].active = inst[i].active BY <1>7, PollCommitEffect
  <2>3. \/ inst'[i] = inst[i] /\ runtime'[i] = runtime[i]
        \/ /\ runtime'[i] = runtime[i] /\ inst'[i].recovery = poll[i].recovery
           /\ runtime[i].maint # "settled" => poll[i].recovery
    BY <1>7, PollCommitEffect, PollKeepsRuntime DEF SnapshotFresh, Committable
  <2> QED BY <2>1, <2>2, <2>3
<1>8. ASSUME NEW i \in Instance, NEW c \in Container, EngineStep(i, c)
      PROVE  UncertainDemandsRecovery'
  BY <1>1, <1>8 DEF EngineStep, durable
<1>9. ASSUME NEW t \in Token, AcquireFence(t) \/ ReleaseFence(t)
      PROVE  UncertainDemandsRecovery'
  BY <1>1, <1>9 DEF AcquireFence, ReleaseFence
<1>10. CASE BeginBulk \/ EndBulk \/ JournalFails \/ Close \/ Closed \/ Crash
  BY <1>1, <1>10 DEF BeginBulk, EndBulk, JournalFails, Close, Closed, Crash, Down, durable
<1>11. CASE Restart
  <2>1. runtime' = runtime BY <1>11 DEF Restart
  <2>2. ASSUME NEW j \in Instance, runtime[j].maint # "settled"
        PROVE  inst'[j].recovery
    <3>1. inst'[j] = Reconciled(j) /\ inst[j] \in InstRecord
      BY <1>11 DEF TypeOK, Restart
    <3>2. CASE inst[j].active = NoRequest
      BY <2>2, <3>1, <3>2 DEF Reconciled
    <3>3. CASE inst[j].active # NoRequest
      <4> DEFINE r == inst[j].active
      <4>1. r \in Request BY <3>1, <3>3 DEF InstRecord
      <4>2. op[r].ship = j BY <4>1 DEF JournalAgrees
      <4>3. ~(op[r].kind = "start" /\ op[r].status = "queued")
        BY <2>2, <4>1, <4>2 DEF SettledFirst
      <4> QED BY <3>1, <3>3, <4>3 DEF Reconciled, InstRecord
    <3> QED BY <3>2, <3>3
  <2> QED BY <2>1, <2>2
<1>12. CASE UNCHANGED vars BY <1>1, <1>12 DEF vars, durable
<1> QED BY <1>2, <1>3, <1>4, <1>5, <1>6, <1>7, <1>8, <1>9, <1>10, <1>11,
           <1>12 DEF Next

-----------------------------------------------------------------------------
(* The inductive invariant and what follows from it *)

LEMMA InitInv == Init => IInv
<1> SUFFICES ASSUME Init PROVE IInv
  OBVIOUS
<1> USE DEF Init
<1>1. TypeOK
  <2>1. PICK i \in Instance :
           op = [r \in Request |-> [status |-> "absent", ship |-> i,
                                    kind |-> "stop", rev |-> 0]]
    OBVIOUS
  <2>2. 0 \in Revision /\ 1 \in Revision /\ 0 \in 0 .. MaxBulk
    BY BoundsAssumption DEF Revision
  <2>3. op \in [Request -> OpRecord]
    BY <2>1, <2>2 DEF OpRecord, Kind
  <2>4. inst \in [Instance -> InstRecord]
    BY <2>2 DEF InstRecord, Observed
  <2>5. runtime \in [Instance -> Runtime] /\ memory \in [Request -> Runtime]
    BY BlankType
  <2>6. poll \in [Instance -> PollRecord]
    BY BlankType DEF PollRecord, IdlePoll, Observed
  <2>7. fence \in FenceRecord BY DEF FenceRecord
  <2>8. worker \in [Request -> WorkerAt] BY DEF WorkerAt
  <2>9. engine \in [Instance -> [Container -> EngineState]]
    BY DEF EngineState
  <2> QED BY <2>2, <2>3, <2>4, <2>5, <2>6, <2>7, <2>8, <2>9 DEF TypeOK
<1>2. \A r \in Request : op[r].status = "absent" /\ worker[r] = "none"
  OBVIOUS
<1>3. \A i \in Instance : inst[i].active = NoRequest OBVIOUS
<1>4. JournalAgrees
  BY <1>2, <1>3, NoRequestAssumption DEF JournalAgrees, Pending
<1>5. \A i \in Instance : /\ runtime[i].container = "none"
                          /\ runtime[i].maint = "settled"
                          /\ ~poll[i].busy
                          /\ \A c \in Container : engine[i][c] = "absent"
  BY DEF IdlePoll, Blank
<1>6. NothingUnrecorded /\ SnapshotFresh /\ OneUtility
      /\ UncertainDemandsRecovery
  BY <1>5 DEF NothingUnrecorded, SnapshotFresh, OneUtility,
              UncertainDemandsRecovery, Uncertain
<1>7. WorkerOwns /\ GateHeld /\ IntentKnown
  BY <1>2 DEF WorkerOwns, GateHeld, IntentKnown, Working, Driving
<1>8. SettledFirst
  BY <1>2 DEF SettledFirst, Working, Driving
<1>9. FenceQuiet BY DEF FenceQuiet
<1> QED BY <1>1, <1>4, <1>6, <1>7, <1>8, <1>9 DEF IInv

LEMMA InvStep == IInv /\ [Next]_vars => IInv'
BY TypeStep, AgreeStep, OwnStep, GateStep, FenceStep, IntentStep, UtilityStep,
   SnapshotStep, SettledStep, RecoveryStep DEF IInv

\* The journal, the workers, the snapshots and Docker stay consistent through
\* every interleaving, crash and restart, whatever the ships and requests.
THEOREM Invariance == Spec => []IInv
BY InitInv, InvStep, PTL DEF Spec

\* Every variable keeps its type.
THEOREM TypeCorrect == Spec => []TypeOK
<1>1. IInv => TypeOK BY DEF IInv
<1> QED BY <1>1, Invariance, PTL

\* ActiveOperationID and the operations table never disagree.
THEOREM TablesAgree == Spec => []JournalAgrees
<1>1. IInv => JournalAgrees BY DEF IInv
<1> QED BY <1>1, Invariance, PTL

\* No container exists, or may still appear, that the journal does not retain.
THEOREM WriteAhead == Spec => []NothingUnrecorded
<1>1. IInv => NothingUnrecorded BY DEF IInv
<1> QED BY <1>1, Invariance, PTL

\* One offline utility per host, and no other heavy driver beside it.
THEOREM Exclusion == Spec => []UtilityExclusive
<1>1. IInv => UtilityExclusive
  BY DEF IInv, NothingUnrecorded, OneUtility, UtilityExclusive, Container,
         Working
<1> QED BY <1>1, Invariance, PTL

\* A held update fence means a quiet host.
THEOREM QuietHost == Spec => []FenceQuiet
<1>1. IInv => FenceQuiet BY DEF IInv
<1> QED BY <1>1, Invariance, PTL

\* Unresolved maintenance always demands recovery of an idle ship.
THEOREM RecoveryDemanded == Spec => []UncertainDemandsRecovery
<1>1. IInv => UncertainDemandsRecovery BY DEF IInv
<1> QED BY <1>1, Invariance, PTL

-----------------------------------------------------------------------------
(* The journal implements the ledger *)

\* How an operation may change in one step: only a restart changes several.
LEMMA EntryMoves ==
    ASSUME TypeOK, JournalAgrees, WorkerOwns, NEW r \in Request, WorkerStep(r)
    PROVE  \/ op' = op
           \/ /\ op[r].status = "queued"
              /\ op' = [op EXCEPT ![r].status = "running"]
           \/ \E s \in Terminal :
                 /\ \/ op[r].status = "running"
                    \/ op[r].status = "queued" /\ s = "failed"
                 /\ op' = [op EXCEPT ![r].status = s]
<1>1. CASE Begin(r) BY <1>1 DEF Begin
<1>2. CASE Refuse(r)
  <2>1. op' = [op EXCEPT ![r].status = "failed"] BY <1>2 DEF Refuse, Outcome
  <2>2. op[r].status = "queued" BY <1>2 DEF Refuse, WorkerOwns
  <2> QED BY <2>1, <2>2 DEF Terminal
<1>3. CASE FinishOk(r)
  <2>1. op' = [op EXCEPT ![r].status = "succeeded"]
    BY <1>3 DEF FinishOk, Outcome
  <2>2. op[r].status = "running"
    BY <1>3 DEF FinishOk, WorkerOwns, Working, Driving
  <2>3. "succeeded" \in Terminal BY DEF Terminal
  <2> QED BY <2>1, <2>2, <2>3
<1>4. CASE FinishFailed(r) \/ FinishIncompatible(r)
  <2>1. op' = [op EXCEPT ![r].status = FailedStatus]
    BY <1>4 DEF FinishFailed, FinishIncompatible, Outcome
  <2>2. op[r].status = "running"
    BY <1>4 DEF FinishFailed, FinishIncompatible, WorkerOwns, Working, Driving
  <2>3. FailedStatus \in Terminal BY DEF FailedStatus, Terminal
  <2> QED BY <2>1, <2>2, <2>3
<1>5. CASE \/ AbandonGate(r) \/ ReportPending(r) \/ RecordIntent(r)
           \/ MarkDispatch(r) \/ RetireIntent(r) \/ SendCreate(r) \/ RemoveContainer(r) \/ PersistRemoved(r)
           \/ SettleMaintenance(r) \/ ProgressFault(r) \/ OutcomeLost(r)
           \/ WorkerExit(r)
  BY <1>5 DEF AbandonGate, ReportPending, RecordIntent, MarkDispatch,
              RetireIntent, SendCreate,
              RemoveContainer, PersistRemoved, SettleMaintenance, Persist,
              ProgressFault, OutcomeLost, WorkerExit, durable
<1> QED BY <1>1, <1>2, <1>3, <1>4, <1>5 DEF WorkerStep

\* Every other step but Accept and Restart leaves the operations alone.
LEMMA EntryKept ==
    ASSUME \/ \E r \in Request : AcquireGate(r)
           \/ \E i \in Instance : Configure(i) \/ PollRead(i) \/ PollLost(i) \/ PollCommit(i)
           \/ \E i \in Instance, c \in Container : EngineStep(i, c)
           \/ \E t \in Token : AcquireFence(t) \/ ReleaseFence(t)
           \/ BeginBulk \/ EndBulk \/ JournalFails \/ Close \/ Closed \/ Crash
           \/ UNCHANGED vars
    PROVE  op' = op
BY DEF AcquireGate, Configure, PollRead, PollLost, PollCommit, EngineStep, AcquireFence,
       ReleaseFence, BeginBulk, EndBulk, JournalFails, Close, Closed, Crash, Down, durable,
       vars

\* What a restart makes of each operation.
LEMMA RestartMoves ==
    ASSUME TypeOK, JournalAgrees, Restart, NEW r \in Request
    PROVE  op'[r] = IF op[r].status \in Pending
                    THEN [op[r] EXCEPT !.status = "interrupted"] ELSE op[r]
<1>1. op[r].ship \in Instance BY Typed
<1>2. (\E i \in Instance : inst[i].active = r) <=> op[r].status \in Pending
  BY <1>1 DEF JournalAgrees
<1> QED BY <1>2 DEF Restart

LEMMA FinalStep ==
    ASSUME IInv, [Next]_vars, NEW q \in Request
    PROVE  /\ op[q].status \in Terminal => op'[q] = op[q]
           /\ op[q].status # "absent" =>
                 <<op'[q].ship, op'[q].kind, op'[q].rev>> =
                 <<op[q].ship, op[q].kind, op[q].rev>>
<1> DEFINE Goal == /\ op[q].status \in Terminal => op'[q] = op[q]
                   /\ op[q].status # "absent" =>
                         <<op'[q].ship, op'[q].kind, op'[q].rev>> =
                         <<op[q].ship, op[q].kind, op[q].rev>>
<1> USE DEF IInv
<1>0. op[q] \in OpRecord /\ DOMAIN op = Request BY Typed DEF TypeOK
<1>1. CASE op' = op BY <1>1
<1>2. ASSUME NEW r \in Request, NEW i \in Instance, NEW k \in Kind,
             Accept(r, i, k)
      PROVE  Goal
  <2>1. op[r].status = "absent" BY <1>2 DEF Accept, Fresh
  <2>2. q # r => op'[q] = op[q] BY <1>2, AcceptEffect
  <2> QED BY <2>1, <2>2 DEF Terminal
<1>3. ASSUME NEW r \in Request, NEW s, op[r].status \in Pending,
             op' = [op EXCEPT ![r].status = s]
      PROVE  Goal
  <2>1. CASE q # r BY <1>0, <1>3, <2>1
  <2>2. CASE q = r
    <3>1. op'[q] = [op[q] EXCEPT !.status = s] BY <1>0, <1>3, <2>2
    <3>2. op[q].status \notin Terminal BY <1>3, <2>2 DEF Pending, Terminal
    <3> QED BY <1>0, <3>1, <3>2 DEF OpRecord
  <2> QED BY <2>1, <2>2
<1>4. ASSUME NEW r \in Request, WorkerStep(r) PROVE Goal
  BY <1>1, <1>3, <1>4, EntryMoves DEF Pending
<1>5. CASE Restart
  <2>1. CASE op[q].status \in Pending
    <3>1. op'[q] = [op[q] EXCEPT !.status = "interrupted"]
      BY <1>5, <2>1, RestartMoves
    <3> QED BY <1>0, <2>1, <3>1 DEF OpRecord, Pending, Terminal
  <2>2. CASE op[q].status \notin Pending
    <3>1. op'[q] = op[q] BY <1>5, <2>2, RestartMoves
    <3> QED BY <3>1
  <2> QED BY <2>1, <2>2
<1> QED BY <1>1, <1>2, <1>4, <1>5, EntryKept DEF Next

\* An outcome never changes and a request is never rebound.
THEOREM FinalOutcome == Spec => OutcomeFinal
<1>1. IInv /\ [Next]_vars =>
        [\A r \in Request :
          /\ op[r].status \in Terminal => op'[r] = op[r]
          /\ op[r].status # "absent" =>
                <<op'[r].ship, op'[r].kind, op'[r].rev>> =
                <<op[r].ship, op[r].kind, op[r].rev>>]_vars
  BY FinalStep
<1> QED BY <1>1, Invariance, PTL DEF Spec, OutcomeFinal

\* The ledger's view of an operation.
Entry(r) == [status |-> op[r].status, ship |-> op[r].ship]

\* A ship without an active operation has no pending entry in the ledger.
LEMMA IdleLedger ==
    ASSUME TypeOK, JournalAgrees, NEW i \in Instance, inst[i].active = NoRequest
    PROVE  Ledger!PendingOf(i) = {}
<1>1. \A r \in Request : ~(op[r].ship = i /\ op[r].status \in Pending)
  BY NoRequestAssumption DEF JournalAgrees
<1> QED BY <1>1 DEF Ledger!PendingOf, Ledger!Pending, Pending

LEMMA LedgerStep ==
    IInv /\ [Next]_vars => [Ledger!Next]_Ledger!vars
<1> SUFFICES ASSUME IInv, [Next]_vars PROVE Ledger!Next \/ UNCHANGED Ledger!vars
  OBVIOUS
<1> USE DEF IInv
<1> DEFINE entry == [r \in Request |-> Entry(r)]
<1>0. \A r \in Request : op[r] \in OpRecord BY Typed
<1>1. CASE op' = op /\ fence' = fence BY <1>1 DEF Ledger!vars
<1>2. ASSUME NEW r \in Request, NEW i \in Instance, NEW k \in Kind,
             Accept(r, i, k)
      PROVE  Ledger!Submit(r, i)
  <2>1. ~fence.held /\ op[r].status = "absent" /\ fence' = fence
        /\ inst[i].active = NoRequest
    BY <1>2 DEF Accept, Admitting, Fresh
  <2>2. entry' = [entry EXCEPT ![r] = [status |-> "queued", ship |-> i]]
    <3>1. op'[r].status = "queued" /\ op'[r].ship = i
          /\ \A q \in Request \ {r} : op'[q] = op[q]
      BY <1>2, AcceptEffect
    <3> QED BY <3>1 DEF Entry
  <2>3. Ledger!PendingOf(i) = {} BY <2>1, IdleLedger
  <2> QED BY <2>1, <2>2, <2>3 DEF Ledger!Submit, Entry
<1>3. ASSUME NEW r \in Request, NEW s, op' = [op EXCEPT ![r].status = s]
      PROVE  entry' = [entry EXCEPT ![r].status = s]
  <2>1. op'[r] = [op[r] EXCEPT !.status = s]
        /\ \A q \in Request \ {r} : op'[q] = op[q]
    BY <1>3 DEF TypeOK
  <2>2. op'[r].status = s /\ op'[r].ship = op[r].ship
    BY <1>0, <2>1 DEF OpRecord
  <2> QED BY <2>1, <2>2 DEF Entry
<1>4. ASSUME NEW r \in Request, WorkerStep(r)
      PROVE  Ledger!Next \/ UNCHANGED Ledger!vars
  <2>1. fence' = fence BY <1>4, WorkerMoves
  <2>2. CASE op' = op BY <1>1, <2>1, <2>2
  <2>3. CASE /\ op[r].status = "queued"
             /\ op' = [op EXCEPT ![r].status = "running"]
    <3>1. Ledger!Start(r) BY <1>3, <2>1, <2>3 DEF Ledger!Start, Entry
    <3> QED BY <3>1 DEF Ledger!Next
  <2>4. ASSUME NEW s \in Terminal,
               \/ op[r].status = "running"
               \/ op[r].status = "queued" /\ s = "failed",
               op' = [op EXCEPT ![r].status = s]
        PROVE  Ledger!Next
    <3>1. Ledger!Conclude(r)
      BY <1>3, <2>1, <2>4 DEF Ledger!Conclude, Entry, Terminal
    <3> QED BY <3>1 DEF Ledger!Next
  <2> QED BY <1>4, <2>2, <2>3, <2>4, EntryMoves
<1>5. ASSUME NEW t \in Token, AcquireFence(t) PROVE Ledger!Hold
  <2>1. op' = op /\ fence' = [token |-> t, held |-> TRUE]
        /\ \A i \in Instance : inst[i].active = NoRequest
    BY <1>5 DEF AcquireFence, Quiet
  <2>2. \A i \in Instance : Ledger!PendingOf(i) = {} BY <2>1, IdleLedger
  <2> QED BY <2>1, <2>2 DEF Ledger!Hold
<1>6. ASSUME NEW t \in Token, ReleaseFence(t) PROVE Ledger!Release
  <2>1. fence \in FenceRecord BY DEF TypeOK
  <2>2. op' = op /\ fence = [token |-> t, held |-> TRUE]
        /\ fence' = [fence EXCEPT !.held = FALSE]
    BY <1>6 DEF ReleaseFence
  <2>3. fence.held /\ fence'.held = FALSE BY <2>1, <2>2 DEF FenceRecord
  <2> QED BY <2>2, <2>3 DEF Ledger!Release
<1>7. CASE Restart
  <2>1. fence' = fence BY <1>7 DEF Restart
  <2>2. ASSUME NEW r \in Request
        PROVE  Entry(r)' = IF op[r].status \in Pending
                           THEN [Entry(r) EXCEPT !.status = "interrupted"]
                           ELSE Entry(r)
    <3>1. op'[r] = IF op[r].status \in Pending
                   THEN [op[r] EXCEPT !.status = "interrupted"] ELSE op[r]
      BY <1>7, RestartMoves
    <3>2. CASE op[r].status \in Pending
      BY <1>0, <3>1, <3>2 DEF OpRecord, Entry
    <3>3. CASE op[r].status \notin Pending BY <3>1, <3>3 DEF Entry
    <3> QED BY <3>2, <3>3
  <2>3. Ledger!Interrupt
    BY <2>1, <2>2 DEF Ledger!Interrupt, Ledger!Pending, Pending, Entry
  <2> QED BY <2>3 DEF Ledger!Next
<1>8. CASE \/ \E r \in Request : AcquireGate(r)
           \/ \E i \in Instance : Configure(i) \/ PollRead(i) \/ PollLost(i) \/ PollCommit(i)
           \/ \E i \in Instance, c \in Container : EngineStep(i, c)
           \/ BeginBulk \/ EndBulk \/ JournalFails \/ Close \/ Closed \/ Crash
           \/ UNCHANGED vars
  <2>1. op' = op BY <1>8, EntryKept
  <2>2. fence' = fence
    BY <1>8 DEF AcquireGate, Configure, PollRead, PollLost, PollCommit, EngineStep,
                BeginBulk, EndBulk, JournalFails, Close, Closed, Crash, Down, durable, vars
  <2> QED BY <1>1, <2>1, <2>2
<1> QED BY <1>2, <1>4, <1>5, <1>6, <1>7, <1>8 DEF Next, Ledger!Next

\* The journal keeps what the ledger promises: one acceptance, one operation
\* at a time per ship, one outcome, nothing accepted while the host is held.
THEOREM Refinement == Spec => ImplementsLedger
<1>1. Init => Ledger!Init
  <2> SUFFICES ASSUME Init PROVE Ledger!Init
    OBVIOUS
  <2>1. PICK i \in Instance :
           op = [r \in Request |-> [status |-> "absent", ship |-> i,
                                    kind |-> "stop", rev |-> 0]]
    BY DEF Init
  <2>2. fence.held = FALSE BY DEF Init
  <2> QED BY <2>1, <2>2 DEF Ledger!Init
<1> QED BY <1>1, LedgerStep, Invariance, PTL DEF Spec, Ledger!Spec, ImplementsLedger

\* While the fence is held, nothing but observation changes a ship.
LEMMA FrozenStep ==
    ASSUME IInv, [Next]_vars, fence.held, fence'.held
    PROVE  /\ op' = op /\ runtime' = runtime
           /\ \A i \in Instance : /\ inst'[i].config = inst[i].config
                                  /\ inst'[i].desired = inst[i].desired
<1> DEFINE Goal ==
      /\ op' = op /\ runtime' = runtime
      /\ \A i \in Instance : /\ inst'[i].config = inst[i].config
                             /\ inst'[i].desired = inst[i].desired
<1> USE DEF IInv
<1>0. /\ \A r \in Request : worker[r] = "none" /\ op[r].status \notin Pending
      /\ \A i \in Instance : inst[i] \in InstRecord
  BY DEF FenceQuiet, TypeOK
<1>1. CASE UNCHANGED <<op, runtime, inst>> BY <1>1
<1>2. ASSUME NEW r \in Request, NEW i \in Instance, NEW k \in Kind,
             Accept(r, i, k)
      PROVE  Goal
  BY <1>2 DEF Accept, Admitting
<1>3. ASSUME NEW r \in Request, AcquireGate(r) \/ WorkerStep(r) PROVE Goal
  BY <1>0, <1>3, WorkerMoves DEF AcquireGate
<1>4. ASSUME NEW i \in Instance, Configure(i) PROVE Goal
  BY <1>4 DEF Configure, Admitting
<1>5. ASSUME NEW i \in Instance, PollRead(i) \/ PollLost(i) PROVE Goal
  BY <1>1, <1>5 DEF PollRead, PollLost, durable
<1>6. ASSUME NEW i \in Instance, PollCommit(i) PROVE Goal
  <2>1. op' = op BY <1>6 DEF PollCommit
  <2>2. CASE ~Committable(i) BY <1>6, <1>1, <2>1, <2>2 DEF PollCommit
  <2>3. CASE Committable(i)
    <3>1. runtime' = [runtime EXCEPT ![i] = poll[i].runtime]
      BY <1>6, <2>3 DEF PollCommit
    <3>2. poll[i].runtime = runtime[i]
      BY <1>6, <2>3 DEF PollCommit, SnapshotFresh, Committable
    <3>3. runtime' = runtime BY <3>1, <3>2 DEF TypeOK
    <3>4. /\ \A j \in Instance \ {i} : inst'[j] = inst[j]
          /\ inst'[i] = [inst[i] EXCEPT !.observed = poll[i].observed,
                                        !.recovery = poll[i].recovery,
                                        !.applied = AppliedRevision(i)]
      BY <1>6, <2>3 DEF TypeOK, PollCommit
    <3>5. /\ inst'[i].config = inst[i].config
          /\ inst'[i].desired = inst[i].desired
      BY <1>0, <3>4 DEF InstRecord
    <3> QED BY <2>1, <3>3, <3>4, <3>5
  <2> QED BY <2>2, <2>3
<1>7. ASSUME NEW i \in Instance, NEW c \in Container, EngineStep(i, c)
      PROVE  Goal
  BY <1>1, <1>7 DEF EngineStep, durable
<1>8. ASSUME NEW t \in Token, AcquireFence(t) \/ ReleaseFence(t) PROVE Goal
  BY <1>1, <1>8 DEF AcquireFence, ReleaseFence
<1>9. CASE BeginBulk \/ EndBulk \/ JournalFails \/ Close \/ Closed \/ Crash
  BY <1>1, <1>9 DEF BeginBulk, EndBulk, JournalFails, Close, Closed, Crash, Down, durable
<1>10. CASE Restart
  <2>1. runtime' = runtime BY <1>10 DEF Restart
  <2>2. \A r \in Request : op'[r] = op[r] BY <1>0, <1>10, RestartMoves
  <2>3. op' = op BY <1>10, <2>2 DEF Restart, TypeOK
  <2>4. ASSUME NEW i \in Instance
        PROVE  /\ inst'[i].config = inst[i].config
               /\ inst'[i].desired = inst[i].desired
    <3>1. inst'[i] = Reconciled(i) BY <1>10 DEF Restart
    <3> QED BY <1>0, <3>1 DEF Reconciled, InstRecord
  <2> QED BY <2>1, <2>3, <2>4
<1>11. CASE UNCHANGED vars BY <1>1, <1>11 DEF vars, durable
<1> QED BY <1>2, <1>3, <1>4, <1>5, <1>6, <1>7, <1>8, <1>9, <1>10, <1>11
        DEF Next

\* The installer replaces the executable over an unchanged journal.
THEOREM FrozenJournal == Spec => FenceFreezesJournal
<1>1. IInv /\ [Next]_vars =>
        [fence.held /\ fence'.held =>
          /\ op' = op /\ runtime' = runtime
          /\ \A i \in Instance : inst'[i].config = inst[i].config
                                 /\ inst'[i].desired = inst[i].desired]_vars
  BY FrozenStep
<1> QED BY <1>1, Invariance, PTL DEF Spec, FenceFreezesJournal

\* Only the installer's calls touch the fence.
LEMMA FenceMoves ==
    ASSUME TypeOK, [Next]_vars
    PROVE  \/ UNCHANGED fence
           \/ \E t \in Token : AcquireFence(t) \/ ReleaseFence(t)
<1>1. ASSUME NEW r \in Request, NEW i \in Instance, NEW k \in Kind,
             Accept(r, i, k)
      PROVE  UNCHANGED fence
  BY <1>1 DEF Accept
<1>2. ASSUME NEW r \in Request, AcquireGate(r) \/ WorkerStep(r)
      PROVE  UNCHANGED fence
  BY <1>2, WorkerMoves DEF AcquireGate, durable
<1>3. ASSUME NEW i \in Instance,
             Configure(i) \/ PollRead(i) \/ PollLost(i) \/ PollCommit(i)
      PROVE  UNCHANGED fence
  BY <1>3 DEF Configure, PollRead, PollLost, PollCommit, durable
<1>4. ASSUME NEW i \in Instance, NEW c \in Container, EngineStep(i, c)
      PROVE  UNCHANGED fence
  BY <1>4 DEF EngineStep, durable
<1>5. CASE BeginBulk \/ EndBulk \/ JournalFails \/ Close \/ Closed \/ Crash
           \/ Restart
  BY <1>5 DEF BeginBulk, EndBulk, JournalFails, Close, Closed, Crash, Down,
              Restart, durable
<1>6. CASE UNCHANGED vars BY <1>6 DEF vars, durable
<1> QED BY <1>1, <1>2, <1>3, <1>4, <1>5, <1>6 DEF Next

\* What a held fence keeps as it was.
Written == <<op, runtime, [i \in Instance |-> <<inst[i].config, inst[i].desired>>]>>

LEMMA FenceImplements ==
    ASSUME IInv, [Next]_vars
    PROVE  Fence!Next \/ UNCHANGED <<fence, Busy, Written>>
<1>1. FenceQuiet'
  BY FenceStep DEF IInv
<1>2. fence.held => ~Busy
  BY DEF IInv, TypeOK, FenceQuiet, Busy
<1>3. fence'.held => ~Busy'
  BY <1>1 DEF FenceQuiet, Busy
<1>4. CASE UNCHANGED fence /\ ~fence.held
  <2>1. Busy' \in BOOLEAN
    BY DEF Busy
  <2> QED BY <1>4, <2>1 DEF Fence!Next, Fence!Serve
<1>5. CASE UNCHANGED fence /\ fence.held
  <2>1. /\ op' = op /\ runtime' = runtime
        /\ \A i \in Instance : /\ inst'[i].config = inst[i].config
                               /\ inst'[i].desired = inst[i].desired
    BY <1>5, FrozenStep
  <2>2. Written' = Written
    BY <2>1 DEF Written
  <2>3. Busy' = Busy
    BY <1>2, <1>3, <1>5 DEF Busy
  <2> QED BY <1>5, <2>2, <2>3
<1>6. ASSUME NEW t \in Token, AcquireFence(t), ~fence.held
      PROVE  Fence!Next
  <2>1. ~Busy
    <3>1. /\ bulk = 0 /\ \A r \in Request : worker[r] = "none"
          /\ \A i \in Instance : inst[i].active = NoRequest
      BY <1>6 DEF AcquireFence, Quiet
    <3>2. \A r \in Request : op[r].status \notin Pending
      BY <3>1, Typed, NoRequestAssumption DEF IInv, JournalAgrees
    <3> QED BY <3>1, <3>2 DEF Busy
  <2>2. fence.token # t /\ fence' = [token |-> t, held |-> TRUE]
        /\ UNCHANGED <<op, inst, runtime>>
    BY <1>6 DEF AcquireFence
  <2>3. Busy' = Busy
    BY <1>3, <2>1, <2>2 DEF Busy
  <2>4. Written' = Written
    BY <2>2 DEF Written
  <2>5. Fence!Close(t)
    BY <1>6, <2>1, <2>2, <2>3, <2>4 DEF Fence!Close, Written
  <2> QED BY <2>5 DEF Fence!Next
<1>7. ASSUME NEW t \in Token, AcquireFence(t), fence.held
      PROVE  UNCHANGED fence
  BY <1>7 DEF AcquireFence, IInv, TypeOK, FenceRecord
<1>8. ASSUME NEW t \in Token, ReleaseFence(t)
      PROVE  Fence!Next
  <2>1. fence.held /\ fence' = [fence EXCEPT !.held = FALSE]
        /\ UNCHANGED <<op, inst, runtime, worker, bulk>>
    BY <1>8 DEF ReleaseFence, volatile
  <2>2. UNCHANGED <<Busy, Written>>
    BY <2>1 DEF Busy, Written
  <2> QED BY <2>1, <2>2 DEF Fence!Next, Fence!Open, Written
<1> QED BY <1>4, <1>5, <1>6, <1>7, <1>8, FenceMoves DEF IInv

\* For any ships, requests and tokens the runner keeps the promise of
\* UpdateFence, of which FenceFreezesJournal is a part.
THEOREM FencePromise == Spec => ImplementsFence
<1>1. Init => Fence!Init
  BY DEF Init, Fence!Init, Busy, Pending
<1>2. IInv /\ [Next]_vars =>
         [Fence!Next]_(<<fence, Busy, Written>>)
  BY FenceImplements
<1> QED BY <1>1, <1>2, Invariance, PTL DEF Spec, ImplementsFence, Fence!Spec, Written

-----------------------------------------------------------------------------
(***************************************************************************)
(* Drift is never hidden: a live runtime container of a ship whose applied *)
(* revision equals its configuration was created with that configuration.  *)
(* The argument adds to the inductive invariant what the revisions of a    *)
(* ship, and the starts in flight, say about the container (RevisionKnown, *)
(* StartKnown).                                                            *)
(***************************************************************************)

(* One ship and one operation at a time *)

\* RevisionKnown of one ship.
Known(j) ==
    /\ inst[j].applied <= inst[j].config /\ inst[j].launch <= inst[j].config
    /\ engine[j]["runtime"] # "absent" =>
          /\ launched[j] = inst[j].launch
          /\ inst[j].applied = inst[j].config =>
                inst[j].launch = inst[j].config

\* StartKnown of one operation.
OwnKnown(r) ==
    LET i == op[r].ship IN
    /\ op[r].status \in Pending => op[r].rev = inst[i].config
    /\ op[r].status = "queued" /\ op[r].kind = "start" => Clean(i)
    /\ worker[r] \in Working /\ op[r].kind = "start" =>
          inst[i].launch = op[r].rev
    /\ worker[r] \in {"intended", "marked"}
          /\ runtime[i].container = "runtime" => op[r].kind = "start"

\* The invariants are about each ship and each operation.
LEMMA AllKnown ==
    /\ RevisionKnown <=> \A j \in Instance : Known(j)
    /\ StartKnown <=> \A r \in Request : OwnKnown(r)
    /\ RevisionKnown' <=> \A j \in Instance : Known(j)'
    /\ StartKnown' <=> \A r \in Request : OwnKnown(r)'
BY DEF RevisionKnown, StartKnown, Known, OwnKnown, Clean

-----------------------------------------------------------------------------
(* Steps that move no revision and start nothing *)

\* A ship whose revisions and runtime container are left alone stays known.
LEMMA SameRevisions ==
    ASSUME RevisionKnown, launched' = launched,
           \A j \in Instance :
              /\ inst'[j].config = inst[j].config
              /\ inst'[j].applied = inst[j].applied
              /\ inst'[j].launch = inst[j].launch
              /\ engine'[j]["runtime"] # "absent" =>
                    engine[j]["runtime"] # "absent"
    PROVE  RevisionKnown'
BY DEF RevisionKnown

\* The operation is over, or none of its worker's positions claims more.
RowKept(q) ==
    /\ op'[q].ship = op[q].ship /\ op'[q].kind = op[q].kind
    /\ op'[q].rev = op[q].rev
    /\ op'[q].status \in Pending => op[q].status \in Pending
    /\ op'[q].status = "queued" => op[q].status = "queued"
    /\ worker'[q] \in Working => worker[q] \in Working
    /\ worker'[q] \in {"intended", "marked"} => worker'[q] = worker[q]

\* The configuration and the captured revision of a ship are left alone.
ShipKept(j) == /\ inst'[j].config = inst[j].config
               /\ inst'[j].launch = inst[j].launch
               /\ runtime'[j] = runtime[j]

\* Operations and ships that are left alone stay known.
LEMMA SameStarts ==
    ASSUME TypeOK, StartKnown, \A q \in Request : RowKept(q),
           \A j \in Instance : ShipKept(j)
    PROVE  StartKnown'
<1> SUFFICES ASSUME NEW q \in Request PROVE OwnKnown(q)'
  BY AllKnown
<1>1. op[q].ship \in Instance BY Typed
<1>2. RowKept(q) /\ ShipKept(op[q].ship) BY <1>1
<1> QED BY <1>1, <1>2, AllKnown DEF OwnKnown, Clean, RowKept, ShipKept

\* A step of one operation leaves the others known: none of them is pending on
\* the same ship.
LEMMA OtherStarts ==
    ASSUME TypeOK, JournalAgrees, WorkerOwns, StartKnown, NEW r \in Request,
           op[r].status \in Pending, NEW q \in Request \ {r},
           op'[q] = op[q], worker'[q] = worker[q],
           \A j \in Instance \ {op[r].ship} : ShipKept(j)
    PROVE  OwnKnown(q)'
<1>1. op[q].ship \in Instance /\ op[r].ship \in Instance BY Typed
<1>2. CASE op[q].status \in Pending
  <2>1. op[q].ship # op[r].ship BY <1>1, <1>2 DEF JournalAgrees
  <2>2. ShipKept(op[q].ship) BY <1>1, <2>1
  <2> QED BY <2>2, AllKnown DEF OwnKnown, Clean, ShipKept
<1>3. CASE op[q].status \notin Pending
  <2>1. worker[q] \notin Working
    BY <1>3 DEF WorkerOwns, Pending
  <2> QED BY <1>3, <2>1 DEF OwnKnown, Pending, Working, Driving
<1> QED BY <1>2, <1>3

\* A step of one operation that shows itself known keeps all starts known.
LEMMA OwnStarts ==
    ASSUME TypeOK, JournalAgrees, WorkerOwns, StartKnown, NEW r \in Request,
           op[r].status \in Pending,
           \A q \in Request \ {r} : op'[q] = op[q] /\ worker'[q] = worker[q],
           \A j \in Instance \ {op[r].ship} : ShipKept(j),
           OwnKnown(r)'
    PROVE  StartKnown'
<1> SUFFICES ASSUME NEW q \in Request PROVE OwnKnown(q)'
  BY AllKnown
<1>1. CASE q = r BY <1>1
<1>2. CASE q # r
  <2>1. op'[q] = op[q] /\ worker'[q] = worker[q] BY <1>2
  <2> QED BY <1>2, <2>1, OtherStarts
<1> QED BY <1>1, <1>2

-----------------------------------------------------------------------------
(* What each kind of step does to the revisions *)

\* Acceptance records the configuration of the ship and moves no revision.
LEMMA AcceptRevisions ==
    ASSUME TypeOK, NEW r \in Request, NEW i \in Instance, NEW k \in Kind,
           Accept(r, i, k)
    PROVE  /\ op'[r].rev = inst[i].config
           /\ \A j \in Instance : /\ inst'[j].config = inst[j].config
                                  /\ inst'[j].applied = inst[j].applied
                                  /\ inst'[j].launch = inst[j].launch
<1>1. \A j \in Instance : inst[j] \in InstRecord BY DEF TypeOK
<1>2. op'[r].rev = inst[i].config BY DEF TypeOK, Accept
<1>3. /\ \A j \in Instance \ {i} : inst'[j] = inst[j]
      /\ inst'[i] = [inst[i] EXCEPT !.active = r,
                        !.desired = IF k = "start" THEN "running" ELSE "stopped"]
  BY DEF TypeOK, Accept
<1>4. /\ inst'[i].config = inst[i].config /\ inst'[i].applied = inst[i].applied
      /\ inst'[i].launch = inst[i].launch
  BY <1>1, <1>3 DEF InstRecord
<1> QED BY <1>2, <1>3, <1>4

\* A start captures the revision it was accepted with.
LEMMA BeginRevisions ==
    ASSUME TypeOK, NEW r \in Request, Begin(r)
    PROVE  /\ op'[r].rev = op[r].rev
           /\ \A j \in Instance : /\ inst'[j].config = inst[j].config
                                  /\ inst'[j].applied = inst[j].applied
           /\ \A j \in Instance \ {op[r].ship} : inst'[j] = inst[j]
           /\ inst'[op[r].ship].launch =
                 IF op[r].kind = "start" THEN op[r].rev
                 ELSE inst[op[r].ship].launch
<1> DEFINE i == op[r].ship
<1>1. op[r] \in OpRecord /\ i \in Instance /\ inst[i] \in InstRecord BY Typed
<1>2. op'[r] = [op[r] EXCEPT !.status = "running"] BY DEF TypeOK, Begin
<1>3. /\ \A j \in Instance \ {i} : inst'[j] = inst[j]
      /\ inst'[i] = [inst[i] EXCEPT !.observed = "busy",
                        !.launch = IF op[r].kind = "start" THEN op[r].rev ELSE @]
  BY <1>1 DEF TypeOK, Begin
<1>4. /\ inst'[i].config = inst[i].config /\ inst'[i].applied = inst[i].applied
      /\ inst'[i].launch = IF op[r].kind = "start" THEN op[r].rev
                           ELSE inst[i].launch
  BY <1>1, <1>3 DEF InstRecord
<1>5. op'[r].rev = op[r].rev BY <1>1, <1>2 DEF OpRecord
<1> QED BY <1>3, <1>4, <1>5

\* An outcome moves nothing but the applied revision of its own ship.
LEMMA OutcomeRevisions ==
    ASSUME TypeOK, NEW r \in Request, NEW status, NEW observed, NEW recovery,
           NEW applied, Outcome(r, status, observed, recovery, applied)
    PROVE  /\ op'[r].rev = op[r].rev
           /\ \A j \in Instance : /\ inst'[j].config = inst[j].config
                                  /\ inst'[j].launch = inst[j].launch
           /\ \A j \in Instance \ {op[r].ship} :
                 inst'[j].applied = inst[j].applied
           /\ inst'[op[r].ship].applied = applied
<1> DEFINE i == op[r].ship
<1>1. op[r] \in OpRecord /\ i \in Instance /\ inst[i] \in InstRecord BY Typed
<1>2. op'[r] = [op[r] EXCEPT !.status = status] BY DEF TypeOK, Outcome
<1>3. /\ \A j \in Instance \ {i} : inst'[j] = inst[j]
      /\ inst'[i] = [inst[i] EXCEPT !.active = NoRequest, !.observed = observed,
                        !.recovery = recovery, !.applied = applied]
  BY <1>1 DEF TypeOK, Outcome
<1>4. /\ inst'[i].config = inst[i].config /\ inst'[i].launch = inst[i].launch
      /\ inst'[i].applied = applied
  BY <1>1, <1>3 DEF InstRecord
<1>5. op'[r].rev = op[r].rev BY <1>1, <1>2 DEF OpRecord
<1> QED BY <1>3, <1>4, <1>5

\* An observation may apply the revision captured by the last start.
LEMMA PollRevisions ==
    ASSUME TypeOK, NEW i \in Instance, PollCommit(i)
    PROVE  /\ \A j \in Instance : /\ inst'[j].config = inst[j].config
                                  /\ inst'[j].launch = inst[j].launch
           /\ \A j \in Instance \ {i} : inst'[j].applied = inst[j].applied
           /\ inst'[i].applied \in {inst[i].applied, inst[i].launch}
<1>1. CASE ~Committable(i) BY <1>1 DEF PollCommit
<1>2. CASE Committable(i)
  <2>1. inst[i] \in InstRecord BY DEF TypeOK
  <2>2. /\ \A j \in Instance \ {i} : inst'[j] = inst[j]
        /\ inst'[i] = [inst[i] EXCEPT !.observed = poll[i].observed,
                                      !.recovery = poll[i].recovery,
                                      !.applied = AppliedRevision(i)]
    BY <1>2 DEF TypeOK, PollCommit
  <2>3. AppliedRevision(i) \in {inst[i].applied, inst[i].launch}
    BY DEF AppliedRevision
  <2>4. /\ inst'[i].config = inst[i].config /\ inst'[i].launch = inst[i].launch
        /\ inst'[i].applied = AppliedRevision(i)
    BY <2>1, <2>2 DEF InstRecord
  <2> QED BY <2>2, <2>3, <2>4
<1> QED BY <1>1, <1>2

-----------------------------------------------------------------------------
(* The steps of a worker *)

\* A journaled driver state moves no revision; the runtime it may be about to
\* create is that of a start.
LEMMA PersistDrift ==
    ASSUME TypeOK, JournalAgrees, WorkerOwns, RevisionKnown, StartKnown,
           NEW r \in Request, NEW state, NEW next, NEW fallback,
           Persist(r, state, next, fallback), launched' = launched,
           worker[r] \in Working,
           next \in {"intended", "marked"} /\ state.container = "runtime" =>
              op[r].kind = "start"
    PROVE  RevisionKnown' /\ StartKnown'
<1>1. op' = op /\ inst' = inst /\ engine' = engine BY PersistEffect
<1>2. RevisionKnown' BY <1>1, SameRevisions
<1>3. op[r].status = "running" BY DEF WorkerOwns
<1>4. OwnKnown(r)'
  <2>1. OwnKnown(r) BY AllKnown
  <2> QED BY <1>1, <1>3, <2>1, PersistEffect DEF OwnKnown, Pending
<1>5. \A j \in Instance \ {op[r].ship} : ShipKept(j)
  BY <1>1, PersistEffect DEF ShipKept
<1>6. \A q \in Request \ {r} : op'[q] = op[q] /\ worker'[q] = worker[q]
  BY <1>1, PersistEffect
<1>7. StartKnown' BY <1>3, <1>4, <1>5, <1>6, OwnStarts DEF Pending
<1> QED BY <1>2, <1>7

\* An outcome applies either nothing new or, of a start, the revision its
\* container was created with, which is still the configuration.
LEMMA OutcomeDrift ==
    ASSUME TypeOK, JournalAgrees, WorkerOwns, RevisionKnown, StartKnown,
           NEW r \in Request, NEW status \in Terminal, NEW observed,
           NEW recovery, NEW applied,
           Outcome(r, status, observed, recovery, applied),
           worker[r] \in Working \cup {"ready"},
           \/ applied = inst[op[r].ship].applied
           \/ /\ op[r].kind = "start" /\ worker[r] \in Working
              /\ applied = op[r].rev,
           \A j \in Instance \ {op[r].ship} : runtime'[j] = runtime[j]
    PROVE  RevisionKnown' /\ StartKnown'
<1> DEFINE i == op[r].ship
<1>1. op[r].status \in Pending BY DEF WorkerOwns, Pending
<1>2. /\ i \in Instance /\ inst[i].config \in Revision
      /\ inst[i].applied \in Revision
  BY Typed DEF InstRecord
<1>3. op[r].rev = inst[i].config BY <1>1 DEF StartKnown
<1>4. engine' = engine /\ launched' = launched BY DEF Outcome
<1>5. \/ applied = inst[i].applied
      \/ applied = inst[i].config /\ inst[i].launch = inst[i].config
  <2>1. OwnKnown(r) BY AllKnown
  <2>2. op[r].kind = "start" /\ worker[r] \in Working =>
           inst[i].launch = op[r].rev
    BY <2>1 DEF OwnKnown
  <2>3. CASE op[r].kind = "start" /\ worker[r] \in Working /\ applied = op[r].rev
    BY <1>3, <2>2, <2>3
  <2> QED BY <2>3
<1>6. inst[i].config <= inst[i].config BY <1>2 DEF Revision
<1>7. RevisionKnown'
  <2> SUFFICES ASSUME NEW j \in Instance PROVE Known(j)'
    BY AllKnown
  <2>1. inst'[j].config = inst[j].config /\ inst'[j].launch = inst[j].launch
    BY OutcomeRevisions
  <2>2. CASE j # i
    <3>1. inst'[j].applied = inst[j].applied BY <2>2, OutcomeRevisions
    <3> QED BY <1>4, <2>1, <3>1, AllKnown DEF Known
  <2>3. CASE j = i
    <3>1. inst'[i].applied = applied BY OutcomeRevisions
    <3> QED BY <1>4, <1>5, <1>6, <2>1, <2>3, <3>1, AllKnown DEF Known
  <2> QED BY <2>2, <2>3
<1>8. OwnKnown(r)'
  BY OutcomeEffect DEF OwnKnown, Pending, Terminal, Working, Driving
<1>9. \A j \in Instance \ {i} : ShipKept(j)
  BY OutcomeRevisions DEF ShipKept
<1>10. \A q \in Request \ {r} : op'[q] = op[q] /\ worker'[q] = worker[q]
  BY OutcomeEffect
<1>11. StartKnown' BY <1>1, <1>8, <1>9, <1>10, OwnStarts
<1> QED BY <1>7, <1>11

\* A start begins over no retained container, so the revision it captures can
\* disagree with none.
LEMMA BeginDrift ==
    ASSUME TypeOK, JournalAgrees, WorkerOwns, NothingUnrecorded, RevisionKnown,
           StartKnown, NEW r \in Request, Begin(r)
    PROVE  RevisionKnown' /\ StartKnown'
<1> DEFINE i == op[r].ship
<1>1. op[r].status = "queued" BY DEF Begin
<1>2. i \in Instance /\ inst[i].config \in Revision BY Typed DEF InstRecord
<1>3. op[r].rev = inst[i].config BY <1>1 DEF StartKnown, Pending
<1>4. engine' = engine /\ launched' = launched /\ runtime' = runtime
  BY DEF Begin
<1>5. op[r].kind = "start" => engine[i]["runtime"] = "absent"
  <2>1. op[r].kind = "start" => Clean(i) BY <1>1 DEF StartKnown
  <2> QED BY <1>2, <2>1, CleanAbsent DEF Container
<1>6. inst[i].config <= inst[i].config BY <1>2 DEF Revision
<1>7. RevisionKnown'
  <2> SUFFICES ASSUME NEW j \in Instance PROVE Known(j)'
    BY AllKnown
  <2>1. CASE j # i
    <3>1. inst'[j] = inst[j] BY <2>1, BeginRevisions
    <3> QED BY <1>4, <3>1, AllKnown DEF Known
  <2>2. CASE j = i
    <3>1. /\ inst'[i].config = inst[i].config
          /\ inst'[i].applied = inst[i].applied
          /\ inst'[i].launch = IF op[r].kind = "start" THEN op[r].rev
                               ELSE inst[i].launch
      BY <1>2, BeginRevisions
    <3> QED BY <1>3, <1>4, <1>5, <1>6, <2>2, <3>1, AllKnown DEF Known
  <2> QED BY <2>1, <2>2
<1>8. OwnKnown(r)'
  <2>1. /\ inst'[i].config = inst[i].config
        /\ op[r].kind = "start" => inst'[i].launch = op[r].rev
    BY <1>2, BeginRevisions
  <2>2. /\ op'[r].status = "running" /\ op'[r].ship = i
        /\ op'[r].kind = op[r].kind /\ worker'[r] = "begun"
    BY BeginEffect
  <2> QED BY <1>3, <2>1, <2>2, BeginRevisions DEF OwnKnown
<1>9. \A j \in Instance \ {i} : ShipKept(j)
  BY <1>4, BeginRevisions DEF ShipKept
<1>10. \A q \in Request \ {r} : op'[q] = op[q] /\ worker'[q] = worker[q]
  BY BeginEffect
<1>11. StartKnown' BY <1>1, <1>8, <1>9, <1>10, OwnStarts DEF Pending
<1> QED BY <1>7, <1>11

\* The container a start creates is created with the revision it captured.
LEMMA CreateDrift ==
    ASSUME TypeOK, JournalAgrees, WorkerOwns, RevisionKnown, StartKnown,
           NEW r \in Request, SendCreate(r)
    PROVE  RevisionKnown' /\ StartKnown'
<1> DEFINE i == op[r].ship
<1> DEFINE c == runtime[i].container
<1>1. i \in Instance BY Typed
<1>2. worker[r] = "marked" /\ op[r].status = "running"
  BY DEF SendCreate, WorkerOwns, Working, Driving
<1>3. UNCHANGED <<op, inst, runtime>> BY DEF SendCreate, durable
<1>4. \A j \in Instance \ {i} : engine'[j] = engine[j] /\ launched'[j] = launched[j]
  BY <1>1 DEF TypeOK, SendCreate
<1>5. RevisionKnown'
  <2> SUFFICES ASSUME NEW j \in Instance PROVE Known(j)'
    BY AllKnown
  <2>0. Known(j) BY AllKnown
  <2>1. CASE j # i
    <3>1. engine'[j] = engine[j] /\ launched'[j] = launched[j] BY <1>4, <2>1
    <3> QED BY <1>3, <2>0, <3>1 DEF Known
  <2>2. CASE j = i /\ c = "runtime"
    <3>1. launched'[i] = inst[i].launch BY <1>1, <2>2 DEF TypeOK, SendCreate
    <3>2. OwnKnown(r) BY AllKnown
    <3>3. op[r].kind = "start" BY <1>2, <2>2, <3>2 DEF OwnKnown
    <3>4. inst[i].launch = op[r].rev /\ op[r].rev = inst[i].config
      BY <1>2, <3>2, <3>3 DEF OwnKnown, Pending, Working, Driving
    <3> QED BY <1>3, <2>0, <2>2, <3>1, <3>4 DEF Known
  <2>3. CASE j = i /\ c # "runtime"
    <3>1. launched'[i] = launched[i] BY <1>1, <2>3 DEF TypeOK, SendCreate
    <3>2. engine'[i]["runtime"] = engine[i]["runtime"]
      BY <1>1, <2>3 DEF TypeOK, SendCreate, Container
    <3> QED BY <1>3, <2>0, <2>3, <3>1, <3>2 DEF Known
  <2> QED BY <2>1, <2>2, <2>3
<1>6. StartKnown'
  <2>1. /\ worker'[r] = "sent"
        /\ \A q \in Request \ {r} : worker'[q] = worker[q]
    BY DEF TypeOK, SendCreate
  <2>2. \A q \in Request : RowKept(q)
    BY <1>2, <1>3, <2>1 DEF RowKept, Working, Driving
  <2> QED BY <1>3, <2>2, SameStarts DEF ShipKept
<1> QED BY <1>5, <1>6

\* No step of a worker hides drift.
LEMMA WorkerDrift ==
    ASSUME TypeOK, JournalAgrees, WorkerOwns, NothingUnrecorded, RevisionKnown,
           StartKnown, NEW r \in Request, WorkerStep(r)
    PROVE  RevisionKnown' /\ StartKnown'
<1> DEFINE i == op[r].ship
<1>0. /\ op[r] \in OpRecord /\ i \in Instance /\ runtime[i] \in Runtime
      /\ worker[r] \in WorkerAt
  BY Typed DEF TypeOK
<1>1. CASE Begin(r) BY <1>1, BeginDrift
<1>2. CASE SendCreate(r) BY <1>2, CreateDrift
<1>3. CASE Refuse(r)
  <2>1. Outcome(r, "failed", "unknown", TRUE, inst[i].applied)
        /\ worker[r] = "ready" /\ runtime' = runtime
    BY <1>3 DEF Refuse
  <2>2. "failed" \in Terminal BY DEF Terminal
  <2> QED BY <2>1, <2>2, OutcomeDrift
<1>4. CASE FinishOk(r)
  <2>1. /\ worker[r] \in Working /\ runtime' = runtime
        /\ \E observed, recovery, applied :
              /\ Outcome(r, "succeeded", observed, recovery, applied)
              /\ \/ applied = inst[i].applied
                 \/ op[r].kind = "start" /\ applied = op[r].rev
    BY <1>4 DEF FinishOk, Working, Driving
  <2>2. "succeeded" \in Terminal BY DEF Terminal
  <2> QED BY <2>1, <2>2, OutcomeDrift
<1>5. CASE FinishFailed(r)
  <2>1. FailedStatus \in Terminal BY DEF FailedStatus, Terminal
  <2>2. \A j \in Instance \ {i} : runtime'[j] = runtime[j]
    BY <1>5 DEF TypeOK, FinishFailed
  <2>3. Outcome(r, FailedStatus, "unknown", TRUE, inst[i].applied)
        /\ worker[r] \in Working
    BY <1>5 DEF FinishFailed
  <2> QED BY <2>1, <2>2, <2>3, OutcomeDrift
<1>6. CASE FinishIncompatible(r)
  <2>1. FailedStatus \in Terminal BY DEF FailedStatus, Terminal
  <2>2. /\ worker[r] \in Working /\ runtime' = runtime
        /\ \E recovery :
              Outcome(r, FailedStatus, "unknown", recovery, inst[i].applied)
    BY <1>6 DEF FinishIncompatible, Working, Driving
  <2> QED BY <2>1, <2>2, OutcomeDrift
<1>7. CASE ReportPending(r)
  <2>1. /\ worker[r] \in Working /\ launched' = launched
        /\ \E state, fallback : Persist(r, state, "pending", fallback)
    BY <1>7 DEF ReportPending, Persist, Working, Driving
  <2> QED BY <2>1, PersistDrift
<1>8. CASE RecordIntent(r)
  <2> DEFINE intended == [runtime[i] EXCEPT !.container = Wanted(r), !.sent = FALSE]
  <2>1. /\ worker[r] \in Working /\ launched' = launched
        /\ Persist(r, intended, "intended", intended)
    BY <1>8 DEF RecordIntent, Persist, Working, Driving
  <2>2. intended.container = Wanted(r) BY <1>0 DEF Runtime
  <2>3. Wanted(r) = "runtime" => op[r].kind = "start" BY DEF Wanted
  <2> QED BY <2>1, <2>2, <2>3, PersistDrift
<1>9. CASE MarkDispatch(r)
  <2> DEFINE marked == [runtime[i] EXCEPT !.sent = TRUE,
                           !.maint = IF runtime[i].container = "utility"
                                     THEN "dispatched" ELSE @]
  <2>1. /\ worker[r] = "intended" /\ launched' = launched
        /\ Persist(r, marked, "marked", runtime[i])
    BY <1>9 DEF MarkDispatch, Persist
  <2>2. marked.container = runtime[i].container BY <1>0 DEF Runtime
  <2>3. OwnKnown(r) BY AllKnown
  <2>4. marked.container = "runtime" => op[r].kind = "start"
    BY <2>1, <2>2, <2>3 DEF OwnKnown
  <2>5. worker[r] \in Working BY <2>1 DEF Working, Driving
  <2> QED BY <2>1, <2>4, <2>5, PersistDrift
<1>10. CASE PersistRemoved(r) \/ RetireIntent(r) \/ SettleMaintenance(r)
  <2>1. /\ worker[r] \in Working /\ launched' = launched
        /\ \E state, fallback :
              \E next \in {"probed", "removed", "settled"} :
                 Persist(r, state, next, fallback)
    BY <1>10 DEF PersistRemoved, RetireIntent, SettleMaintenance, Persist,
                 Working, Driving
  <2> QED BY <2>1, PersistDrift
<1>11. CASE RemoveContainer(r)
  <2>1. UNCHANGED <<op, inst, runtime, launched>>
    BY <1>11 DEF RemoveContainer, durable
  <2>2. \A j \in Instance : engine'[j]["runtime"] # "absent" =>
                               engine[j]["runtime"] # "absent"
    BY <1>0, <1>11 DEF TypeOK, RemoveContainer, Container
  <2>3. /\ worker'[r] = "removing" /\ worker[r] \in Working
        /\ \A q \in Request \ {r} : worker'[q] = worker[q]
    BY <1>11 DEF TypeOK, RemoveContainer, Working, Driving
  <2>4. \A q \in Request : RowKept(q) BY <2>1, <2>3 DEF RowKept
  <2> QED BY <2>1, <2>2, <2>4, SameRevisions, SameStarts DEF ShipKept
<1>12. CASE ProgressFault(r) \/ OutcomeLost(r) \/ AbandonGate(r) \/ WorkerExit(r)
  <2>1. UNCHANGED <<op, inst, runtime, launched, engine>>
    BY <1>12 DEF ProgressFault, OutcomeLost, AbandonGate, WorkerExit, durable
  <2>2. /\ \A q \in Request \ {r} : worker'[q] = worker[q]
        /\ \/ worker'[r] \in {"done", "none"}
           \/ worker'[r] = "faulted" /\ worker[r] \in Working
    BY <1>12 DEF TypeOK, ProgressFault, OutcomeLost, AbandonGate, WorkerExit,
                 Working
  <2>3. \A q \in Request : RowKept(q)
    BY <2>1, <2>2 DEF RowKept, Working, Driving
  <2> QED BY <2>1, <2>3, SameRevisions, SameStarts DEF ShipKept
<1> QED BY <1>1, <1>2, <1>3, <1>4, <1>5, <1>6, <1>7, <1>8, <1>9, <1>10, <1>11,
           <1>12 DEF WorkerStep

-----------------------------------------------------------------------------
(* Every step *)

\* An edit of an idle ship leaves its applied and captured revisions behind.
LEMMA ConfigureDrift ==
    ASSUME TypeOK, JournalAgrees, WorkerOwns, RevisionKnown, StartKnown,
           NEW i \in Instance, Configure(i)
    PROVE  RevisionKnown' /\ StartKnown'
<1>1. UNCHANGED <<op, runtime, worker, engine, launched>> BY DEF Configure
<1>2. inst[i] \in InstRecord /\ inst[i].active = NoRequest
  BY DEF TypeOK, Configure
<1>3. /\ \A j \in Instance \ {i} : inst'[j] = inst[j]
      /\ inst'[i] = [inst[i] EXCEPT !.config = inst[i].config + 1]
  BY DEF TypeOK, Configure
<1>4. /\ inst'[i].config = inst[i].config + 1
      /\ inst'[i].applied = inst[i].applied /\ inst'[i].launch = inst[i].launch
  BY <1>2, <1>3 DEF InstRecord
<1>5. /\ inst[i].config \in Nat /\ inst[i].applied \in Nat
      /\ inst[i].launch \in Nat
  BY <1>2, BoundsAssumption DEF InstRecord, Revision
<1>6. RevisionKnown'
  <2> SUFFICES ASSUME NEW j \in Instance PROVE Known(j)'
    BY AllKnown
  <2>1. Known(j) BY AllKnown
  <2>2. CASE j # i
    <3>1. inst'[j] = inst[j] BY <1>3, <2>2
    <3> QED BY <1>1, <2>1, <3>1 DEF Known
  <2>3. CASE j = i BY <1>1, <1>4, <1>5, <2>1, <2>3 DEF Known
  <2> QED BY <2>2, <2>3
<1>7. StartKnown'
  <2> SUFFICES ASSUME NEW q \in Request PROVE OwnKnown(q)'
    BY AllKnown
  <2>1. OwnKnown(q) /\ op[q].ship \in Instance BY AllKnown, Typed
  <2>2. /\ op[q].status \in Pending => op[q].ship # i
        /\ worker[q] \in Working => op[q].ship # i
    BY <1>2, <2>1, NoRequestAssumption DEF JournalAgrees, WorkerOwns, Pending
  <2>3. op[q].ship # i => inst'[op[q].ship] = inst[op[q].ship] BY <1>3, <2>1
  <2> QED BY <1>1, <2>1, <2>2, <2>3 DEF OwnKnown, Clean
<1> QED BY <1>6, <1>7

\* No step at all does.
LEMMA DriftStep ==
    IInv /\ RevisionKnown /\ StartKnown /\ [Next]_vars
    => RevisionKnown' /\ StartKnown'
<1> SUFFICES ASSUME IInv, RevisionKnown, StartKnown, [Next]_vars
             PROVE  RevisionKnown' /\ StartKnown'
  OBVIOUS
<1> USE DEF IInv
<1>1. ASSUME NEW r \in Request, NEW i \in Instance, NEW k \in Kind,
             Accept(r, i, k)
      PROVE  RevisionKnown' /\ StartKnown'
  <2>1. UNCHANGED <<runtime, engine, launched>> BY <1>1 DEF Accept
  <2>2. RevisionKnown' BY <1>1, <2>1, AcceptRevisions, SameRevisions
  <2>3. StartKnown'
    <3> SUFFICES ASSUME NEW q \in Request PROVE OwnKnown(q)'
      BY AllKnown
    <3>1. CASE q = r
      <4>1. k = "start" => Clean(i) BY <1>1 DEF Accept, Acceptable
      <4>2. /\ op'[r].rev = inst'[i].config /\ op'[r].ship = i
            /\ op'[r].kind = k /\ op'[r].status = "queued"
            /\ worker'[r] \in {"waiting", "ready"}
        BY <1>1, AcceptRevisions, AcceptEffect
      <4> QED BY <2>1, <3>1, <4>1, <4>2 DEF OwnKnown, Clean, Working, Driving
    <3>2. CASE q # r
      <4>1. op'[q] = op[q] /\ worker'[q] = worker[q] /\ OwnKnown(q)
        BY <1>1, <3>2, AcceptEffect, AllKnown
      <4>2. /\ inst'[op[q].ship].config = inst[op[q].ship].config
            /\ inst'[op[q].ship].launch = inst[op[q].ship].launch
        BY <1>1, AcceptRevisions, Typed
      <4> QED BY <2>1, <4>1, <4>2 DEF OwnKnown, Clean
    <3> QED BY <3>1, <3>2
  <2> QED BY <2>2, <2>3
<1>2. ASSUME NEW r \in Request, AcquireGate(r)
      PROVE  RevisionKnown' /\ StartKnown'
  <2>1. UNCHANGED <<op, inst, runtime, engine, launched>>
    BY <1>2 DEF AcquireGate, durable
  <2>2. /\ worker'[r] = "ready"
        /\ \A q \in Request \ {r} : worker'[q] = worker[q]
    BY <1>2 DEF TypeOK, AcquireGate
  <2>3. \A q \in Request : RowKept(q)
    BY <2>1, <2>2 DEF RowKept, Working, Driving
  <2> QED BY <2>1, <2>3, SameRevisions, SameStarts DEF ShipKept
<1>3. ASSUME NEW r \in Request, WorkerStep(r)
      PROVE  RevisionKnown' /\ StartKnown'
  BY <1>3, WorkerDrift
<1>4. ASSUME NEW i \in Instance, Configure(i)
      PROVE  RevisionKnown' /\ StartKnown'
  BY <1>4, ConfigureDrift
<1>5. ASSUME NEW i \in Instance, PollCommit(i)
      PROVE  RevisionKnown' /\ StartKnown'
  <2>1. UNCHANGED <<op, worker, engine, launched>> BY <1>5 DEF PollCommit
  <2>2. RevisionKnown'
    <3> SUFFICES ASSUME NEW j \in Instance PROVE Known(j)'
      BY AllKnown
    <3>1. Known(j) BY AllKnown
    <3>2. /\ inst'[j].config = inst[j].config /\ inst'[j].launch = inst[j].launch
          /\ inst'[j].applied \in {inst[j].applied, inst[j].launch}
      BY <1>5, PollRevisions
    <3> QED BY <2>1, <3>1, <3>2 DEF Known
  <2>3. \A j \in Instance : ShipKept(j)
    BY <1>5, PollRevisions, PollKeepsRuntime DEF ShipKept
  <2>4. \A q \in Request : RowKept(q) BY <2>1 DEF RowKept
  <2> QED BY <2>2, <2>3, <2>4, SameStarts
<1>6. ASSUME NEW i \in Instance, NEW c \in Container, EngineStep(i, c)
      PROVE  RevisionKnown' /\ StartKnown'
  <2>1. UNCHANGED <<op, inst, runtime, worker, launched>>
    BY <1>6 DEF EngineStep, durable, volatile
  <2>2. \A j \in Instance : engine'[j]["runtime"] # "absent" =>
                               engine[j]["runtime"] # "absent"
    BY <1>6 DEF TypeOK, EngineStep, Container
  <2>3. \A q \in Request : RowKept(q) BY <2>1 DEF RowKept
  <2> QED BY <2>1, <2>2, <2>3, SameRevisions, SameStarts DEF ShipKept
<1>7. CASE \/ \E i \in Instance : PollRead(i) \/ PollLost(i)
           \/ \E t \in Token : AcquireFence(t) \/ ReleaseFence(t)
           \/ BeginBulk \/ EndBulk \/ JournalFails \/ Close
           \/ UNCHANGED vars
  <2>1. UNCHANGED <<op, inst, runtime, worker, engine, launched>>
    BY <1>7 DEF PollRead, PollLost, AcquireFence, ReleaseFence, BeginBulk,
                EndBulk, JournalFails, Close, durable, volatile, vars
  <2>2. \A q \in Request : RowKept(q) BY <2>1 DEF RowKept
  <2> QED BY <2>1, <2>2, SameRevisions, SameStarts DEF ShipKept
<1>8. CASE Closed \/ Crash
  <2>1. UNCHANGED <<op, inst, runtime, engine, launched>>
    BY <1>8 DEF Closed, Crash, Down, durable
  <2>2. \A q \in Request : worker'[q] = "none" BY <1>8 DEF Closed, Crash, Down
  <2>3. \A q \in Request : RowKept(q)
    BY <2>1, <2>2 DEF RowKept, Working, Driving
  <2> QED BY <2>1, <2>3, SameRevisions, SameStarts DEF ShipKept
<1>9. CASE Restart
  <2>1. UNCHANGED <<runtime, worker, engine, launched>> BY <1>9 DEF Restart
  <2>2. ASSUME NEW j \in Instance
        PROVE  /\ inst'[j].config = inst[j].config
               /\ inst'[j].applied = inst[j].applied
               /\ inst'[j].launch = inst[j].launch
    <3>1. inst'[j] = Reconciled(j) /\ inst[j] \in InstRecord
      BY <1>9 DEF TypeOK, Restart
    <3> QED BY <3>1 DEF Reconciled, InstRecord
  <2>3. ASSUME NEW q \in Request PROVE RowKept(q)
    <3>1. op[q] \in OpRecord BY Typed
    <3>2. op'[q] = IF op[q].status \in Pending
                   THEN [op[q] EXCEPT !.status = "interrupted"] ELSE op[q]
      BY <1>9, RestartMoves
    <3> QED BY <2>1, <3>1, <3>2 DEF RowKept, OpRecord, Pending
  <2> QED BY <2>1, <2>2, <2>3, SameRevisions, SameStarts DEF ShipKept
<1> QED BY <1>1, <1>2, <1>3, <1>4, <1>5, <1>6, <1>7, <1>8, <1>9 DEF Next

\* No container exists at first, and no revision is newer than the first.
LEMMA DriftInit == Init => RevisionKnown /\ StartKnown
<1> SUFFICES ASSUME Init PROVE RevisionKnown /\ StartKnown
  OBVIOUS
<1>1. \A i \in Instance :
         /\ inst[i].applied = 0 /\ inst[i].launch = 0 /\ inst[i].config = 1
         /\ engine[i]["runtime"] = "absent"
  BY DEF Init, Container
<1>2. \A r \in Request : op[r].status = "absent" /\ worker[r] = "none"
  BY DEF Init
<1>3. 0 <= 1 /\ 0 # 1 OBVIOUS
<1>4. RevisionKnown BY <1>1, <1>3 DEF RevisionKnown
<1> QED BY <1>2, <1>4 DEF StartKnown, Pending, Working, Driving

\* A live runtime of a ship whose applied revision is its configuration was
\* created with it, across every edit, lost create, late start, stale
\* observation, crash and restart.
THEOREM DriftSeen == Spec => []NoHiddenDrift
<1>1. RevisionKnown => NoHiddenDrift BY DEF RevisionKnown, NoHiddenDrift
<1> QED BY <1>1, DriftInit, DriftStep, Invariance, PTL DEF Spec
=============================================================================
