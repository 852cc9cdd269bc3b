-------------------------- MODULE EpochPruneProofs --------------------------
(***************************************************************************)
(* Theorems about EpochPrune, for any epochs, places, hosts, transfers,    *)
(* coordinators and bounds.  Maintenance leaves the handoff what           *)
(* HostHandoff says it is, so that its theorems hold beside maintenance,   *)
(* and the handoff keeps away from a pier that maintenance has.            *)
(***************************************************************************)
EXTENDS EpochPrune, HostHandoffProofs, FiniteSetTheorems

-----------------------------------------------------------------------------
(* Every step is a step of the handoff, or leaves it alone *)

\* The calls of a coordinator that do not fence a place.
CallElsewhere(c) ==
    \/ PrepareAgain(c) \/ PrepareRefused(c) \/ WaitSource(c)
    \/ ReserveFresh(c) \/ ReserveAgain(c) \/ Inspect(c)
    \/ Relay(c) \/ Put(c) \/ Retry(c) \/ WaitReceived(c)
    \/ Commit(c) \/ WaitMoved(c) \/ Activate(c)

\* What the handoff does beside maintenance: a place starts, or is fenced, only
\* while no maintenance has it.
Beside ==
    \/ \E p \in Place : Start(p) /\ Quiet(p)
    \/ \E c \in Coordinator, t \in Transfer :
          PrepareFresh(c, t) /\ Quiet(job[c].from)
    \/ \E p \in Place : Stop(p) \/ Work(p) \/ Fail(p)
    \/ \E c \in Coordinator : CallElsewhere(c) \/ GiveUp(c)
    \/ \E c \in Coordinator, p, q \in Place : Begin(c, p, q)
    \/ \E n \in Runner : Crash(n)
    \/ UNCHANGED vars

\* Every step does one of them.
LEMMA StepBeside == [PruneNext]_allVars => Beside
<1> SUFFICES ASSUME [PruneNext]_allVars PROVE Beside
  OBVIOUS
<1>1. CASE UNCHANGED allVars
  BY <1>1 DEF allVars, Beside
<1>2. ASSUME NEW p \in Place,
             AcceptInspect(p) \/ AcceptRoll(p) \/ StopAgain(p)
             \/ Maintain(p) \/ FailTask(p)
             \/ \E e \in Epoch : AcceptPrune(p, e) \/ Touch(p, e)
      PROVE  Beside
  <2>1. UNCHANGED vars
    BY <1>2 DEF AcceptInspect, AcceptRoll, StopAgain, Maintain, FailTask,
       AcceptPrune, Touch, Accept, InspectPier, RollBegin, RollEnd, RollEpoch,
       PruneBegin, PruneRefused, PruneStopped, PruneEnd, Unlink, RemoveEpoch
  <2> QED
    BY <2>1 DEF Beside
<1>3. ASSUME NEW p \in Place, StartShip(p) PROVE Beside
  BY <1>3 DEF StartShip, Beside
<1>4. ASSUME NEW p \in Place, WorkStep(p) PROVE Beside
  <2>1. Work(p)
    BY <1>4 DEF WorkStep, ExportLog, StageLog, ReceiveLog, OtherWork, Work
  <2> QED
    BY <2>1 DEF Beside
<1>5. ASSUME NEW c \in Coordinator, CallStep(c) PROVE Beside
  <2>1. CASE \E t \in Transfer : PrepareQuiet(c, t)
    BY <2>1 DEF PrepareQuiet, Beside
  <2>2. CASE Reserve(c) \/ OtherCall(c)
    <3>1. CallElsewhere(c)
      BY <2>2 DEF Reserve, OtherCall, CallElsewhere
    <3> QED
      BY <3>1 DEF Beside
  <2> QED
    BY <1>5, <2>1, <2>2 DEF CallStep
<1>6. ASSUME NEW n \in Runner, CrashRunner(n) PROVE Beside
  BY <1>6 DEF CrashRunner, Beside
<1>7. CASE Rest
  BY <1>7 DEF Rest, Beside
<1> QED
  BY <1>1, <1>2, <1>3, <1>4, <1>5, <1>6, <1>7 DEF PruneNext

\* The handoff beside maintenance is the handoff.
LEMMA BesideMoves == Beside => [Next]_vars
<1> SUFFICES ASSUME Beside PROVE [Next]_vars
  OBVIOUS
<1>1. ASSUME NEW c \in Coordinator, CallElsewhere(c) PROVE Next
  <2>1. ClientStep(c)
    BY <1>1 DEF CallElsewhere, ClientStep
  <2> QED
    BY <2>1 DEF Next
<1>2. ASSUME NEW c \in Coordinator, NEW t \in Transfer, PrepareFresh(c, t)
      PROVE  Next
  <2>1. ClientStep(c)
    BY <1>2 DEF ClientStep
  <2> QED
    BY <2>1 DEF Next
<1>3. CASE \E p \in Place : Start(p) /\ Quiet(p)
  BY <1>3 DEF Next
<1>4. CASE \/ \E p \in Place : Stop(p) \/ Work(p) \/ Fail(p)
           \/ \E c \in Coordinator : GiveUp(c)
           \/ \E c \in Coordinator, p, q \in Place : Begin(c, p, q)
           \/ \E n \in Runner : Crash(n)
           \/ UNCHANGED vars
  BY <1>4 DEF Next
<1> QED
  BY <1>1, <1>2, <1>3, <1>4 DEF Beside

\* Maintenance leaves the handoff what it is: every theorem about HostHandoff
\* holds of it beside maintenance.
THEOREM MovesBeside == PruneSpec => Spec
<1>1. PruneInit => Init
  BY DEF PruneInit
<1>2. [PruneNext]_allVars => [Next]_vars
  BY StepBeside, BesideMoves
<1> QED
  BY <1>1, <1>2, PTL DEF PruneSpec, Spec

-----------------------------------------------------------------------------
(* The handoff keeps away from a pier that maintenance has *)

Resting(p) == Startable(p) /\ ~running[p] /\ op[p] = "none"

\* A pier is put into a place once.
LEMMA PierOnce ==
    ASSUME IInv, Beside, NEW p \in Place, pier'[p] = "none"
    PROVE  pier[p] = "none"
<1> USE DEF IInv, TypeOK
<1>1. CASE UNCHANGED pier
  BY <1>1
<1>2. ASSUME NEW q \in Place, Stage(q) \/ Publish(q) \/ Archive(q)
      PROVE  pier[p] = "none"
  BY <1>2 DEF Stage, Publish, Archive
<1>3. ASSUME NEW q \in Place, Stop(q) \/ Work(q) \/ Fail(q)
      PROVE  UNCHANGED pier \/ Stage(q) \/ Publish(q) \/ Archive(q)
  BY <1>3 DEF Stop, Work, Fail, Export, FinishPrepare, FinishReceive,
     FinishCommit, files
<1>4. ASSUME NEW c \in Coordinator, CallElsewhere(c) \/ GiveUp(c)
      PROVE  UNCHANGED pier
  BY <1>4 DEF CallElsewhere, GiveUp, PrepareAgain, PrepareRefused, WaitSource,
     ReserveFresh, ReserveAgain, Inspect, Relay, Put, Retry, WaitReceived,
     Commit, WaitMoved, Activate, OnlyClient, files
<1> QED
  BY <1>1, <1>2, <1>3, <1>4 DEF Beside, Start, PrepareFresh, Begin, OnlyClient,
     Crash, files, vars

\* A stopped ship under maintenance stays as it is.
LEMMA RestStays ==
    ASSUME IInv, Beside, NEW p \in Place, ~Quiet(p), Resting(p)
    PROVE  Resting(p)' /\ content'[p] = content[p]
<1> USE DEF IInv, TypeOK, Resting, Startable, Fenced
<1>1. ASSUME NEW q \in Place, Start(q), Quiet(q)
      PROVE  Resting(p)' /\ content'[p] = content[p]
  <2>1. q # p
    BY <1>1
  <2> QED
    BY <1>1, <2>1 DEF Start, record
<1>2. ASSUME NEW c \in Coordinator, NEW t \in Transfer, PrepareFresh(c, t),
             Quiet(job[c].from)
      PROVE  Resting(p)' /\ content'[p] = content[p]
  <2>1. job[c].from # p
    BY <1>2
  <2> QED
    BY <1>2, <2>1 DEF PrepareFresh, Dispatch, files
<1>3. ASSUME NEW q \in Place, Stop(q) \/ Work(q) \/ Fail(q)
      PROVE  Resting(p)' /\ content'[p] = content[p]
  <2>1. CASE Stop(q)
    BY <2>1 DEF Stop, record
  <2>2. CASE Work(q) \/ Fail(q)
    <3>1. q # p
      BY <2>2 DEF Work, Fail, Export, FinishPrepare, Stage, Publish,
         FinishReceive, Archive, FinishCommit
    <3>2. CASE Fail(q)
      BY <3>1, <3>2 DEF Fail, files
    <3>3. CASE Export(q) \/ Publish(q) \/ Archive(q) \/ Stage(q)
      <4>1. UNCHANGED <<dir, state, op, running>>
        BY <3>3 DEF Export, Stage, Publish, Archive, record, files
      <4>2. content'[p] = content[p]
        <5>1. CASE Stage(q)
          BY <3>1, <5>1 DEF Stage
        <5>2. CASE Export(q) \/ Publish(q) \/ Archive(q)
          BY <5>2 DEF Export, Publish, Archive, files
        <5> QED
          BY <3>3, <5>1, <5>2
      <4> QED
        BY <4>1, <4>2
    <3>4. CASE FinishPrepare(q) \/ FinishReceive(q) \/ FinishCommit(q)
      BY <3>1, <3>4 DEF FinishPrepare, FinishReceive, FinishCommit, Finish,
         files
    <3> QED
      BY <2>2, <3>2, <3>3, <3>4 DEF Work
  <2> QED
    BY <1>3, <2>1, <2>2
<1>4. ASSUME NEW c \in Coordinator, CallElsewhere(c) \/ GiveUp(c)
      PROVE  Resting(p)' /\ content'[p] = content[p]
  <2> USE DEF HalvesAgree, ClientKnows
  <2>1. CASE GiveUp(c) \/ PrepareRefused(c) \/ WaitSource(c) \/ ReserveAgain(c)
             \/ Inspect(c) \/ Relay(c) \/ WaitReceived(c) \/ WaitMoved(c)
    BY <2>1 DEF GiveUp, PrepareRefused, WaitSource, ReserveAgain, Inspect,
       Relay, WaitReceived, WaitMoved, OnlyClient, record, files
  <2>2. CASE PrepareAgain(c)
    <3>1. job[c].from # p
      BY <2>2 DEF PrepareAgain
    <3> QED
      BY <2>2, <3>1 DEF PrepareAgain, Dispatch, files
  <2>3. CASE ReserveFresh(c)
    <3>1. job[c].to # p
      BY <2>3 DEF ReserveFresh, Collides
    <3> QED
      BY <2>3, <3>1 DEF ReserveFresh, files
  <2>4. CASE Put(c)
    BY <2>4 DEF Put, Awaits, Receives, Dispatch, files
  <2>5. CASE Retry(c)
    BY <2>5 DEF Retry, Receives, Dispatch, files
  <2>6. CASE Commit(c)
    <3>1. dir[job[c].from] = "out"
      BY <2>6 DEF Commit
    <3> QED
      BY <2>6, <3>1 DEF Commit, Dispatch, files
  <2>7. CASE Activate(c)
    BY <2>7 DEF Activate, Receives, files
  <2> QED
    BY <1>4, <2>1, <2>2, <2>3, <2>4, <2>5, <2>6, <2>7 DEF CallElsewhere
<1>5. ASSUME NEW c \in Coordinator, NEW q \in Place, NEW r \in Place,
             Begin(c, q, r)
      PROVE  Resting(p)' /\ content'[p] = content[p]
  BY <1>5 DEF Begin, OnlyClient, record, files
<1>6. ASSUME NEW n \in Runner, Crash(n)
      PROVE  Resting(p)' /\ content'[p] = content[p]
  BY <1>6 DEF Crash, files
<1>7. CASE UNCHANGED vars
  BY <1>7 DEF vars, record, files
<1> QED
  BY <1>1, <1>2, <1>3, <1>4, <1>5, <1>6, <1>7 DEF Beside

\* So does one whose outcome is uncertain.
LEMMA RestKept ==
    ASSUME IInv, AtRest, Beside, NEW p \in Place, task[p] # "none" \/ uncertain[p]
    PROVE  Resting(p)' /\ content'[p] = content[p]
<1>1. ~Quiet(p) /\ Resting(p)
  BY DEF Quiet, AtRest, Resting
<1> QED
  BY <1>1, RestStays

-----------------------------------------------------------------------------
(* The invariant *)

\* A stopped ship has a pier.
LEMMA RestingPier ==
    ASSUME IInv, NEW p \in Place, Startable(p)
    PROVE  pier[p] = "mounted"
BY DEF IInv, TypeOK, PierAgrees, Startable, Fenced

\* What a scan finds is an inventory.
LEMMA ScanType ==
    ASSUME IInv, PruneTypeOK, NEW p \in Place
    PROVE  Scan(p) \in Inventory
BY DEF IInv, TypeOK, PruneTypeOK, Scan, Inventory

LEMMA InitPruneInv == PruneInit => PruneInv
<1> SUFFICES ASSUME PruneInit PROVE PruneInv
  OBVIOUS
<1> USE DEF PruneInit
<1>1. log \in [Place -> Log] /\ parcel \in [Transfer -> Log]
  BY DEF Log, NoLog
<1>2. PruneTypeOK
  BY <1>1, SlipsAssumption DEF PruneTypeOK
<1>3. AtRest /\ TaskAgrees /\ DeletionAgrees
  BY DEF AtRest, TaskAgrees, DeletionAgrees
<1>4. LogAgrees
  <2>1. pier[Home] # "none"
    BY HomeAssumption DEF Init
  <2> QED
    BY <2>1 DEF LogAgrees, NoLog
<1> QED
  BY <1>2, <1>3, <1>4 DEF PruneInv

\* A step that keeps every record of a deletion, and at most ends maintenance.
LEMMA FrameInv ==
    ASSUME IInv, PruneInv, Beside, PruneTypeOK', LogAgrees',
           UNCHANGED <<prefix, uncertain>>,
           \A q \in Place : task'[q] \in {task[q], "none"},
           \A q \in Place : task'[q] # "none" =>
               intent'[q] = intent[q] /\ log'[q] = log[q]
    PROVE  PruneInv'
<1> USE DEF PruneInv
<1>1. AtRest'
  <2> SUFFICES ASSUME NEW p \in Place, task'[p] # "none" \/ uncertain'[p]
               PROVE  Resting(p)'
    BY DEF AtRest, Resting
  <2>1. task[p] # "none" \/ uncertain[p]
    OBVIOUS
  <2> QED
    BY <2>1, RestKept
<1>2. TaskAgrees'
  BY DEF TaskAgrees
<1>3. DeletionAgrees'
  <2> SUFFICES ASSUME NEW p \in Place, task'[p] = "deleting"
               PROVE  LET r == prefix'[p] IN
                      /\ r \in [before : Log, cutoff : Epoch]
                      /\ intent'[p].cutoff = r.cutoff
                      /\ intent'[p].inventory.log = r.before
                      /\ intent'[p].inventory.version = content'[p]
                      /\ PrunePlan(r.before, r.cutoff)
                      /\ \A e \in Epoch :
                            /\ r.before[e] # "torn"
                            /\ e \notin Targets(p)' =>
                                  \/ log'[p][e] = r.before[e]
                                  \/ /\ r.before[e] = "whole"
                                     /\ log'[p][e] = "touched"
                            /\ e \in Targets(p)'
                               /\ log'[p][e] \in {"torn", "absent"} =>
                                  \A d \in Targets(p)' :
                                      d < e => log'[p][d] = "absent"
    BY DEF DeletionAgrees
  <2>1. task[p] = "deleting" /\ intent'[p] = intent[p] /\ log'[p] = log[p]
        /\ prefix'[p] = prefix[p]
    OBVIOUS
  <2>2. content'[p] = content[p]
    BY <2>1, RestKept
  <2>3. Targets(p)' = Targets(p)
    BY <2>1 DEF Targets
  <2> QED
    BY <2>1, <2>2, <2>3 DEF DeletionAgrees
<1> QED
  BY <1>1, <1>2, <1>3

\* Logs that stay, under piers that stay.
LEMMA SameLogs ==
    ASSUME IInv, PruneInv, Beside, UNCHANGED <<logs, uncertain>>
    PROVE  LogAgrees'
<1>1. \A p \in Place : pier'[p] = "none" => pier[p] = "none"
  BY PierOnce
<1> QED
  BY <1>1 DEF PruneInv, LogAgrees, logs

\* The parts of the invariant that are about one place.
TaskAt(p) ==
    /\ task[p] \in {"inspect", "roll", "prune"} => ~uncertain[p]
    /\ task[p] \in {"rolling", "rolled", "deleting"} => uncertain[p]
    /\ task[p] \in {"rolling", "rolled"} => \A e \in Epoch : log[p][e] # "torn"
    /\ task[p] \in {"prune", "deleting"} => intent[p] # None

LogAt(p) == \A e \in Epoch : log[p][e] = "torn" => uncertain[p]

DeletionAt(p) ==
    LET r == prefix[p] IN
    /\ r \in [before : Log, cutoff : Epoch]
    /\ intent[p].cutoff = r.cutoff /\ intent[p].inventory.log = r.before
    /\ intent[p].inventory.version = content[p]
    /\ PrunePlan(r.before, r.cutoff)
    /\ \A e \in Epoch :
          /\ r.before[e] # "torn"
          /\ e \notin Targets(p) =>
                \/ log[p][e] = r.before[e]
                \/ r.before[e] = "whole" /\ log[p][e] = "touched"
          /\ e \in Targets(p) /\ log[p][e] \in {"torn", "absent"} =>
                \A d \in Targets(p) : d < e => log[p][d] = "absent"

\* A step of maintenance at one stopped ship.
LEMMA LocalInv ==
    ASSUME IInv, PruneInv, PruneTypeOK', UNCHANGED <<vars, parcel>>,
           NEW p \in Place, Resting(p),
           \A q \in Place : q # p =>
               /\ log'[q] = log[q] /\ intent'[q] = intent[q]
               /\ prefix'[q] = prefix[q] /\ uncertain'[q] = uncertain[q]
               /\ task'[q] = task[q],
           TaskAt(p)', LogAt(p)', task'[p] = "deleting" => DeletionAt(p)'
    PROVE  PruneInv'
<1> USE DEF PruneInv
<1>0. UNCHANGED <<dir, state, op, running, pier, content>>
  BY DEF vars, record, files
<1>1. AtRest'
  <2> SUFFICES ASSUME NEW q \in Place, task'[q] # "none" \/ uncertain'[q]
               PROVE  Resting(q)'
    BY DEF AtRest, Resting
  <2>1. Resting(q)
    BY DEF AtRest, Resting
  <2> QED
    BY <1>0, <2>1 DEF Resting, Startable, Fenced
<1>2. TaskAgrees'
  BY DEF TaskAgrees, TaskAt
<1>3. LogAgrees'
  <2>1. pier[p] = "mounted"
    BY RestingPier DEF Resting
  <2> QED
    BY <1>0, <2>1 DEF LogAgrees, LogAt
<1>4. DeletionAgrees'
  <2> SUFFICES ASSUME NEW q \in Place, task'[q] = "deleting"
               PROVE  DeletionAt(q)'
    BY DEF DeletionAgrees, DeletionAt
  <2>1. CASE q = p
    BY <2>1
  <2>2. CASE q # p
    <3>1. DeletionAt(q)
      BY <2>2 DEF DeletionAgrees, DeletionAt
    <3>2. /\ log'[q] = log[q] /\ intent'[q] = intent[q]
          /\ prefix'[q] = prefix[q] /\ content'[q] = content[q]
      BY <1>0, <2>2
    <3>3. Targets(q)' = Targets(q)
      BY <3>2 DEF Targets
    <3> QED
      BY <3>1, <3>2, <3>3 DEF DeletionAt
  <2> QED
    BY <2>1, <2>2
<1> QED
  BY <1>1, <1>2, <1>3, <1>4

-----------------------------------------------------------------------------
(* Maintenance that ends, or that leaves pier and records alone *)

\* Failures are counted.
LEMMA SlipType ==
    ASSUME PruneTypeOK, Slip \/ UNCHANGED slips
    PROVE  slips' \in 0 .. MaxSlips
BY SlipsAssumption DEF PruneTypeOK, Slip

LEMMA EndsInv ==
    ASSUME IInv, PruneInv, NEW p \in Place,
           InspectPier(p) \/ PruneRefused(p) \/ PruneStopped(p) \/ FailTask(p)
    PROVE  PruneInv'
<1> USE DEF PruneInv
<1>1. /\ UNCHANGED <<vars, logs, intent, prefix, uncertain, rolled>>
      /\ Slip \/ UNCHANGED slips
      /\ EndTask(p, None) \/ EndTask(p, Scan(p))
  BY DEF InspectPier, PruneRefused, PruneStopped, FailTask
<1>2. Beside
  BY <1>1 DEF Beside
<1>3. PruneTypeOK'
  <2>1. inventory' \in [Place -> Inventory \cup {None}]
    BY <1>1, ScanType DEF EndTask, PruneTypeOK
  <2>2. slips' \in 0 .. MaxSlips
    BY <1>1, SlipType
  <2> QED
    BY <1>1, <2>1, <2>2 DEF EndTask, PruneTypeOK, logs
<1>4. LogAgrees'
  BY <1>1, <1>2, SameLogs
<1>5. \A q \in Place : task'[q] \in {task[q], "none"}
  BY <1>1 DEF EndTask, PruneTypeOK
<1>6. UNCHANGED <<log, intent, prefix, uncertain>>
  BY <1>1 DEF logs
<1> QED
  BY <1>2, <1>3, <1>4, <1>5, <1>6, FrameInv

LEMMA StopAgainInv ==
    ASSUME IInv, PruneInv, NEW p \in Place, StopAgain(p)
    PROVE  PruneInv'
<1> USE DEF PruneInv, StopAgain
<1>1. Beside
  BY DEF Beside
<1>2. PruneTypeOK'
  BY DEF PruneTypeOK, logs
<1>3. LogAgrees'
  BY <1>1, SameLogs
<1>4. \A q \in Place : task'[q] # "none" =>
          intent'[q] = intent[q] /\ log'[q] = log[q]
  BY DEF PruneTypeOK, logs
<1> QED
  BY <1>1, <1>2, <1>3, <1>4, FrameInv

\* Maintenance is accepted where nothing is torn.
LEMMA AcceptInv ==
    ASSUME IInv, PruneInv, NEW p \in Place,
           NEW kind \in {"inspect", "roll", "prune"},
           NEW confirmed \in Intent \cup {None},
           kind = "prune" => confirmed # None, Accept(p, kind, confirmed)
    PROVE  PruneInv'
<1> USE DEF PruneInv, Accept
<1>1. PruneTypeOK'
  BY DEF PruneTypeOK, logs
<1>2. Resting(p)
  BY DEF Resting
<1>3. TaskAt(p)' /\ LogAt(p)' /\ task'[p] # "deleting"
  BY DEF PruneTypeOK, Quiet, TaskAt, LogAt, LogAgrees, logs
<1> HIDE DEF PruneInv
<1>4. \A q \in Place : q # p =>
          /\ log'[q] = log[q] /\ intent'[q] = intent[q]
          /\ prefix'[q] = prefix[q] /\ uncertain'[q] = uncertain[q]
          /\ task'[q] = task[q]
  BY DEF PruneInv, PruneTypeOK, logs
<1>5. UNCHANGED <<vars, parcel>>
  BY DEF logs
<1> QED
  BY <1>1, <1>2, <1>3, <1>4, <1>5, LocalInv

LEMMA AcceptPruneInv ==
    ASSUME IInv, PruneInv, NEW p \in Place, NEW e \in Epoch, AcceptPrune(p, e)
    PROVE  PruneInv'
<1> DEFINE confirmed == [cutoff |-> e, inventory |-> inventory[p]]
<1>1. confirmed \in Intent
  BY DEF AcceptPrune, PruneInv, PruneTypeOK, Intent
<1>2. confirmed # None
  BY <1>1, NoneAssumption
<1>3. Accept(p, "prune", confirmed)
  BY DEF AcceptPrune
<1> QED
  BY <1>1, <1>2, <1>3, AcceptInv

-----------------------------------------------------------------------------
(* Rolls *)

\* Maintenance is at a stopped ship.
LEMMA TaskRests ==
    ASSUME PruneInv, NEW p \in Place, task[p] # "none"
    PROVE  Resting(p) /\ TaskAt(p) /\ LogAt(p)
           /\ (task[p] = "deleting" => DeletionAt(p))
BY DEF PruneInv, AtRest, Resting, TaskAgrees, TaskAt, LogAgrees, LogAt,
   DeletionAgrees, DeletionAt

LEMMA RollBeginInv ==
    ASSUME IInv, PruneInv, NEW p \in Place, RollBegin(p)
    PROVE  PruneInv'
<1> USE DEF RollBegin
<1>1. PruneTypeOK'
  BY DEF PruneInv, PruneTypeOK, logs
<1>2. Resting(p) /\ TaskAt(p) /\ LogAt(p)
  BY TaskRests
<1>3. TaskAt(p)' /\ LogAt(p)' /\ task'[p] # "deleting"
  BY <1>2 DEF PruneInv, PruneTypeOK, TaskAt, LogAt, logs
<1>4. \A q \in Place : q # p =>
          /\ log'[q] = log[q] /\ intent'[q] = intent[q]
          /\ prefix'[q] = prefix[q] /\ uncertain'[q] = uncertain[q]
          /\ task'[q] = task[q]
  BY DEF PruneInv, PruneTypeOK, logs
<1>5. UNCHANGED <<vars, parcel>>
  BY DEF logs
<1> QED
  BY <1>1, <1>2, <1>3, <1>4, <1>5, LocalInv

LEMMA RollEpochInv ==
    ASSUME IInv, PruneInv, NEW p \in Place, NEW e \in Epoch, RollEpoch(p, e)
    PROVE  PruneInv'
<1> USE DEF RollEpoch
<1>1. PruneTypeOK'
  BY DEF PruneInv, PruneTypeOK, Log
<1>2. Resting(p) /\ TaskAt(p)
  BY TaskRests
<1>3. TaskAt(p)' /\ LogAt(p)' /\ task'[p] # "deleting"
  BY <1>2 DEF PruneInv, PruneTypeOK, Log, TaskAt, LogAt
<1>4. \A q \in Place : q # p =>
          /\ log'[q] = log[q] /\ intent'[q] = intent[q]
          /\ prefix'[q] = prefix[q] /\ uncertain'[q] = uncertain[q]
          /\ task'[q] = task[q]
  BY DEF PruneInv, PruneTypeOK
<1> QED
  BY <1>1, <1>2, <1>3, <1>4, LocalInv

LEMMA RollEndInv ==
    ASSUME IInv, PruneInv, NEW p \in Place, RollEnd(p)
    PROVE  PruneInv'
<1> USE DEF RollEnd, EndTask
<1>1. PruneTypeOK'
  <2>1. inventory' \in [Place -> Inventory \cup {None}]
    BY ScanType DEF PruneInv, PruneTypeOK
  <2>2. slips' \in 0 .. MaxSlips
    BY SlipType DEF PruneInv
  <2>3. uncertain' \in [Place -> BOOLEAN] /\ rolled' \in [Place -> BOOLEAN]
    BY DEF PruneInv, PruneTypeOK
  <2> QED
    BY <2>1, <2>2, <2>3 DEF PruneInv, PruneTypeOK, logs
<1>2. Resting(p) /\ TaskAt(p)
  BY TaskRests
<1>3. TaskAt(p)' /\ LogAt(p)' /\ task'[p] # "deleting"
  BY <1>2 DEF PruneInv, PruneTypeOK, TaskAt, LogAt, logs
<1>4. \A q \in Place : q # p =>
          /\ log'[q] = log[q] /\ intent'[q] = intent[q]
          /\ prefix'[q] = prefix[q] /\ uncertain'[q] = uncertain[q]
          /\ task'[q] = task[q]
  BY DEF PruneInv, PruneTypeOK, logs
<1>5. UNCHANGED <<vars, parcel>>
  BY DEF logs
<1> QED
  BY <1>1, <1>2, <1>3, <1>4, <1>5, LocalInv

-----------------------------------------------------------------------------
(* Deletions *)

LEMMA PruneBeginInv ==
    ASSUME IInv, PruneInv, NEW p \in Place, PruneBegin(p)
    PROVE  PruneInv'
<1> USE DEF PruneBegin
<1> DEFINE r == [before |-> log[p], cutoff |-> intent[p].cutoff]
<1>1. Resting(p) /\ TaskAt(p) /\ LogAt(p)
  BY TaskRests
<1>2. intent[p] \in Intent
  BY <1>1 DEF TaskAt, PruneInv, PruneTypeOK
<1>3. r \in [before : Log, cutoff : Epoch]
  BY <1>2 DEF Intent, PruneInv, PruneTypeOK
<1>4. PruneTypeOK'
  <2>1. prefix' \in [Place -> [before : Log, cutoff : Epoch] \cup {None}]
    BY <1>3 DEF PruneInv, PruneTypeOK
  <2> QED
    BY <2>1 DEF PruneInv, PruneTypeOK, logs
<1>5. /\ prefix'[p] = r /\ uncertain'[p] /\ task'[p] = "deleting"
      /\ log'[p] = log[p] /\ intent'[p] = intent[p] /\ content'[p] = content[p]
  BY DEF PruneInv, PruneTypeOK, logs, vars, files
<1>6. TaskAt(p)' /\ LogAt(p)'
  BY <1>1, <1>5 DEF TaskAt, LogAt
<1>7. DeletionAt(p)'
  <2>1. intent[p].inventory = Scan(p) /\ PrunePlan(log[p], intent[p].cutoff)
    BY DEF PruneBegin
  <2>2. \A e \in Epoch : log[p][e] # "torn"
    BY <1>1 DEF LogAt, TaskAt
  <2>3. \A e \in Targets(p)' : log'[p][e] # "absent"
    BY <1>5 DEF Targets, Selected, Present
  <2> QED
    BY <1>3, <1>5, <2>1, <2>2, <2>3 DEF DeletionAt, Scan
<1>8. \A q \in Place : q # p =>
          /\ log'[q] = log[q] /\ intent'[q] = intent[q]
          /\ prefix'[q] = prefix[q] /\ uncertain'[q] = uncertain[q]
          /\ task'[q] = task[q]
  BY DEF PruneInv, PruneTypeOK, logs
<1>9. UNCHANGED <<vars, parcel>>
  BY DEF logs
<1> QED
  BY <1>1, <1>4, <1>6, <1>7, <1>8, <1>9, LocalInv

\* A worker takes a file of its target, or the last one and the directory.
LEMMA DeleteInv ==
    ASSUME IInv, PruneInv, NEW p \in Place, NEW e \in Epoch,
           Unlink(p, e) \/ RemoveEpoch(p, e)
    PROVE  PruneInv'
<1>1. /\ Target(p, e) /\ UNCHANGED <<vars, parcel, prunes, slips>>
      /\ log' = [log EXCEPT ![p][e] = "torn"]
         \/ log' = [log EXCEPT ![p][e] = "absent"]
  BY DEF Unlink, RemoveEpoch
<1>2. PruneTypeOK'
  <2>1. PICK x \in {"torn", "absent"} : log' = [log EXCEPT ![p][e] = x]
    BY <1>1
  <2>2. [log[p] EXCEPT ![e] = x] \in Log
    BY DEF PruneInv, PruneTypeOK, Log
  <2>3. log' \in [Place -> Log]
    BY <2>1, <2>2 DEF PruneInv, PruneTypeOK
  <2> QED
    BY <1>1, <2>3 DEF PruneInv, PruneTypeOK, prunes
<1>3. task[p] = "deleting"
  BY <1>1 DEF Target
<1>4. Resting(p) /\ TaskAt(p) /\ DeletionAt(p)
  BY <1>3, TaskRests
<1>5. /\ prefix'[p] = prefix[p] /\ intent'[p] = intent[p]
      /\ content'[p] = content[p] /\ uncertain'[p] = uncertain[p]
      /\ task'[p] = task[p]
  BY <1>1 DEF prunes, vars, files
<1>6. /\ log'[p][e] \in {"torn", "absent"}
      /\ \A d \in Epoch : d # e => log'[p][d] = log[p][d]
  BY <1>1 DEF PruneInv, PruneTypeOK, Log
<1>7. TaskAt(p)' /\ LogAt(p)'
  BY <1>3, <1>4, <1>5 DEF TaskAt, LogAt
<1>8. DeletionAt(p)'
  <2>1. Targets(p)' = Targets(p) /\ Targets(p) \subseteq Epoch
    BY <1>5 DEF Targets, Selected, Present
  <2>2. e \in Targets(p) /\ log[p][e] # "absent"
        /\ \A d \in Targets(p) : d < e => log[p][d] = "absent"
    BY <1>1, <2>1, EpochAssumption DEF Target, Newer
  <2>3. ASSUME NEW f \in Targets(p), log'[p][f] \in {"torn", "absent"},
               NEW d \in Targets(p), d < f
        PROVE  log'[p][d] = "absent"
    <3>1. CASE f = e
      <4>1. d # e
        BY <2>1, <2>3, <3>1, EpochAssumption
      <4> QED
        BY <1>6, <2>1, <2>2, <2>3, <3>1, <4>1
    <3>2. CASE f # e
      <4>1. log[p][f] \in {"torn", "absent"}
        BY <1>6, <2>1, <2>3, <3>2
      <4>2. log[p][d] = "absent"
        BY <1>4, <2>1, <2>3, <4>1 DEF DeletionAt
      <4> QED
        BY <1>6, <2>1, <2>2, <4>2
    <3> QED
      BY <3>1, <3>2
  <2>4. \A f \in Epoch : f \notin Targets(p) => log'[p][f] = log[p][f]
    BY <1>6, <2>2
  <2> QED
    BY <1>4, <1>5, <2>1, <2>3, <2>4 DEF DeletionAt
<1>9. \A q \in Place : q # p =>
          /\ log'[q] = log[q] /\ intent'[q] = intent[q]
          /\ prefix'[q] = prefix[q] /\ uncertain'[q] = uncertain[q]
          /\ task'[q] = task[q]
  BY <1>1 DEF PruneInv, PruneTypeOK, prunes
<1> QED
  BY <1>1, <1>2, <1>4, <1>7, <1>8, <1>9, LocalInv

\* Somebody else is never at a file that is gone.
LEMMA TouchInv ==
    ASSUME IInv, PruneInv, NEW p \in Place, NEW e \in Epoch, Touch(p, e)
    PROVE  PruneInv'
<1>1. /\ task[p] # "none" /\ UNCHANGED <<vars, parcel, prunes>>
      /\ log[p][e] = "whole" /\ Slip
      /\ log' = [log EXCEPT ![p][e] = "touched"]
  BY DEF Touch
<1>2. PruneTypeOK'
  <2>1. log' \in [Place -> Log]
    BY <1>1 DEF PruneInv, PruneTypeOK, Log
  <2>2. slips' \in 0 .. MaxSlips
    BY <1>1, SlipType DEF PruneInv
  <2> QED
    BY <1>1, <2>1, <2>2 DEF PruneInv, PruneTypeOK, prunes
<1>3. Resting(p) /\ TaskAt(p) /\ LogAt(p)
      /\ (task[p] = "deleting" => DeletionAt(p))
  BY <1>1, TaskRests
<1>4. /\ prefix'[p] = prefix[p] /\ intent'[p] = intent[p]
      /\ content'[p] = content[p] /\ uncertain'[p] = uncertain[p]
      /\ task'[p] = task[p]
  BY <1>1 DEF prunes, vars, files
<1>5. /\ log'[p][e] = "touched"
      /\ \A d \in Epoch : d # e => log'[p][d] = log[p][d]
  BY <1>1 DEF PruneInv, PruneTypeOK, Log
<1>6. TaskAt(p)' /\ LogAt(p)'
  BY <1>3, <1>4, <1>5 DEF TaskAt, LogAt
<1>7. ASSUME task'[p] = "deleting" PROVE DeletionAt(p)'
  <2>1. Targets(p)' = Targets(p) /\ Targets(p) \subseteq Epoch
    BY <1>4 DEF Targets, Selected, Present
  <2>2. DeletionAt(p)
    BY <1>3, <1>4, <1>7
  <2>3. ASSUME NEW f \in Targets(p), log'[p][f] \in {"torn", "absent"},
               NEW d \in Targets(p), d < f
        PROVE  log'[p][d] = "absent"
    <3>1. log[p][f] \in {"torn", "absent"}
      BY <1>5, <2>1, <2>3
    <3>2. log[p][d] = "absent"
      BY <2>1, <2>2, <2>3, <3>1 DEF DeletionAt
    <3> QED
      BY <1>1, <1>5, <2>1, <3>2
  <2>4. \A f \in Epoch : f \notin Targets(p) =>
            \/ log'[p][f] = prefix[p].before[f]
            \/ prefix[p].before[f] = "whole" /\ log'[p][f] = "touched"
    BY <1>1, <1>5, <2>2 DEF DeletionAt
  <2> QED
    BY <1>4, <2>1, <2>2, <2>3, <2>4 DEF DeletionAt
<1>8. \A q \in Place : q # p =>
          /\ log'[q] = log[q] /\ intent'[q] = intent[q]
          /\ prefix'[q] = prefix[q] /\ uncertain'[q] = uncertain[q]
          /\ task'[q] = task[q]
  BY <1>1 DEF PruneInv, PruneTypeOK, prunes
<1> QED
  BY <1>1, <1>2, <1>3, <1>6, <1>7, <1>8, LocalInv

LEMMA PruneEndInv ==
    ASSUME IInv, PruneInv, NEW p \in Place, PruneEnd(p)
    PROVE  PruneInv'
<1> USE DEF PruneEnd, EndTask
<1>1. PruneTypeOK'
  <2>1. inventory' \in [Place -> Inventory \cup {None}]
    BY ScanType DEF PruneInv, PruneTypeOK
  <2>2. slips' \in 0 .. MaxSlips
    BY SlipType DEF PruneInv
  <2>3. uncertain' \in [Place -> BOOLEAN]
        /\ intent' \in [Place -> Intent \cup {None}]
    BY DEF PruneInv, PruneTypeOK
  <2> QED
    BY <2>1, <2>2, <2>3 DEF PruneInv, PruneTypeOK, logs
<1>2. Resting(p) /\ DeletionAt(p)
  BY TaskRests
<1>3. \A e \in Epoch : log[p][e] # "torn"
  BY <1>2 DEF DeletionAt
<1>4. TaskAt(p)' /\ LogAt(p)' /\ task'[p] # "deleting"
  BY <1>3 DEF PruneInv, PruneTypeOK, TaskAt, LogAt, logs
<1>5. \A q \in Place : q # p =>
          /\ log'[q] = log[q] /\ intent'[q] = intent[q]
          /\ prefix'[q] = prefix[q] /\ uncertain'[q] = uncertain[q]
          /\ task'[q] = task[q]
  BY DEF PruneInv, PruneTypeOK, logs
<1>6. UNCHANGED <<vars, parcel>>
  BY DEF logs
<1> QED
  BY <1>1, <1>2, <1>4, <1>5, <1>6, LocalInv

-----------------------------------------------------------------------------
(* The handoff, and crashes *)

LEMMA KeepsInv ==
    ASSUME IInv, PruneInv, Beside, UNCHANGED <<prunes, logs, slips>>
    PROVE  PruneInv'
<1>1. PruneTypeOK'
  BY DEF PruneInv, PruneTypeOK, prunes, logs
<1>2. UNCHANGED <<log, intent, prefix, uncertain, task>>
  BY DEF prunes, logs
<1>3. LogAgrees'
  BY <1>2, SameLogs DEF logs
<1> QED
  BY <1>1, <1>2, <1>3, FrameInv

LEMMA StartShipInv ==
    ASSUME IInv, PruneInv, Beside, NEW p \in Place, StartShip(p)
    PROVE  PruneInv'
<1> USE DEF StartShip
<1>1. PruneTypeOK'
  BY DEF PruneInv, PruneTypeOK, logs
<1>2. LogAgrees'
  BY SameLogs
<1>3. \A q \in Place : task'[q] # "none" =>
          intent'[q] = intent[q] /\ log'[q] = log[q]
  BY DEF Quiet, PruneInv, PruneTypeOK, logs
<1> QED
  BY <1>1, <1>2, <1>3, FrameInv

LEMMA ReserveInv ==
    ASSUME IInv, PruneInv, Beside, NEW c \in Coordinator, Reserve(c)
    PROVE  PruneInv'
<1> USE DEF Reserve
<1>1. PruneTypeOK'
  <2>1. job[c].from \in Place
    BY DEF IInv, TypeOK, Job
  <2>2. rolled' \in [Place -> BOOLEAN]
    BY <2>1 DEF PruneInv, PruneTypeOK
  <2> QED
    BY <2>2 DEF PruneInv, PruneTypeOK, logs
<1>2. LogAgrees'
  BY SameLogs
<1>3. UNCHANGED log
  BY DEF logs
<1> QED
  BY <1>1, <1>2, <1>3, FrameInv

\* An archive is made of a pier without maintenance.
LEMMA ExportLogInv ==
    ASSUME IInv, PruneInv, Beside, NEW p \in Place, ExportLog(p)
    PROVE  PruneInv'
<1> USE DEF ExportLog
<1>1. op[p] = "prepare" /\ UNCHANGED pier
  BY DEF Export, files
<1>2. \A e \in Epoch : log[p][e] # "torn"
  BY <1>1 DEF PruneInv, LogAgrees, AtRest
<1>3. PruneTypeOK'
  <2>1. parcel' \in [Transfer -> Log]
    BY DEF PruneInv, PruneTypeOK
  <2> QED
    BY <2>1 DEF PruneInv, PruneTypeOK, prunes
<1>4. UNCHANGED <<intent, prefix, uncertain, task>>
  BY DEF prunes
<1>5. LogAgrees'
  BY <1>1, <1>2, <1>4 DEF PruneInv, PruneTypeOK, LogAgrees
<1> QED
  BY <1>3, <1>4, <1>5, FrameInv

\* It is unpacked where no maintenance can be.
LEMMA StageLogInv ==
    ASSUME IInv, PruneInv, Beside, NEW p \in Place, StageLog(p)
    PROVE  PruneInv'
<1> USE DEF StageLog
<1>1. op[p] = "receive" /\ pier' = [pier EXCEPT ![p] = "staged"]
  BY DEF Stage
<1>2. id[p] \in Transfer
  BY <1>1 DEF IInv, TypeOK, OpAgrees, HalvesAgree
<1>3. task[p] = "none"
  BY <1>1 DEF PruneInv, AtRest
<1>4. PruneTypeOK'
  <2>1. log' \in [Place -> Log]
    BY <1>2 DEF PruneInv, PruneTypeOK
  <2> QED
    BY <2>1 DEF PruneInv, PruneTypeOK, prunes
<1>5. UNCHANGED <<intent, prefix, uncertain, task>>
  BY DEF prunes
<1>6. LogAgrees'
  <2>1. \A e \in Epoch : log'[p][e] # "torn"
    BY <1>2 DEF PruneInv, PruneTypeOK, LogAgrees
  <2>2. pier'[p] = "staged"
    BY <1>1 DEF IInv, TypeOK
  <2>3. \A q \in Place : q # p => log'[q] = log[q] /\ pier'[q] = pier[q]
    BY <1>1 DEF IInv, TypeOK, PruneInv, PruneTypeOK
  <2> QED
    BY <1>5, <2>1, <2>2, <2>3 DEF PruneInv, LogAgrees
<1>7. \A q \in Place : task'[q] # "none" =>
          intent'[q] = intent[q] /\ log'[q] = log[q]
  BY <1>3, <1>5 DEF PruneInv, PruneTypeOK
<1> QED
  BY <1>4, <1>5, <1>6, <1>7, FrameInv

LEMMA ReceiveLogInv ==
    ASSUME IInv, PruneInv, Beside, NEW p \in Place, ReceiveLog(p)
    PROVE  PruneInv'
<1> USE DEF ReceiveLog
<1>1. PruneTypeOK'
  <2>1. inventory' \in [Place -> Inventory \cup {None}]
    BY ScanType DEF PruneInv, PruneTypeOK
  <2> QED
    BY <2>1 DEF PruneInv, PruneTypeOK, logs
<1>2. LogAgrees'
  BY SameLogs
<1>3. UNCHANGED log
  BY DEF logs
<1> QED
  BY <1>1, <1>2, <1>3, FrameInv

LEMMA CrashRunnerInv ==
    ASSUME IInv, PruneInv, Beside, NEW n \in Runner, CrashRunner(n)
    PROVE  PruneInv'
<1>1. EndTasks(n) /\ (Slip \/ UNCHANGED slips)
  BY DEF CrashRunner
<1>2. \A q \in Place : task'[q] \in {task[q], "none"}
  BY <1>1 DEF EndTasks
<1>3. PruneTypeOK'
  <2>1. slips' \in 0 .. MaxSlips
    BY <1>1, SlipType DEF PruneInv
  <2> QED
    BY <1>1, <2>1 DEF EndTasks, PruneInv, PruneTypeOK, logs
<1>4. UNCHANGED <<logs, intent, prefix, uncertain>>
  BY <1>1 DEF EndTasks
<1>5. LogAgrees'
  BY <1>4, SameLogs
<1> QED
  BY <1>2, <1>3, <1>4, <1>5, FrameInv DEF logs

LEMMA InductivePrune == IInv /\ PruneInv /\ [PruneNext]_allVars => PruneInv'
<1> SUFFICES ASSUME IInv, PruneInv, [PruneNext]_allVars PROVE PruneInv'
  OBVIOUS
<1>0. Beside
  BY StepBeside
<1>1. CASE UNCHANGED allVars
  <2>1. UNCHANGED <<prunes, logs, slips>>
    BY <1>1 DEF allVars
  <2> QED
    BY <1>0, <2>1, KeepsInv
<1>2. ASSUME NEW p \in Place, AcceptInspect(p) \/ AcceptRoll(p)
      PROVE  PruneInv'
  BY <1>2, AcceptInv DEF AcceptInspect, AcceptRoll
<1>3. ASSUME NEW p \in Place, StopAgain(p) \/ FailTask(p) PROVE PruneInv'
  BY <1>3, StopAgainInv, EndsInv
<1>4. ASSUME NEW p \in Place, Maintain(p) PROVE PruneInv'
  BY <1>4, EndsInv, RollBeginInv, RollEpochInv, RollEndInv, PruneBeginInv,
     DeleteInv, PruneEndInv DEF Maintain
<1>5. ASSUME NEW p \in Place, NEW e \in Epoch, AcceptPrune(p, e) \/ Touch(p, e)
      PROVE  PruneInv'
  BY <1>5, AcceptPruneInv, TouchInv
<1>6. ASSUME NEW p \in Place, StartShip(p) \/ WorkStep(p) PROVE PruneInv'
  <2>1. CASE OtherWork(p)
    BY <1>0, <2>1, KeepsInv DEF OtherWork
  <2> QED
    BY <1>0, <1>6, <2>1, StartShipInv, ExportLogInv, StageLogInv, ReceiveLogInv
       DEF WorkStep
<1>7. ASSUME NEW c \in Coordinator, CallStep(c) PROVE PruneInv'
  <2>1. CASE Reserve(c)
    BY <1>0, <2>1, ReserveInv
  <2>2. CASE OtherCall(c) \/ \E t \in Transfer : PrepareQuiet(c, t)
    BY <1>0, <2>2, KeepsInv DEF OtherCall, PrepareQuiet
  <2> QED
    BY <1>7, <2>1, <2>2 DEF CallStep
<1>8. ASSUME NEW n \in Runner, CrashRunner(n) PROVE PruneInv'
  BY <1>0, <1>8, CrashRunnerInv
<1>9. CASE Rest
  BY <1>0, <1>9, KeepsInv DEF Rest
<1> QED
  BY <1>1, <1>2, <1>3, <1>4, <1>5, <1>6, <1>7, <1>8, <1>9 DEF PruneNext

\* Maintenance and the handoff leave each other's records consistent in every
\* reachable state.
THEOREM PruneInvariance == PruneSpec => [](IInv /\ PruneInv)
<1>1. PruneSpec => []IInv
  BY MovesBeside, Invariance, PTL
<1>2. PruneInit => PruneInv
  BY InitPruneInv
<1>3. IInv /\ PruneInv /\ [PruneNext]_allVars => PruneInv'
  BY InductivePrune
<1> QED
  BY <1>1, <1>2, <1>3, PTL DEF PruneSpec

-----------------------------------------------------------------------------
(* What the owner is promised *)

\* A deletion that stopped half way is fenced where it is: the pier is not
\* started, exported, moved or pruned again by the code of acceptStored and
\* PrepareHandoff, whatever crashed.
THEOREM TornFenced == PruneSpec => []TornStays
<1>1. IInv /\ PruneInv => TornStays
  BY DEF PruneInv, LogAgrees, AtRest, TornStays, Torn
<1> QED
  BY <1>1, PruneInvariance, PTL

\* Only a worker that deletes takes files away.
LEMMA LosingSteps ==
    ASSUME IInv, PruneInv, [PruneNext]_allVars, NEW p \in Place,
           NEW e \in Losing(p)
    PROVE  Unlink(p, e) \/ RemoveEpoch(p, e)
<1> USE DEF PruneInv, PruneTypeOK
<1>0. /\ e \in Epoch /\ log'[p][e] # log[p][e]
      /\ log'[p][e] \in {"torn", "absent"}
  BY DEF Losing
<1>1. CASE UNCHANGED log
  BY <1>0, <1>1
<1>2. ASSUME NEW q \in Place,
             AcceptInspect(q) \/ AcceptRoll(q) \/ StopAgain(q) \/ FailTask(q)
             \/ StartShip(q) \/ \E f \in Epoch : AcceptPrune(q, f)
      PROVE  UNCHANGED log
  BY <1>2 DEF AcceptInspect, AcceptRoll, StopAgain, FailTask, StartShip,
     AcceptPrune, Accept, logs
<1>3. ASSUME NEW q \in Place, NEW f \in Epoch, Touch(q, f) \/ RollEpoch(q, f)
      PROVE  FALSE
  <2>1. log' = [log EXCEPT ![q][f] = "touched"]
        \/ log' = [log EXCEPT ![q][f] = "whole"]
    BY <1>3 DEF Touch, RollEpoch
  <2> QED
    BY <1>0, <2>1 DEF Log
<1>4. ASSUME NEW q \in Place, NEW f \in Epoch, Unlink(q, f) \/ RemoveEpoch(q, f)
      PROVE  Unlink(p, e) \/ RemoveEpoch(p, e)
  <2>1. log' = [log EXCEPT ![q][f] = "torn"]
        \/ log' = [log EXCEPT ![q][f] = "absent"]
    BY <1>4 DEF Unlink, RemoveEpoch
  <2>2. q = p /\ f = e
    BY <1>0, <2>1 DEF Log
  <2> QED
    BY <1>4, <2>2
<1>5. ASSUME NEW q \in Place, Maintain(q)
      PROVE  UNCHANGED log \/ Unlink(p, e) \/ RemoveEpoch(p, e)
  BY <1>3, <1>4, <1>5 DEF Maintain, InspectPier, RollBegin, RollEnd, PruneBegin,
     PruneRefused, PruneStopped, PruneEnd, logs
<1>6. ASSUME NEW q \in Place, WorkStep(q) PROVE UNCHANGED log
  <2>1. CASE StageLog(q)
    <3>1. op[q] = "receive" /\ pier[q] = "none"
          /\ log' = [log EXCEPT ![q] = parcel[id[q]]]
      BY <2>1 DEF StageLog, Stage
    <3>2. id[q] \in Transfer
      BY <3>1 DEF IInv, TypeOK, OpAgrees, HalvesAgree
    <3>3. log[p][e] = "absent" \/ q # p
      BY <1>0, <3>1 DEF LogAgrees
    <3>4. parcel[id[q]][e] # "torn"
      BY <1>0, <3>2 DEF LogAgrees
    <3> QED
      BY <1>0, <3>1, <3>3, <3>4
  <2>2. CASE ExportLog(q) \/ ReceiveLog(q) \/ OtherWork(q)
    BY <2>2 DEF ExportLog, ReceiveLog, OtherWork, logs
  <2> QED
    BY <1>6, <2>1, <2>2 DEF WorkStep
<1>7. ASSUME NEW c \in Coordinator, CallStep(c) PROVE UNCHANGED log
  BY <1>7 DEF CallStep, PrepareQuiet, Reserve, OtherCall, logs
<1>8. ASSUME NEW n \in Runner, CrashRunner(n) PROVE UNCHANGED log
  BY <1>8 DEF CrashRunner, EndTasks, logs
<1>9. ASSUME Rest \/ UNCHANGED allVars PROVE UNCHANGED log
  BY <1>9 DEF Rest, allVars, logs
<1> QED
  BY <1>1, <1>2, <1>3, <1>5, <1>6, <1>7, <1>8, <1>9 DEF PruneNext

\* What a deletion retains.
LEMMA LosingKeeps ==
    ASSUME IInv, PruneInv, [PruneNext]_allVars, NEW p \in Place,
           NEW e \in Losing(p)
    PROVE  /\ task[p] = "deleting" /\ DeletionAt(p) /\ e \in Targets(p)
           /\ e <= prefix[p].cutoff
           /\ log[p][e] \in {prefix[p].before[e], "torn"}
           /\ \A d \in Targets(p) : d < e => log[p][d] = "absent"
           /\ \A n \in Epoch : n # e => log'[p][n] = log[p][n]
<1>1. Unlink(p, e) \/ RemoveEpoch(p, e)
  BY LosingSteps
<1>2. Target(p, e)
  BY <1>1 DEF Unlink, RemoveEpoch
<1>3. task[p] = "deleting" /\ DeletionAt(p)
  BY <1>2, TaskRests DEF Target
<1>4. Targets(p) \subseteq Epoch /\ prefix[p].cutoff \in Epoch /\ e \in Epoch
  BY <1>3 DEF Targets, Selected, Present, DeletionAt, Losing
<1>5. e \in Targets(p) /\ \A d \in Targets(p) : d < e => log[p][d] = "absent"
  BY <1>2, <1>4, EpochAssumption DEF Target, Newer
<1>6. e <= prefix[p].cutoff
  BY <1>4, <1>5, EpochAssumption DEF Targets, Selected, Newer
<1>7. log[p][e] \in {prefix[p].before[e], "torn"}
  BY <1>1 DEF Unlink, RemoveEpoch
<1>8. \A n \in Epoch : n # e => log'[p][n] = log[p][n]
  BY <1>1 DEF Unlink, RemoveEpoch, PruneInv, PruneTypeOK, Log
<1> QED
  BY <1>3, <1>5, <1>6, <1>7, <1>8

\* The plan protects two newer epochs, and no step of a deletion reaches them:
\* epochs.PrunePlan and the order of the unlinks leave Vere two complete epochs.
THEOREM TwoSurvive == PruneSpec => NewestSurvive
<1>1. ASSUME IInv, PruneInv, [PruneNext]_allVars, NEW p \in Place,
             NEW e \in Losing(p)
      PROVE  Cardinality({n \in Epoch : n > e /\
                              log'[p][n] \in {"whole", "touched"}}) >= 2
  <2> DEFINE r == prefix[p]
             Spared == {n \in Present(r.before) : Newer(n, r.cutoff)}
             Complete == {n \in Epoch : n > e /\
                              log'[p][n] \in {"whole", "touched"}}
  <2>1. DeletionAt(p) /\ e \in Targets(p) /\ e <= r.cutoff
        /\ \A n \in Epoch : n # e => log'[p][n] = log[p][n]
    BY <1>1, LosingKeeps
  <2>2. r.cutoff \in Present(r.before) /\ r.before \in Log /\ e \in Epoch
        /\ r.cutoff \notin Protected(r.before)
    BY <1>1, <2>1 DEF DeletionAt, PrunePlan, Losing
  <2>3. ~ (Cardinality(Spared) < 2)
    BY <2>2 DEF Protected, ProtectedSuffix
  <2>4. Spared \subseteq Complete
    <3> SUFFICES ASSUME NEW n \in Spared PROVE n \in Complete
      OBVIOUS
    <3>1. n \in Epoch /\ n > r.cutoff /\ r.cutoff \in Epoch
          /\ r.before[n] # "absent"
      BY <2>2 DEF Present, Newer
    <3>2. n > e /\ n # e
      BY <2>1, <2>2, <3>1, EpochAssumption
    <3>3. n \notin Targets(p)
      BY DEF Targets, Selected
    <3>4. r.before[n] \in {"whole", "touched"}
      BY <2>1, <2>2, <3>1 DEF DeletionAt, Log
    <3>5. log[p][n] \in {"whole", "touched"}
      BY <2>1, <3>1, <3>3, <3>4 DEF DeletionAt
    <3> QED
      BY <2>1, <3>1, <3>2, <3>5
  <2>5. IsFiniteSet(Complete)
    BY EpochAssumption, FS_Subset
  <2>6. IsFiniteSet(Spared) /\ Cardinality(Spared) <= Cardinality(Complete)
    BY <2>4, <2>5, FS_Subset
  <2>7. Cardinality(Spared) \in Nat /\ Cardinality(Complete) \in Nat
    BY <2>5, <2>6, FS_CardinalityType
  <2> QED
    BY <2>3, <2>6, <2>7
<1>2. ASSUME IInv, PruneInv, [PruneNext]_allVars
      PROVE  [\A p \in Place : \A e \in Losing(p) :
                 Cardinality({n \in Epoch : n > e /\
                                 log'[p][n] \in {"whole", "touched"}}) >= 2]_allVars
  BY <1>1, <1>2
<1> QED
  BY <1>2, PruneInvariance, PTL DEF PruneSpec, NewestSurvive

\* The worker deletes what the owner confirmed and nothing else, from the
\* oldest epoch on: deletePrefix compares the pier with the confirmed inventory
\* before its first unlink and every file with the record before its own.
THEOREM OnlyConfirmed == PruneSpec => ConfirmedOnly
<1>1. ASSUME IInv, PruneInv, [PruneNext]_allVars, NEW p \in Place,
             NEW e \in Losing(p)
      PROVE  /\ intent[p] # None /\ e <= intent[p].cutoff
             /\ log[p][e] \in {intent[p].inventory.log[e], "torn"}
             /\ content[p] = intent[p].inventory.version
             /\ \A d \in Epoch : d < e => log[p][d] = "absent"
  <2>1. /\ task[p] = "deleting" /\ DeletionAt(p) /\ e \in Targets(p)
        /\ e <= prefix[p].cutoff /\ log[p][e] \in {prefix[p].before[e], "torn"}
        /\ \A d \in Targets(p) : d < e => log[p][d] = "absent"
    BY <1>1, LosingKeeps
  <2>2. intent[p] # None
    BY <1>1, <2>1, TaskRests DEF TaskAt
  <2>3. ASSUME NEW d \in Epoch, d < e PROVE log[p][d] = "absent"
    <3>1. CASE d \in Targets(p)
      BY <2>1, <2>3, <3>1
    <3>2. CASE d \notin Targets(p)
      <4>1. prefix[p].cutoff \in Epoch /\ e \in Epoch
        BY <1>1, <2>1 DEF DeletionAt, Losing
      <4>2. prefix[p].before[d] = "absent"
        BY <2>1, <2>3, <3>2, <4>1, EpochAssumption
           DEF Targets, Selected, Present, Newer
      <4> QED
        BY <2>1, <3>2, <4>2 DEF DeletionAt
    <3> QED
      BY <3>1, <3>2
  <2> QED
    BY <2>1, <2>2, <2>3 DEF DeletionAt
<1>2. ASSUME IInv, PruneInv, [PruneNext]_allVars
      PROVE  [\A p \in Place : \A e \in Losing(p) :
                 /\ intent[p] # None /\ e <= intent[p].cutoff
                 /\ log[p][e] \in {intent[p].inventory.log[e], "torn"}
                 /\ content[p] = intent[p].inventory.version
                 /\ \A d \in Epoch : d < e => log[p][d] = "absent"]_allVars
  BY <1>1, <1>2
<1> QED
  BY <1>2, PruneInvariance, PTL DEF PruneSpec, ConfirmedOnly

=============================================================================
