---------------------------- MODULE EpochPrune ----------------------------
(***************************************************************************)
(* Deleting superseded epochs of a ship's event log, on the piers that     *)
(* HostHandoff moves between hosts.  The owner confirms a cutoff against   *)
(* an inventory of a stopped pier; a worker inspects the pier again,       *)
(* records what it will delete and unlinks one file after the other        *)
(* (runtimequalify/prefix_linux.go).  Nothing undoes an unlink, so a       *)
(* worker that stops in between leaves a pier nobody may run, move or      *)
(* prune again.                                                            *)
(*                                                                         *)
(* An epoch has several files: "torn" is an epoch some of whose files are  *)
(* gone, "touched" one whose files are complete but changed on disk since  *)
(* it was written.  An inventory and its digest are the state of every     *)
(* epoch and the version of the ship.                                      *)
(*                                                                         *)
(* Not modelled: the age of an inventory, epochs of an unqualified layout  *)
(* or with shared files (both only refuse), sums of sizes, the cap of 128  *)
(* epochs, and a roll utility that outlives its worker (RunnerJournal has  *)
(* it).  A definition marked "mutant" is a bug this code could have; no    *)
(* run uses it unless it is put in the place of the one it precedes.       *)
(***************************************************************************)
EXTENDS HostHandoff, FiniteSets

CONSTANTS
    Epoch,     \* epoch numbers
    FirstEpochs, \* those in the ship's log at first
    None,      \* no inventory, intent or record
    MaxSlips   \* bound on failures of maintenance and on files others touch

ASSUME EpochAssumption == Epoch \subseteq Nat /\ IsFiniteSet(Epoch)
ASSUME FirstEpochsAssumption == FirstEpochs \subseteq Epoch /\ FirstEpochs # {}
ASSUME SlipsAssumption == MaxSlips \in Nat

Log == [Epoch -> {"absent", "whole", "touched", "torn"}]

Inventory == [log : Log, version : Nat]

\* What an owner confirms.
Intent == [cutoff : Epoch, inventory : Inventory]

ASSUME NoneAssumption == None \notin Intent

VARIABLES
    log,       \* the epochs in the pier directory of each place
    parcel,    \* the epochs in the archive of each transfer
    inventory, \* ManagedState.Epochs of each place
    intent,    \* its PruneIntent
    prefix,    \* its PrefixPrune: the log before the deletion, and the cutoff
    uncertain, \* UncertainMaintenance
    rolled,    \* RollNeedsRuntime
    task,      \* the maintenance that is its active operation, and its stage
    slips      \* failures so far

prunes  == <<inventory, intent, prefix, uncertain, rolled, task>>
logs    == <<log, parcel>>
allVars == <<vars, prunes, logs, slips>>

-----------------------------------------------------------------------------
(* Types *)

PruneTypeOK ==
    /\ log \in [Place -> Log]
    /\ parcel \in [Transfer -> Log]
    /\ inventory \in [Place -> Inventory \cup {None}]
    /\ intent \in [Place -> Intent \cup {None}]
    /\ prefix \in [Place -> [before : Log, cutoff : Epoch] \cup {None}]
    /\ uncertain \in [Place -> BOOLEAN]
    /\ rolled \in [Place -> BOOLEAN]
    /\ task \in [Place -> {"none", "inspect", "roll", "rolling", "rolled",
                           "prune", "deleting"}]
    /\ slips \in 0 .. MaxSlips

-----------------------------------------------------------------------------
(* The stopped ship at home, before any maintenance. *)

NoLog == [e \in Epoch |-> "absent"]

PruneInit ==
    /\ Init
    /\ log = [p \in Place |->
                 [e \in Epoch |-> IF p = Home /\ e \in FirstEpochs
                                  THEN "whole" ELSE "absent"]]
    /\ parcel = [t \in Transfer |-> NoLog]
    /\ inventory = [p \in Place |-> None]
    /\ intent = [p \in Place |-> None]
    /\ prefix = [p \in Place |-> None]
    /\ uncertain = [p \in Place |-> FALSE]
    /\ rolled = [p \in Place |-> FALSE]
    /\ task = [p \in Place |-> "none"]
    /\ slips = 0

-----------------------------------------------------------------------------
(* Inventories and the selection of a prefix (internal/epochs) *)

Present(l) == {e \in Epoch : l[e] # "absent"}

\* scanPierEpochs
Scan(p) == [log |-> log[p], version |-> content[p]]

Newer_ByName(e, d) ==                                   \* mutant
    LET name(n) == IF n < 10 THEN 10 * n ELSE n IN name(e) > name(d)

\* Names compare as the numbers they stand for, not as text.
Newer(e, d) == e > d

\* The newest two epochs are protected.
ProtectedSuffix == 2

Protected(l) ==
    {e \in Present(l) :
        Cardinality({n \in Present(l) : Newer(n, e)}) < ProtectedSuffix}

\* The cutoff and every older epoch ...
Selected(l, cutoff) == {e \in Present(l) : ~Newer(e, cutoff)}

\* ... unless a protected one would be among them.
PrunePlan(l, cutoff) == cutoff \in Present(l) \ Protected(l)

-----------------------------------------------------------------------------
(* Acceptance *)

Quiet_NotBusy(p) == task[p] = "none"                    \* mutant

\* No maintenance is active, and none has an unknown outcome.
Quiet(p) == task[p] = "none" /\ ~uncertain[p]

\* Every accepted operation drops the inventory and the intent.
Accept(p, kind, confirmed) ==
    /\ Startable(p) /\ Quiet(p) /\ ~running[p] /\ op[p] = "none"
    /\ task' = [task EXCEPT ![p] = kind]
    /\ inventory' = [inventory EXCEPT ![p] = None]
    /\ intent' = [intent EXCEPT ![p] = confirmed]
    /\ UNCHANGED <<vars, logs, prefix, uncertain, rolled, slips>>

AcceptInspect(p) == Accept(p, "inspect", None)

AcceptRoll(p) == ~rolled[p] /\ Accept(p, "roll", None)

\* The digest the owner confirms must be the one on record.
AcceptPrune(p, cutoff) ==
    /\ inventory[p] # None
    /\ PrunePlan(inventory[p].log, cutoff)
    /\ Accept(p, "prune", [cutoff |-> cutoff, inventory |-> inventory[p]])

\* Stop is accepted over an uncertain outcome too, and settles neither a
\* deletion nor a roll that was dispatched.  Over a settled one it only drops
\* what the next inspection finds again.
StopAgain(p) ==
    /\ Startable(p) /\ task[p] = "none" /\ ~running[p] /\ op[p] = "none"
    /\ uncertain[p]
    /\ inventory' = [inventory EXCEPT ![p] = None]
    /\ intent' = [intent EXCEPT ![p] = None]
    /\ UNCHANGED <<vars, logs, prefix, uncertain, rolled, task, slips>>

-----------------------------------------------------------------------------
(* Workers: ApplyManaged and finishOperation *)

Slip == slips < MaxSlips /\ slips' = slips + 1

\* The operation ends; an error drops the inventory.
EndTask(p, found) ==
    /\ task' = [task EXCEPT ![p] = "none"]
    /\ inventory' = [inventory EXCEPT ![p] = found]

InspectPier(p) ==
    /\ task[p] = "inspect"
    /\ EndTask(p, Scan(p))
    /\ UNCHANGED <<vars, logs, intent, prefix, uncertain, rolled, slips>>

\* A roll publishes its report as uncertain, lets the utility write one newer
\* epoch, and reports the epochs it finds.  (A report whose utility was never
\* dispatched is settled by the next Stop, see RunnerJournal: here publication
\* and dispatch are one step.)
RollBegin(p) ==
    /\ task[p] = "roll"
    /\ task' = [task EXCEPT ![p] = "rolling"]
    /\ uncertain' = [uncertain EXCEPT ![p] = TRUE]
    /\ UNCHANGED <<vars, logs, inventory, intent, prefix, rolled, slips>>

RollEpoch(p, e) ==
    /\ task[p] = "rolling"
    /\ \A d \in Present(log[p]) : e > d
    /\ log' = [log EXCEPT ![p][e] = "whole"]
    /\ task' = [task EXCEPT ![p] = "rolled"]
    /\ UNCHANGED <<vars, parcel, inventory, intent, prefix, uncertain, rolled,
                   slips>>

\* A save whose acknowledgment is lost keeps the outcome uncertain.
RollEnd(p) ==
    /\ task[p] = "rolled"
    /\ rolled' = [rolled EXCEPT ![p] = TRUE]
    /\ \/ /\ EndTask(p, Scan(p))
          /\ uncertain' = [uncertain EXCEPT ![p] = FALSE]
          /\ UNCHANGED slips
       \/ EndTask(p, None) /\ Slip /\ UNCHANGED uncertain
    /\ UNCHANGED <<vars, logs, intent, prefix>>

PruneBegin_Trusting(p) ==                               \* mutant
    LET cutoff == intent[p].cutoff IN
    /\ task[p] = "prune"
    /\ PrunePlan(log[p], cutoff)
    /\ prefix' = [prefix EXCEPT ![p] = [before |-> log[p], cutoff |-> cutoff]]
    /\ uncertain' = [uncertain EXCEPT ![p] = TRUE]
    /\ task' = [task EXCEPT ![p] = "deleting"]
    /\ UNCHANGED <<vars, logs, inventory, intent, rolled, slips>>

\* deletePrefix up to its first unlink: the pier still has the inventory that
\* was confirmed, and the record of what will go is saved as uncertain.
PruneBegin(p) ==
    LET cutoff == intent[p].cutoff IN
    /\ task[p] = "prune"
    /\ Scan(p) = intent[p].inventory /\ PrunePlan(log[p], cutoff)
    /\ prefix' = [prefix EXCEPT ![p] = [before |-> log[p], cutoff |-> cutoff]]
    /\ uncertain' = [uncertain EXCEPT ![p] = TRUE]
    /\ task' = [task EXCEPT ![p] = "deleting"]
    /\ UNCHANGED <<vars, logs, inventory, intent, rolled, slips>>

PruneRefused(p) ==
    /\ task[p] = "prune"
    /\ Scan(p) # intent[p].inventory
    /\ EndTask(p, None)
    /\ UNCHANGED <<vars, logs, intent, prefix, uncertain, rolled, slips>>

Targets(p) == Selected(prefix[p].before, prefix[p].cutoff)

\* The epoch the worker is at: the oldest target that is left.
Target(p, e) ==
    /\ task[p] = "deleting"
    /\ e \in Targets(p) /\ log[p][e] # "absent"
    /\ \A d \in Targets(p) : Newer(e, d) => log[p][d] = "absent"

\* unlinkEpochTarget: every file is compared with the record, unlinked and
\* reported; the directory goes last.
Unlink(p, e) ==
    /\ Target(p, e) /\ log[p][e] = prefix[p].before[e]
    /\ log' = [log EXCEPT ![p][e] = "torn"]
    /\ UNCHANGED <<vars, parcel, prunes, slips>>

RemoveEpoch(p, e) ==
    /\ Target(p, e) /\ log[p][e] = "torn"
    /\ log' = [log EXCEPT ![p][e] = "absent"]
    /\ UNCHANGED <<vars, parcel, prunes, slips>>

\* A target that is not what was recorded, or a retained epoch that changed,
\* ends the deletion with an error over an uncertain record.
PruneStopped(p) ==
    /\ task[p] = "deleting"
    /\ \E e \in Epoch :
          /\ log[p][e] = "touched" /\ prefix[p].before[e] # "touched"
          /\ Target(p, e) \/ \A d \in Targets(p) : log[p][d] = "absent"
    /\ EndTask(p, None)
    /\ UNCHANGED <<vars, logs, intent, prefix, uncertain, rolled, slips>>

\* The last save also drops the intent; a lost acknowledgment of it makes the
\* outcome uncertain again.
PruneEnd(p) ==
    /\ task[p] = "deleting"
    /\ \A e \in Epoch : log[p][e] = IF e \in Targets(p) THEN "absent"
                                    ELSE prefix[p].before[e]
    /\ intent' = [intent EXCEPT ![p] = None]
    /\ \/ /\ EndTask(p, Scan(p))
          /\ uncertain' = [uncertain EXCEPT ![p] = FALSE]
          /\ UNCHANGED slips
       \/ EndTask(p, None) /\ Slip /\ UNCHANGED uncertain
    /\ UNCHANGED <<vars, logs, prefix, rolled>>

Maintain(p) ==
    \/ InspectPier(p) \/ RollBegin(p) \/ RollEnd(p)
    \/ PruneBegin(p) \/ PruneRefused(p) \/ PruneStopped(p) \/ PruneEnd(p)
    \/ \E e \in Epoch : RollEpoch(p, e) \/ Unlink(p, e) \/ RemoveEpoch(p, e)

\* Any step fails: the worker ends with an error.
FailTask(p) ==
    /\ task[p] # "none" /\ Slip
    /\ EndTask(p, None)
    /\ UNCHANGED <<vars, logs, intent, prefix, uncertain, rolled>>

\* Somebody else changes the metadata of a file in a pier.  What changes before
\* an operation is accepted may as well change after it: nothing reads the log
\* in between.
Touch(p, e) ==
    /\ task[p] # "none"
    /\ log[p][e] = "whole" /\ Slip
    /\ log' = [log EXCEPT ![p][e] = "touched"]
    /\ UNCHANGED <<vars, parcel, prunes>>

-----------------------------------------------------------------------------
(* The handoff, as far as it touches the log or is kept out by maintenance *)

StartShip(p) ==
    /\ Start(p) /\ Quiet(p)
    /\ inventory' = [inventory EXCEPT ![p] = None]
    /\ intent' = [intent EXCEPT ![p] = None]
    /\ rolled' = [rolled EXCEPT ![p] = FALSE]
    /\ UNCHANGED <<prefix, uncertain, task, logs, slips>>

PrepareQuiet(c, t) ==
    /\ PrepareFresh(c, t) /\ Quiet(job[c].from)
    /\ UNCHANGED <<prunes, logs, slips>>

\* The offer tells the destination whether the ship must run before a roll.
Reserve(c) ==
    /\ ReserveFresh(c)
    /\ rolled' = [rolled EXCEPT ![job[c].to] = rolled[job[c].from]]
    /\ UNCHANGED <<inventory, intent, prefix, uncertain, task, logs, slips>>

OtherCall(c) ==
    /\ \/ PrepareAgain(c) \/ PrepareRefused(c) \/ WaitSource(c)
       \/ ReserveAgain(c) \/ Inspect(c) \/ Relay(c) \/ Put(c) \/ Retry(c)
       \/ WaitReceived(c) \/ Commit(c) \/ WaitMoved(c) \/ Activate(c)
    /\ UNCHANGED <<prunes, logs, slips>>

CallStep(c) ==
    \/ \E t \in Transfer : PrepareQuiet(c, t)
    \/ Reserve(c) \/ OtherCall(c)

ExportLog(p) ==
    /\ Export(p)
    /\ parcel' = [parcel EXCEPT ![id[p]] = log[p]]
    /\ UNCHANGED <<log, prunes, slips>>

StageLog(p) ==
    /\ Stage(p)
    /\ log' = [log EXCEPT ![p] = parcel[id[p]]]
    /\ UNCHANGED <<parcel, prunes, slips>>

ReceiveLog(p) ==
    /\ FinishReceive(p)
    /\ inventory' = [inventory EXCEPT ![p] = Scan(p)]
    /\ UNCHANGED <<intent, prefix, uncertain, rolled, task, logs, slips>>

OtherWork(p) ==
    /\ FinishPrepare(p) \/ Publish(p) \/ Archive(p) \/ FinishCommit(p)
    /\ UNCHANGED <<prunes, logs, slips>>

WorkStep(p) == ExportLog(p) \/ StageLog(p) \/ ReceiveLog(p) \/ OtherWork(p)

\* A runner ends with everything it was doing; the records stay.
EndTasks(n) ==
    /\ task' = [p \in Place |-> IF Host[p] = n THEN "none" ELSE task[p]]
    /\ UNCHANGED <<inventory, intent, prefix, uncertain, rolled, logs>>

CrashRunner(n) ==
    \/ Crash(n) /\ EndTasks(n) /\ UNCHANGED slips
    \/ /\ \A p \in Place : Host[p] = n => op[p] = "none"
       /\ \E p \in Place : Host[p] = n /\ task[p] # "none"
       /\ Slip /\ EndTasks(n) /\ UNCHANGED vars

Rest ==
    /\ \/ \E p \in Place : Stop(p) \/ Fail(p)
       \/ \E c \in Coordinator : GiveUp(c)
       \/ \E c \in Coordinator, p, q \in Place : Begin(c, p, q)
    /\ UNCHANGED <<prunes, logs, slips>>

PruneNext ==
    \/ \E p \in Place :
          \/ AcceptInspect(p) \/ AcceptRoll(p) \/ StopAgain(p)
          \/ Maintain(p) \/ FailTask(p)
          \/ \E e \in Epoch : AcceptPrune(p, e) \/ Touch(p, e)
          \/ StartShip(p) \/ WorkStep(p)
    \/ \E c \in Coordinator : CallStep(c)
    \/ \E n \in Runner : CrashRunner(n)
    \/ Rest

PruneSpec == PruneInit /\ [][PruneNext]_allVars

\* Workers have deadlines and coordinators only wait for workers.  No code
\* repeats a failed move: the ship's owner continues it, with the recorded
\* source and destination, for as long as it has not arrived.
PruneFairness ==
    /\ \A p \in Place : WF_allVars(WorkStep(p)) /\ WF_allVars(Maintain(p))
    /\ \A c \in Coordinator : WF_allVars(CallStep(c))
    /\ \A p \in Place :
          SF_allVars(dir[p] = "out" /\ \E c \in Coordinator :
                        Begin(c, p, destination[id[p]])
                        /\ UNCHANGED <<prunes, logs, slips>>)

FairPruneSpec == PruneSpec /\ PruneFairness

-----------------------------------------------------------------------------
(* What strengthens the safety properties below into an inductive invariant *)

\* Maintenance is active, or has left an uncertain outcome, at a stopped ship.
AtRest ==
    \A p \in Place : task[p] # "none" \/ uncertain[p] =>
        Startable(p) /\ ~running[p] /\ op[p] = "none"

\* The outcome is uncertain from the first save of a worker that will change
\* the pier to its last, a roll works on complete epochs, and a deletion has
\* what was confirmed.
TaskAgrees ==
    \A p \in Place :
        /\ task[p] \in {"inspect", "roll", "prune"} => ~uncertain[p]
        /\ task[p] \in {"rolling", "rolled", "deleting"} => uncertain[p]
        /\ task[p] \in {"rolling", "rolled"} =>
              \A e \in Epoch : log[p][e] # "torn"
        /\ task[p] \in {"prune", "deleting"} => intent[p] # None

\* An epoch is torn where an outcome is uncertain, and never in an archive; a
\* place without a pier has no epochs.
LogAgrees ==
    /\ \A p \in Place, e \in Epoch :
          /\ log[p][e] = "torn" => uncertain[p]
          /\ pier[p] = "none" => log[p][e] = "absent"
    /\ \A t \in Transfer, e \in Epoch : parcel[t][e] # "torn"

\* A deletion under way follows the confirmed plan, retains the rest of what it
\* recorded, and goes from the oldest epoch to the cutoff.
DeletionAgrees ==
    \A p \in Place : task[p] = "deleting" =>
        LET r == prefix[p] IN
        /\ r \in [before : Log, cutoff : Epoch]
        /\ intent[p].cutoff = r.cutoff /\ intent[p].inventory.log = r.before
        /\ intent[p].inventory.version = content[p]
        /\ PrunePlan(r.before, r.cutoff)
        /\ \A e \in Epoch :
              /\ r.before[e] # "torn"
              /\ e \notin Targets(p) =>
                    \/ log[p][e] = r.before[e]
                    \/ r.before[e] = "whole" /\ log[p][e] = "touched"
              /\ e \in Targets(p) /\ log[p][e] \in {"torn", "absent"} =>
                    \A d \in Targets(p) : d < e => log[p][d] = "absent"

PruneInv == /\ PruneTypeOK /\ AtRest /\ TaskAgrees /\ LogAgrees
            /\ DeletionAgrees

-----------------------------------------------------------------------------
(* Properties *)

Torn(l) == \E e \in Epoch : l[e] = "torn"

\* A pier whose deletion stopped half way stays where it is: it does not run,
\* it is not offered to another host, no copy of it travels, and its record
\* says so to whoever asks next, whatever crashed in between.
TornStays ==
    /\ \A p \in Place : Torn(log[p]) =>
          uncertain[p] /\ Startable(p) /\ ~running[p]
    /\ \A t \in Transfer : ~Torn(parcel[t])

\* The epochs that lose files in a step.
Losing(p) ==
    {e \in Epoch : /\ log'[p][e] # log[p][e]
                   /\ log'[p][e] \in {"torn", "absent"}}

\* Whatever is deleted, two newer epochs are complete, from which Vere can
\* replay.
NewestSurvive ==
    [][\A p \in Place : \A e \in Losing(p) :
          Cardinality({n \in Epoch : n > e /\
                          log'[p][n] \in {"whole", "touched"}}) >= 2]_allVars

\* Only what the owner confirmed goes, oldest first: an epoch the confirmed
\* inventory lists, as it is listed, not newer than the confirmed cutoff, and
\* nothing older than it is left.
ConfirmedOnly ==
    [][\A p \in Place : \A e \in Losing(p) :
          /\ intent[p] # None /\ e <= intent[p].cutoff
          /\ log[p][e] \in {intent[p].inventory.log[e], "torn"}
          /\ content[p] = intent[p].inventory.version
          /\ \A d \in Epoch : d < e => log[p][d] = "absent"]_allVars

\* A ship fenced for a move is startable somewhere again, once failures end and
\* its owner continues the move: maintenance before the move, or at a finished
\* one, does not get in its way.
Arrives ==
    \A p \in Place : dir[p] = "out" ~> \E q \in Place : Startable(q)

=============================================================================
