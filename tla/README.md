# A verification project for omabit

omabit runs a person's Urbit ships in containers on one or several Linux
hosts. This directory holds TLA+ models of its core logic, the TLC
configurations that check them on small instances, and theorems about them that
the TLA+ proof system checks for every value of the constants.

Paths below are relative to the repository (`src/` in `PROJECT.json`).

## The system

```
 desktop plugin / omabit CLI / urbit-collector CLI
            |  commands, polling
     urbit-collector (one per user)      -- HTTP channels --> ships
            |  HTTP over a local socket or SSH, retried, replies may be lost
     urbit-runner (one per host)         <-- management RPC -- host installer
       |            |          \
   SQLite        Docker      pier directories
   journal       daemon      (each ship's only copy of its state)
```

A *ship* is an Urbit identity whose state lives in a *pier* directory. A pier
may be run by at most one process anywhere: running two copies of one ship, or
an old copy after a newer one has spoken on the network, breaks the ship for
good. Almost everything hard in the runner exists to keep that from happening
while processes crash, Docker answers late, hosts reboot and clients retry.

### Components

| component | state | operations | interacts with |
| --- | --- | --- | --- |
| runner operation journal (`internal/managed/store.go`, `server.go`) | SQLite tables `operations`, `instances`, `meta`; in memory the work gate, the failed flag, the closing flag, the transfer counter | accept, replay, configure, begin, save runtime, finish, observe, reconcile at start | clients by HTTP; workers by goroutine; the driver by callbacks |
| management update fence (`managed/management_update.go`) | one `meta` row, the transfer counter | acquire, release | installer; every mutating handler |
| managed runtime driver (`internal/runtimequalify/managed_linux.go`, `docker_linux.go`) | `ManagedState`: container intents, dispatch markers, maintenance phases | start, stop, pack, meld, roll, inspect, observe | Docker daemon; saves through the journal |
| host move (`managed/handoff.go`, `client/move.go`, `runtimequalify/handoff_linux.go`) | a handoff record in each runner's instance row; spool artifacts; the piers | prepare, receive, relay, commit, activate | two runners, one coordinating client |
| startup resume (`managed/startup.go`) | per ship, which host boot it was seen healthy in and which boot may restart it | candidates, dismiss, claim, resume loop | journal, driver |
| routines (`managed/routines.go`, `internal/routines`) | policies, last slot, the run inside the instance row | edit, claim a slot, dispatch, observe | journal, clock |
| port allocation (`managed/store.go`, `internal/hostports`) | HTTP ports of configurations and of retained containers | reserve | registration, configuration |
| pier storage, import, restore (`managed/import*.go`, `internal/pierstore`, `piercopy`) | pier directories, custody and archive directories | import, preview, restore, archive, delete | driver, journal |
| epoch pruning (`internal/epochs`, `runtimequalify/prefix_linux.go`, `epochs_linux.go`) | event-log epochs of a pier, a deletion record | inspect, roll, confirm, delete a prefix | driver, journal, host move |
| ship provisioning (`runtimequalify/workflow_linux.go`) | the phases of a first boot | boot fake, comet and keyed ships | driver |
| host installer (`internal/hostinstall`) | an activation journal, executable generations | activate, resume, offline update | systemd, fence |
| host setup, compatibility, remote setup (`internal/hostsetup`, `hostcompat`, `remotesetup`, `onboarding`) | plans, receipts, a step journal | inspect, plan, apply | package managers, SSH |
| host access (`internal/access`, `shipaccess`) | SSH keys, bridges | connect, hand off a socket | SSH |
| collector (`internal/collection`, `applicationauth`, `credentials`, `eyre`) | ship sessions, registry, application catalogue and grants | register, refresh, authorize, revoke | ships over HTTP |
| private chains (`internal/privatechain`) | member and gateway state files | launch members, gateway | Docker |
| project networks (`internal/projectnetwork`, `managed/project_*.go`) | anchor and member journals with recovery generations | launch, stop, expand, replace, recover | Docker, journal |
| native collections (`native/collections`, `native/bootstrap`) | hash-chained session journal, artifacts | admit, checkpoint, continue | desktop shell |
| front ends (`cmd/omabit`, `backend/cmd`, `plugins/omabit`) | none that lasts | commands, rendering | all of the above |

### What is hard, and what makes each part correct

* **Journal.** Requests are retried by clients that lost the reply; a worker
  runs for minutes outside any lock; the process can end between any two
  transactions; a transaction may commit without its acknowledgment; a poller
  observes without a lock and writes back later. Correct means: the two tables
  always agree, one request has one outcome for ever, nothing Docker holds or
  may still create is unknown to the journal, and every accepted operation is
  settled.
* **Fence.** The installer replaces the executable under a running journal.
  Correct means: held implies nothing in flight, and nothing starts.
* **Driver.** Docker may act after the client was killed. Correct means
  write-ahead intents, at most one offline utility per host, and an unknown
  maintenance outcome that demands recovery until it is settled.
* **Host move.** Two journals and two directories on two hosts, one client that
  may stop anywhere, lost and repeated requests, and no transaction that spans
  them. Correct means: never two startable copies, never an old copy, never a
  ship lost in between.
* **Startup resume.** Observation races with mutation; an unclean ship may be
  resumed once per host reboot and not within the same boot.
* **Routines.** A moving clock, edited policies and missed windows; no slot
  twice.
* **Epoch pruning.** Unlinks that nothing undoes, from a plan made on what an
  owner confirmed earlier. Correct means: only what was confirmed, never the
  newest two, and a half-deleted log is fenced where it is.
* **Project networks.** Tasks of several containers with write-ahead journals
  that are never retried, whose validators refuse everything if one row is
  wrong. Correct means: rows stay valid, no call is made twice, members share
  one namespace, and no pier has two containers.
* **Installer.** It stops and replaces the service that everything else relies
  on, and may itself end anywhere. Correct means: no work lost, no fence left
  without the journal that opens it, always a generation that reads the state.
* **Import, restore, remote setup.**
  Journaled sequences of irreversible file operations with a crash between any
  two.
* **Collector.** Sessions and catalogue rows read before a network call and
  written after it.
* **Native collections.** A hash-chained journal whose reader must not accept a
  torn or forked tail.

## The modules

| module | what it is | composes |
| --- | --- | --- |
| `RunnerJournal` | one runner: journal, workers, work gate, poller, update fence, restart, over a Docker daemon that acts on its own | `OperationLedger`, `UpdateFence` (abstract) |
| `OperationLedger` | what a client of one runner is promised about operations | |
| `UpdateFence` | what an installer is promised by the manager of a host whose fence it holds | |
| `HostHandoff` | the stopped move of one ship between the runners of several hosts, driven by coordinating clients | `SingleHome` (abstract) |
| `SingleHome` | what the owner of a moving ship is promised | |
| `EpochPrune` | inspection, roll and deletion of event-log epochs of the ship that moves | extends `HostHandoff`: every step of a move is possible beside maintenance |
| `StartupResume` | one ship across reboots of its host: selection, authorization, claim and execution of an unattended resume | |
| `Routines` | scheduled maintenance of one ship: policies, slots, claims, the steps of a run | |
| `ProjectLaunch` | the first launch of a project network: bridge, anchor, mounts, members | `NetworkFormation` (abstract) |
| `NetworkFormation` | what a project network is promised to be while it comes up | |
| `MemberLifecycle` | stopping, retiring and resuming the members of a running project network | `PierSuccession` (abstract) |
| `PierSuccession` | what is promised about the containers that follow each other over one pier | |
| `HostActivation` | upgrading the management service of a host: fence, replace, verify, roll back, bridge | `ManagerUpgrade` (abstract) |
| `ManagerUpgrade` | what a host is promised while its management service is replaced | extends `UpdateFence` by the executable |
| `RunnerJournalProofs`, `HostHandoffProofs`, `EpochPruneProofs`, `StartupResumeProofs`, `RoutinesProofs`, `ProjectLaunchProofs`, `MemberLifecycleProofs`, `HostActivationProofs` | the theorems, proved with TLAPS | the module they are named after; `EpochPruneProofs` also `HostHandoffProofs` |
| `MCRunnerJournal`, `MCHostHandoff`, `MCEpochPrune`, `MCStartupResume`, `MCRoutines`, `MCProjectLaunch`, `MCMemberLifecycle`, `MCHostActivation` | model values, small sets and symmetry for TLC | the module they are named after |

Definitions marked *mutant* are bugs the code could have (a missing guard, a
forgotten save). Each is used only to show that a property notices it.

### Plan

Done, in the order in which it was written:

1. `RunnerJournal` over `OperationLedger`: the journal is what every other part
   of a runner stands on.
2. `HostHandoff` over `SingleHome`: the only protocol that spans two journals,
   and the one whose failure breaks a ship for good.
3. `StartupResume`: which ships resume unattended after a reboot, and what may
   not be resumed; several loops observe the same row without a lock.
4. `Routines`: slots, missed windows, edited policies, retries.
5. `ProjectLaunch` and `MemberLifecycle`: the write-ahead journals of project
   networks, whose validators stop the service if a row is ever wrong.
6. `EpochPrune`: irreversible unlinks with a crash between any two, composed
   with the move that would carry a half-deleted log away.
7. `HostActivation`: the installer's journal, the online upgrade with its
   rollback, and the offline bridge.
8. The promises across components: `UpdateFence`, which the runner keeps and the
   installer relies on, `ManagerUpgrade`, `NetworkFormation` and
   `PierSuccession`, each proved to be implemented.

Left, in the order in which it is worth writing:

9. `ManagedRegistry`: registration, ports and deletion in the instance table.
10. `ImportRestore`: journaled sequences of file moves with a crash between any
   two.
11. Expansion and recovery of project networks, beside `MemberLifecycle`.
12. `CollectorSessions`: rows read before a network call and written after it.
13. `ManagedRuntime`: the driver below `RunnerJournal`'s worker, with
    provisioning and comets; to be shown to implement the worker's steps.

## RunnerJournal

### State

| variable | code |
| --- | --- |
| `op` | rows of `operations`; a request stands for its operation, because a row is unique per (actor, request ID) |
| `inst` | the public half of an `instances` row: active operation, desired and observed state, revisions, recovery demand |
| `runtime` | the private half, `runtimequalify.ManagedState`: the retained container, whether its create was dispatched, the maintenance phase |
| `fence` | the `meta` row of `management_update.go` |
| `worker`, `memory` | the goroutine of `Server.launch` and the state a driver returns after a failed save |
| `gate`, `bulk`, `mode`, `failed` | `workGate`, `updateBulk`, the life of the process, the failed flag |
| `poll` | what `Server.poll` captured before it called Docker |
| `engine` | containers as the Docker daemon has them, which may change after a client was killed |
| `launched` | history: the revision a running container was created with |

### Actions

A handler runs under `Server.mu` and commits one SQLite transaction, so a
handler is one action: `Accept` is `store.accept` with its replay lookup and
every refusal, `Configure` is `store.configure`, `AcquireFence` and
`ReleaseFence` are the two fence requests. A worker holds no lock while it
drives Docker, so it is a sequence of actions, one per transaction or per call
that the outside can see: `AcquireGate`, `Begin`, `RecordIntent`,
`MarkDispatch`, `SendCreate`, `RemoveContainer`, `PersistRemoved`,
`RetireIntent`, `SettleMaintenance`, then one of the outcomes, then
`WorkerExit`. `PollRead` and `PollCommit` are separate because the observation
between them takes up to twenty seconds without a lock. A save has three
outcomes: committed, refused, and committed without an acknowledgment; each is
possible at every save. `Crash` may happen anywhere, `Close` is a clean stop
that waits for workers, and `Restart` is `newServerWithStartup` with
`reconcileInterrupted` over what the tables hold.

### Properties

* `JournalAgrees`: the active operation of a ship and the pending rows are one
  relation. `finish`, `accept` and the restart write both tables; nothing else
  keeps them together.
* `NothingUnrecorded`: a container that exists, or that a killed Docker client
  may still create, is in the journal with its dispatch marker.
* `UtilityExclusive`: at most one offline utility on the host, and no other
  heavy driver beside it, although a timed-out worker releases the gate before
  its utility is gone.
* `UncertainDemandsRecovery`: an idle ship with an unresolved maintenance demands
  recovery.
* `NoHiddenDrift`: a ship shown as running its current revision was created with
  that revision.
* `ImplementsFence`: the runner implements `UpdateFence`, the promise to the
  installer: the fence closes over a host with nothing in flight, under one token
  at a time and not again under one that was released, and nothing starts and
  nothing is written until it opens. `FenceQuiet` and `FenceFreezesJournal` are
  parts of it, proved on their own.
* `ImplementsLedger`: the two tables implement `OperationLedger`; an outcome is
  for ever (`OutcomeFinal`, proved on its own).
* `OperationSettles`: every accepted operation ends.

### Runs

| run | instance | what it shows |
| --- | --- | --- |
| `one_ship` | 1 ship, 2 requests, 1 fence token, 1 transfer, 2 revisions, the poller | every safety property but the one about two ships, and `ImplementsLedger`; two requests are enough for a replay, a busy refusal and an operation after another, and one ship is all that the tables relate |
| `two_ships` | 2 ships, 2 requests, no poller and no fence, fairness | contention for the gate, also after a maintenance of the other ship that timed out (`UtilityExclusive`), and both operations end through contention, shutdown, crashes and restarts (`OperationSettles`) |

`MaxRevision`, `MaxBulk` and `Polled` bound configuration edits, transfers and
the ships whose observation may be in flight. Requests are interchangeable in
`one_ship`; `two_ships` checks liveness and uses no symmetry. `TypeOK`,
`IInv`, `FenceQuiet` and `OutcomeFinal` are proved and left out of the runs.

### Fairness

A goroutine of a live process keeps running, and every `ApplyManaged` has a
deadline (`launch` and the driver's contexts), so `WorkerStep` is weakly fair.
Blocked sends on the gate's channel are served in the order they came, so
`AcquireGate` is weakly fair too. Observations and transfers have time-outs.
`Restart` is fair because the unit is started again after a failure
(`Restart=on-failure`) and by its owner after a clean stop. Crashes, faults and
clients are not fair. A journal that refuses a write sets `failed`, and
`OperationSettles` promises nothing until the next start.

### Proofs

`IInv` is the conjunction of the type invariant, the safety invariants above,
and what they need: what each worker position implies about its row
(`WorkerOwns`), that heavy kinds hold the gate until they leave (`GateHeld`),
what each position has recorded before it acts (`IntentKnown`, `SettledFirst`),
that only one utility can be anywhere (`OneUtility`), and that a poller's
snapshot is the current row or will be refused (`SnapshotFresh`). `TypeOK` and
`JournalAgrees` alone are not inductive: a worker that sends a create must be
known to have saved the marker, and a poller that writes back must be known to
hold nothing newer than the row. `RunnerJournalProofs` proves one lemma per
action or group of actions, `Invariance`, the safety invariants from it, the two
action properties, `ImplementsLedger` and `ImplementsFence`, for any sets of ships, requests and
tokens and any bounds. `OperationSettles` is only model-checked.

For `ImplementsFence` the abstract "busy" is any transfer, worker or pending
operation, which is more than the acquiring handler looks at (`Quiet`); that
nothing pending is left when the `active` columns are empty is `JournalAgrees`.
An acquire that is repeated by its holder maps to a stutter.

`NoHiddenDrift` needs two more invariants, which the last part of
`RunnerJournalProofs` adds to `IInv`. `RevisionKnown`: neither the applied revision nor the one captured by the
last start is newer than the configuration, a container that exists was created
with the captured one, and if the applied revision is the configuration so is the
captured one. `StartKnown`: an operation in flight still has the ship's
configuration (an edit is refused while a ship is busy), a queued start found no
retained container (so capturing its revision can contradict none), and only a
start is ever about to create the runtime. An observation of a healthy ship then
applies the captured revision, never the edited one.

## HostHandoff

### State

A *place* is an instance name on a host. There are any number of hosts, places,
transfers and coordinating clients.

| variable | code |
| --- | --- |
| `dir`, `state`, `id`, `error` | the `Handoff` record of the instance row: direction, phase, identity, recorded error; `dir = "absent"` is no instance |
| `op` | the handoff operation that is the row's `ActiveOperationID` |
| `pier`, `content` | the pier directory: nowhere, staged, mounted or archived, and the version of the ship it holds |
| `running` | whether the ship runs there |
| `used`, `source`, `destination`, `digest` | the signed fields of an offer; both halves carry them and every exchange compares them (`SameTransfer`), so they are kept once |
| `pc`, `job` | the next call of a `MoveStopped` and what it remembers: names, the transfer, whether it has read the commitment |
| `latest`, `faults` | history: the newest version anywhere; the bound on failures |

### Actions

Every request is a handler under the runner's lock with one transaction and is
one action: `PrepareFresh`, `PrepareAgain`, `PrepareRefused` (prepareHandoff),
`ReserveFresh`, `ReserveAgain` (receiveHandoff), `Put` (the check of
handoffData after the stream, under the lock), `Retry`, `Commit`
(handoffControl), `Activate`. What the client reads between them is an action of
its own, because anything may change in between: `Begin` is its preflight,
`WaitSource`, `Inspect`, `Relay`, `WaitReceived`, `WaitMoved` are its waits and
looks. A worker is split where a crash leaves something behind: `Export`
(the artifact is linked), `Stage` and `Publish` (the pier is extracted, then
renamed), `Archive` (the source's pier is renamed away), and the save that ends
each phase (`FinishPrepare`, `FinishReceive`, `FinishCommit`), which may commit
without an acknowledgment and then leaves an error over the new phase. `Fail`,
`Crash` and `GiveUp` are an attempt that fails, a runner that ends and is
reconciled, and a client that stops, loses a reply or reaches a deadline.

A coordinator remembers only what the code's local variables hold; a stale one
continues with stale names and a stale transfer at any later time.

### Properties

* `OnlyCopy`: where a ship can start, no other mounted copy exists.
* `CurrentCopy`: where it can start, it holds its newest content (proved; not in
  the run, where `ImplementsSingleHome` notices the same bugs).
* `NeverLost`: some place always carries the newest content.
* `ArchivedAfterReceipt`: the source gives its copy up only after a verified
  receipt (proved; not in the run, where `NeverLost` notices the same bugs).
* `ForwardOnly`: a fence is for one destination and for good; no half of a
  transfer goes back to an earlier phase.
* `CollisionsRefused`: a fenced source whose reservation is outstanding finds
  its destination free.
* `Repeatable`: the preflight of a repeated move accepts the names the fenced
  source recorded, until the ship has gone on from the destination: "a lost
  desktop process can continue the same move" (`client/move.go:14`).
* `ImplementsSingleHome`: all of it implements `SingleHome`, where a ship is
  closed, opened and run in one place.
* `Arrives`: a fenced ship is startable again somewhere.

### Runs

| run | instance | what it shows |
| --- | --- | --- |
| `move_and_return` | 3 hosts, 4 places of which two are on one host, 2 transfers, 2 coordinators, 3 versions, 2 faults, a fake ship | the safety properties and `ImplementsSingleHome`; two transfers and two places on the first host make a ship return to the host it left while a stale coordinator of the first move still acts |
| `move_arrives` | one transfer, one coordinator, 2 faults, fairness; the ship may be inspected, rolled and pruned before and after (`EpochPrune`) | `Arrives`, and the properties of `EpochPrune` |
| `live_return` | as the first, with a livenet ship | `CollisionsRefused` is violated, see below |

`MaxVersion` bounds how often the ship is started, `MaxFaults` how many attempts
fail, runners end and clients give up; a runner may still end in the middle of
each kind of attempt, and twice in one. The coordinators are interchangeable.
`PrepareRefused` may happen to any prepare that the source does not hold as its
own: the ship may run, be busy, demand recovery or have maintenance of unknown
outcome, and the coordinator gives up.

### Fairness

Workers have deadlines, and the coordinator's loops only wait for workers, so
both are weakly fair. No code repeats a failed move: every error message tells
the owner to continue the same move. `Arrives` therefore assumes an owner who,
as long as the ship is fenced and a client is free, begins the move again with
the recorded source and destination (strong fairness of that `Begin`). Under
weaker assumptions a fenced ship stays fenced, which is what the code says. The
fairness is stated in `EpochPrune`, over the steps of the composition.

### Proofs

`IInv` says how the two halves of a transfer agree (`HalvesAgree`), what an
active operation works on (`OpAgrees`), where the pier is in each phase and what
it holds (`PierAgrees`), what a coordinator at each call still knows
(`ClientKnows`), and that at most one place *carries* the ship and has its
newest content (`OneCarrier`). A place carries the ship if it can start it, if
it left from there without a commitment, or if it arrived there verified with
the commitment given. The essential step is `FinishCommit`: the carrier passes
from source to destination, whose pier holds the exported digest, which is what
the frozen source holds, which is the newest content.

`NeverLost` needs more: that a commit finds its destination where it was left.
`NoReturn` says that no ship has gone on from the destination of an unfinished
transfer, and that a coordinator about to fence its source would not send it to
a place it was fenced at. `FullInv` adds it to `IInv` and is inductive.

`CollisionsRefused` and `Repeatable` need the destination's name. `NameKept`
says that a fenced source whose ship has not arrived finds the name it goes to
free or holding its transfer, and `LeavesHost` that a transfer changes hosts;
with `FullInv` they make `MoveInv`, which is inductive. Two steps could break
`NameKept`. A source is fenced towards a name: its ship is there, so every other
place is free or fenced (`OthersGone`), and `NoReturn` excludes the fenced ones.
Another transfer reserves the name: its source is fenced and not committed, or
the ship would have landed at a name that is free, so both sources carry the
ship and are one place (`OneOutstanding`).

`HostHandoffProofs` proves `MoveInv`, `OnlyCopy`, `CurrentCopy`, `NeverLost`,
`ArchivedAfterReceipt`, `ForwardOnly`, `Repeatable` and `ImplementsSingleHome`
for any hosts, places, transfers, coordinators and bounds, for fake and livenet
ships. The proofs assume only that the home is a place, that every place has a
host and that the empty transfer is none. `CollisionsRefused` is proved under
the hypothesis that the ship is a fake one (`~Live`), because it fails for
livenet ships as `live_return` shows. `Arrives` is liveness and only
model-checked.

### A disagreement

`client/move.go:63` announces that predictable collisions are refused before the
source is fenced. The preflight compares instance names only; the reservation
also refuses a livenet identity that the destination host already records
(`managed/handoff.go:291`). A host the ship has left keeps such a record for
ever: it is fenced, so it can be neither configured, deleted nor started. A
livenet ship sent back to that host under a new name is thus fenced at its
current host and refused at the destination, and the fenced source answers
`handoff_fenced` to a move anywhere else. `live_return` shows the steps; nothing
is lost (`NeverLost` still holds), but the ship can be started nowhere.

## EpochPrune: deleting epochs of a ship that moves

Vere's event log is a sequence of epochs; replay needs the newest complete ones,
older ones are history that an owner may delete. The runner inspects a stopped
pier, the owner confirms a cutoff against that inventory, and a worker inspects
again, saves a record of what will go and unlinks one file after the other.
Nothing undoes an unlink.

| state | code |
| --- | --- |
| `log` | the epochs in a pier directory: absent, complete, changed by somebody else, or torn (some files are gone) |
| `parcel` | the epochs in the archive of a transfer |
| `inventory` | `ManagedState.Epochs`; its digest stands for the state of every epoch and the version of the ship |
| `intent`, `prefix` | `PruneIntent`, and `PrefixPrune`: the log before the deletion and the cutoff |
| `uncertain`, `rolled` | `UncertainMaintenance`, `RollNeedsRuntime` |
| `task` | the maintenance that is the active operation, and its stage |

`Accept` is `store.accept` for the three kinds of maintenance; `InspectPier`,
`RollBegin`, `RollEpoch`, `RollEnd`, and `PruneBegin`, `Unlink`, `RemoveEpoch`,
`PruneEnd` are their workers, split at each save and, in a deletion, between the
first file and the directory of every epoch. `PruneStopped` and `FailTask` are
the errors, `Touch` is somebody else at the files. The actions of `HostHandoff`
are all there: a start and a fresh `prepare-handoff` are refused while
maintenance is active or its outcome unknown, `ExportLog` packs the log,
`StageLog` unpacks it, and a crash ends every task of its host. So `EpochPrune`
is the composition, not a component of its own.

Left out: the age of an inventory, epochs of an unqualified layout and shared
files (both only refuse), sums of sizes, the cap of 128 epochs, a roll utility
that outlives its worker and a roll that was published and not dispatched (both
in `RunnerJournal`). `Touch` is possible only while a task is active, because
nothing reads the log between a change and the acceptance of the next task;
`StopAgain` only over an unknown outcome, because otherwise a Stop drops what
the next inspection finds again.

Properties: `TornStays` (a torn pier is fenced where it is, and no archive is
torn), `NewestSurvive` (no file of an epoch goes unless two newer epochs are
complete), `ConfirmedOnly` (only what the confirmed inventory lists, up to the
confirmed cutoff, oldest first), and `Arrives`.

The run `move_arrives` has one transfer, one coordinator and two failures of the
move, a log of epochs 0, 2 and 10 that may be rolled to 11, and one failure of
maintenance or one touched file. Epoch numbers that text would order wrongly are
needed for the order; three epochs are the fewest of which one may go, four let
a roll make room for a second deletion, and one failure is what can tear a log.

`Arrives` is checked under the fairness explained above, with maintenance
workers weakly fair too (they have deadlines).

`EpochPruneProofs` first proves that every step is a step of `HostHandoff` or
leaves it alone (`MovesBeside`), so every theorem about the move holds beside
maintenance. `PruneInv` is inductive together with `IInv` of the move: where
maintenance is active or its outcome unknown the ship rests (`AtRest`), which
the handoff respects (`RestStays`); an epoch is torn only where an outcome is
unknown (`LogAgrees`); a deletion under way has the plan that was confirmed and
everything outside it untouched or changed by others (`DeletionAgrees`).
`TornStays` follows at once; `NewestSurvive` needs that the cutoff is not among
the protected epochs, hence at least two recorded epochs are newer, and that no
unlink reaches those.

## StartupResume

### State

One ship; ships do not interact here.

| variable | code |
| --- | --- |
| `boot`, `engine`, `made` | the host's boot identity and what Docker holds of the ship's containers |
| `desired`, `observed`, `recovery` | the public half of the instance row |
| `config`, `applied`, `launch` | the configuration revision, the applied one and `RuntimeConfigRevision` |
| `box`, `verified`, `intent` | the retained container of `ManagedState`, `HostHTTPVerified`, `StartupResumeIntent` |
| `startup` | `startupState`: the boot the container was healthy in, the pending boot, the container and revision they are bound to, `AllowUnclean` |
| `active`, `begun`, `attempts` | the active operation, and the boots whose derived request is in the journal |
| `fence` | the update fence |
| `up`, `me` | the service and its `bootID` (0 when started without the policy) |
| `worker`, `poll`, `loop` | the goroutines: the operation's, the poller's with its snapshot, `resumeStartup` with its candidate |
| `seen`, `confirmed`, `fell`, `failure`, `lost`, `driven`, `owed` | history: what really happened to the retained container, and what a reboot owes the ship |

`poll.current` and `loop.current` say whether `RuntimeRevision` is still the one
that was read.

### Actions

`Restart` is `newServerWithStartup`: reconciliation, then the selection of the
candidates, before anything is observed. `LoopRead`, `LoopObserve` and
`LoopDismiss`, `LoopClaim` or `LoopMiss` are one pass of `resumeStartup`, split
where no lock is held; `Observe` and `Commit` are the poller's. `Accept`,
`Configure` and `Fence` are the handlers that race with them. The worker is
split at each save: `Begin`, `Remove`, `PersistRemoved`, `Intend`, `Launch`,
`Verify`, and the ways to finish. A container may exit at any time, cleanly or
not, the service may die at any time, and the host may reboot at any time, after
which no container runs and each may have been killed.

### Properties

* `OncePerBoot`: a boot dispatches at most one resume.
* `UncleanAfterReboot`: a container that failed is replaced unattended only if
  it really ran healthy in an earlier boot; what is compared is history, not the
  record.
* `KnownFailureStays`, `FailureDiscards`: a failure recorded with no boot
  pending, and a failed operation, end unattended (unclean) resumes.
* `ResumesWanted`, `FenceQuiet`: no resume over the operator's stop, edit or
  update.
* `NotForgotten`: an authorized ship is on the loop's list.
* `ResumeSurvives`: a ship recorded healthy when the host went down stays
  authorized, through polls, deaths of the service and further reboots, until
  it is claimed or the operator decides.

### Runs

`reboots` checks these for three boots, two containers and two revisions.
Three boots let an authorization be granted in one boot, carried into the next
and used or refused there; the second container is the one a resume creates, so
that its own failure and next resume are reached; the second revision is an
edit. The other two runs use the same bounds. `FenceQuiet` and
`KnownFailureStays` are proved and left out of the run.

### Proofs

`StartupResumeProofs` proves `IInv` and each of the properties above, for any
number of boots, containers and revisions. `IInv` adds: goroutines exist only in
a running service and work on the row's operation (`ServiceAgrees`); what the
drivers know of the container they create (`DriverKnows`); a boot is driven
after it is journaled (`AttemptsAgree`); the recorded health is what was really
seen (`HealthTruthful`); the candidate held is the row's, until the row has no
pending boot (`CandidateHeld`); a failure known without a pending boot keeps the
row in recovery (`FailureKnown`); a failed operation leaves no record
(`LostForgets`); what a reboot owes is in the row (`OwedKept`). The step that
matters is `LoopClaim`: the row is compared with the candidate, so the pending
boot and the health it acts on are those of the container it removes.

No liveness is stated: the loop gives way to every poll that overtakes it, both
wait the same interval, and whether one lands inside the other is a matter of
real time.

### Disagreements

* `docs/services.md:84` says known failures are skipped, and the comment at
  `startup.go:125` that a same-boot failure must not be carried into a later
  boot. `known_failure`: a container crashes unobserved, a restart of the
  service makes this boot pending, the poller records the failure, and the host
  reboots before the loop dismisses the candidate; the next boot takes the
  pending authorization over and resumes the failed container.
* `docs/services.md:101` says a failed attempt discards eligibility until a
  healthy observation. `attempt_discards`: `finish` drops only the record. A
  container that was verified and is later seen running, not healthy, clears the
  recovery demand, and a row without a record is a legacy row, resumed after a
  clean exit.
* `docs/install.md:217` says healthy running ships resume after an unclean
  reboot. A restart of the service makes a running ship a candidate, which is
  dismissed with its healthy record (`LoopDismiss`); until the next poll a power loss
  leaves the ship down. No run states this one.

## Routines: scheduled maintenance

A ship may have one maintenance policy: a calendar, a dispatch window, consent
to stop a running ship and consent to resume it. Every five seconds
`scheduleLoop` asks each policy for its newest due slot and claims it in one
transaction that writes an operation (queued, or skipped with the reason), the
instance and the policy. A claimed slot becomes a worker that waits for the work
gate like any other, looks its owner up again, checks the window and the ship
twice and then stops, compacts and resumes the ship, journaling each stage
first.

| state | code |
| --- | --- |
| `policy` | the row of `maintenance_policies`: revision, calendar, owner, the configuration it was approved for, the last slot |
| `run` | `ManagedState.Routine` |
| `active`, `desired`, `observed`, `fresh`, `recovery`, `config`, `applied`, `uncertain` | the instance row; `fresh` is an observation younger than thirty seconds |
| `mode`, `worker` | the service (up, failed, down) and where its worker is |
| `ship` | the container |
| `handled`, `packed`, `begun` | history: slots with an operation, the utility of the run finished, when the run began |

The wall clock is a variable that `SetClock` moves to any time, so a slot is
tried before, inside and after its window, twice, and backwards. `Queue` has two
outcomes: the service launches the worker, or the commit succeeded without an
acknowledgment and the service is failed. `JournalFails` is any other failed save,
of the poller or of a worker; a worker ends where its own save failed, with its
operation still active, and goes on beside any other. A failed service polls but
takes nothing on. Its process does not exit and systemd's `Restart=on-failure`
does not see it: it stays failed until somebody restarts it.

What must hold: a slot is handled at most once and never after a later one
(`SlotsForward`); while a run is claimed the policy it was claimed under is the
saved one (`RunIsApproved`), which needs every edit to refuse a busy ship; the
service that has not failed holds a run exactly while a worker has it
(`RunsSettled`) and every run ends unless the service fails and is never restarted
(`RunsEnd`); the first disruptive step lies in the window whatever the run
waited for (`BegunInWindow`); downtime and resumption need consent and a
finished utility (`DowntimeConsented`, `ResumeEarned`); the steps end in the
state the claim made the desired one (`OutcomeDesired`).

`RunsSettled`, `DowntimeConsented` and `OutcomeDesired` are proved and not in the
run.

Bounds: three times, so that one calendar has two slots and the clock can be
before, between and after them; window 0, the narrowest, in which every delay is
a miss; two saves of the policy and two configurations, so that an approval can
go stale; one owner who loses and regains access. `RunsEnd` is checked under weak
fairness of the worker (it has deadlines) and of the restart of a service that
died. That somebody restarts a failed one is not assumed but a premise of the
property (`[]<>(mode # "failed")`): after a claim whose acknowledgment was lost, or
a worker whose save failed, the run stays claimed until then, and no slot of any
ship is handled.

`RoutinesProofs` proves the invariant `IInv` inductive, one lemma per action,
and from it every property of the run except liveness. `Progress` ties the
worker's place to the journal, `Consent` ties the run's flags to the desired
state, and `History` says that no handled slot is later than the last one saved,
which with `Due` gives `SlotsForward`.

## ProjectLaunch: the first launch of a project network

A project network is a bridge, an anchor container that owns its network
namespace, and members that run in that namespace. Four kinds of tasks make it,
each one operation with its own table of journals: *prepare* (bridge and stopped
anchor), *start* (the anchor), *storage* (an empty mount per member) and
*launch* (workspace, container and process of one member).

| state | code |
| --- | --- |
| `status`, `stage` | the row of each task's operation and the phase of its journal; -1 before a journal is bound, as in the receipts that are accepted first |
| `space`, `peers` | the namespace the start's journal recorded; the members a launch's journal recorded as already there |
| `mode`, `at`, `seen` | the service, where each task's worker is, and the namespace it saw last |
| `made` | how often the engine carried out the call of a stage |
| `ns`, `spaces`, `joined`, `alive` | the running anchor's namespace, and the members' processes |

`Queue…` are the handlers with their admission (`…Admissible`): every row of the
four tables is validated first, nothing else is pending and the prerequisites
have succeeded. A worker waits for the work gate (`Acquire`), binds its journal
(`Begin…`), and from then on alternates a look at the engine (`Look…`), a commit
of the next phase (`Commit…`) and, at a phase that announces one, a call
(`CreateResource`, `StartAnchor`, `CreateMount`, `PrepareWorkspace`,
`CreateMember`, `StartMember`). A call may fail, answer, take effect without an
answer or answer with an error after it took effect; nothing retries it.
`Interrupt` ends an operation whose worker failed, `InterruptFails` is the case
that even this cannot be saved, `Crash` and `Restart` are the service with its
reconciliation. The anchor may end and return in another namespace, and a member
may end, at any time.

Left out: revisions (one project at one revision), names (an identity is the
call that made the object), that the engine refuses a second object of one name
(the journals must do without it), the update fence, and retirement and
recovery, which refuse all of this.

Properties: `JournalsValid` (the rows stay ones the four validators admit: a row
they refuse would stop every operation and the service itself),
`DispatchedOnce` (a call takes effect at most once, only when announced, and
what is recorded exists), `ImplementsFormation` (all of it implements the
abstract `NetworkFormation`: one anchor in one recorded namespace, and members
that join it one by one, each once, on its own mount, started in that namespace
and knowing exactly the members that joined before it), `OperationsEnd`.
`LaunchedTogether`, which says it of a state, is proved on its own.

The run `project_launch` has two members and two namespaces: two members are
needed for one launch to see another, the second namespace is the anchor coming
back. `MaxMade = 2` only bounds the counter of what must not happen twice.
Workers are weakly fair (each has a deadline), and so is the restart of the
service.

`ProjectLaunchProofs` proves the three safety properties and the refinement for
any members and any number of namespaces. `IInv` adds where a worker stands with its row and its
last call (`WorkerInv`), that the gate admits one (`GateInv`), the order of
launches (`PeersInv`) and what was seen before the last commit (`SeenInv`).
Every step of a worker changes one task, so there is one lemma for what a step
keeps of the other rows and one per step for its own. `OperationsEnd` is only
model-checked.

In the refinement a task is done when its operation has succeeded, so only the
last commit of a task shows; every other step (`Unshown`) maps to a stutter. The
core is `KnowsExactly`: the peers a launch recorded when it began are exactly the
members launched when it ends. Nothing was launched in between, because of two
launches one had to be done when the other was asked for (`PeersInv`), and
whoever is recorded had reached its last phase (`LaunchBinding`). That the
namespace is still the recorded one comes from the last look (`SeenInv`).

## MemberLifecycle: members of a running project network

A member's pier passes from container to container. A *stop* signals the current
container, an exit observation says how it ended, a *retirement* removes it, and
a *resume* creates and starts the next one over the same pier. A *binding* says
which container of every member is current; the store keeps no history of
bindings but derives it from the resumes that succeeded, and readiness receipts
name the binding they were taken under.

| state | code |
| --- | --- |
| `status`, `stage` | operation and journal phase of each stop, retirement and resume, by container |
| `bind`, `before` | the binding a stop was accepted under, and the peers that ran before its signal |
| `exits`, `ready` | exit and readiness receipts |
| `mode`, `at`, `obs` | the service, where each worker is, and the pending observation |
| `calls`, `proc`, `code` | calls the engine has not carried out, the state of each container, how its process ended |

`AcceptStop`, `AcceptRetire`, `AcceptResume` and `AskInitial`, `AskResumed`,
`AskCurrent`, `AskExit` are the handlers, each with the validation of all rows
(`StopsValid`, `ExitsValid`, `RetirementsValid`, `ResumesValid`). A worker
begins, looks, issues its call and commits; `Land` is the engine carrying a call
out, at any later time, also after the worker was interrupted and its operation
ended. `Crash` and `Restart` are the service; a process may end by itself at any
time.

Left out: that a look and the commit of what it saw are two steps (nothing reads
the row in between), more than one pending observation, the anchor ending, a
service that cannot save an interruption (it dies), expansion and recovery.

Properties: `JournalsValid` (the rows stay valid and the derived bindings stay
one chain), `CleanHandover` (a pier has a next container only when every earlier
one ended cleanly and is removed, however late a call lands) and
`UncertainFences` (nothing is asked of the engine while another call's outcome
is unknown).

The run `member_lifecycle` has two members with two containers each, one
replacement of each: enough for stale receipts of the first binding, for two
replacements in either order and for a call that lands during the other member's
operation. The second container of a pier is stopped and observed but not
retired (`MaxGen` bounds retirement as it bounds resumes); the theorems are for
every `MaxGen`.

No liveness is stated, because there is none to state: an interrupted stop,
retirement or resume is left for coordinated recovery by design. The model shows
two such states that a reader of the code may not expect: a stop accepted for B
after A was retired and not yet resumed fails its first look (A is not
accounted for) and then blocks A's resume; and when A and then B have been
stopped, A can no longer be retired, because its retirement expects every other
member as the stop of A saw it.

`MemberLifecycleProofs` proves the three properties for any finite set of
members and any number of containers. `IInv` adds to the types and the rows that
the derived bindings are one chain whose end bounds every other (`ChainInv`:
this is what keeps a resume from branching the history), where a worker stands
with its row and its call (`WorkerInv`), that a job under way, or a removal or
resume of unknown outcome, is the only one and is of a current container
(`AloneInv`: this is what makes a call that lands late land on the container it
was meant for), and which containers of a pier exist (`ProcInv`). Most steps
write one row: one lemma per journal says what leaves it valid, `RowStep` joins
them, and only the end of a resume (`ResumedInv`) makes the chain longer.

It also proves `ImplementsSuccession`: what the engine does over a pier is one
run of the abstract `PierSuccession`, where a container is created only after the
one before was removed, started only once created, and removed only after a
clean end. `CleanHandover` is what that means for a state; the refinement adds
that no late call creates or starts a container twice or removes one that ended
badly. Besides `IInv` it needs `CallsDue`: while a resume's call is due, the next
container is still as the look before the call saw it, because nothing else may
be asked of the engine then (`AloneInv`) and a late signal changes no container
by itself. The instance of `member_lifecycle` satisfies both; they are left out of
the run, which they would make much longer.

## HostActivation: replacing the management service

The installer replaces the executable of a host's manager while ships run. It
retains both generations, has the running manager close its own admission with a
durable fence, stops it, publishes the new executable, starts it, verifies what
runs, and has it open admission again. A journal is saved before every step; the
same command run again goes on from it. If the new generation does not come up
and the old one reads its schema, the old one is put back. A historical manager
(schema 19) knows no fence: for it the *bridge* takes the runtime's lock and
commits the migration and the fence in one transaction.

| state | code |
| --- | --- |
| `journal`, `installed`, `retained`, `enabled` | `management-activation.json`, the published executable, the generations directory, the unit's enablement |
| `schema`, `fence`, `work` | the manager's database: its version, the row of `management_update.go`, accepted work that is not finished |
| `unit`, `exe` | the unit as `serviceEvidence` and `managementStopped` see it, and what the active manager was started from |
| `failed` | the active manager's `r.failed`: a save or a poll failed, and it refuses every request from then on |
| `pc`, `mem`, `retry` | the installer's step and its copy of the journal; `retry` when a run finds the stage `starting` |

`Resume`, `Prepare`, `BridgeVerify` and `BridgeLock` begin a run; `Online` is
`activateManagement` and what it calls, one action per save, look or command;
`Inspect` and `Migrate` are the bridge's own. `saveActivation` sets the stage in
the copy before it writes, so a failed save changes which recovery the run may
still take; `SaveAs` and `Save` are two steps for that reason. Every command and
save may lose its answer or fail, the installer may end anywhere, and a save that
failed may have replaced the file. Beside it the manager opens its database
(which migrates it, and settles what an earlier run left), serves and finishes
work, has a save or a poll fail (`ManagerFails`; also the save of an acquire or a
release), exits, is restarted up to its start limit, is started or stopped by hand,
and the host reboots into whatever is installed. `RunnerJournal` has the fence
from the manager's side; here it is what the installer can rely on.

Left out: accounts, grants, unit files and package hooks; the setup lock makes
runs exclude each other, so there is one; two looks at the service around an
answer are one step.

Properties:

* `WorkUntouched`: what an upgrade stops is idle with admission closed, though
  the fence was checked steps earlier and the manager may have been replaced or
  restarted since; the bridge migrates only state no manager uses.
* `FenceOwned`: a held fence belongs to an unfinished activation whose journal
  has its token, through lost answers and failed saves.
* `Recoverable`: wherever the installer ends, the installed generation or the
  one the journal is heading for reads the state.
* `UpgradeSettles`: an upgrade ends with admission open if its command is
  repeated and no manager stays failed.

Repeating the command is not enough by itself. A manager whose `failed` flag is
set answers neither GET nor acquire nor release (`management_update.go:77`), its
process stays up, and the installer, which never restarts a live manager
(`ensureGenerationRunning`, docs/management-offline-upgrade.md:99-112) nor stops
one that does not prove its fence (`verifyActivationFence`), times out or refuses
every time, at any stage at which a manager is asked: `prepared`, `quiesced`,
`stopping`, `verified`, `rollback`, `rollback-verified`. At `starting` a compatible
previous generation may not be put back either, since the running one cannot be
stopped. Somebody has to restart the unit; after that the same command goes on.

`WorkUntouched` and `UpgradeSettles` are about upgrades: a first installation has
no manager to fence. Two things can then happen that the model shows and the code
accepts. A unit started by hand between the look and the stop is stopped with its
work. And a run that ends after it saved `stopping` on a retry, beside a unit that
then runs unfenced, leaves a journal with which every further run refuses
("activation fence is not held") until the user stops the unit.

The run `host_upgrade` has a historical generation, one that knows fences and two
of one later schema, so that a rollback is possible between the last two and
impossible across schemas; three activations (a bridge, an upgrade and one after
it, or a retry of one rolled back), four faults (a manager that fails and is
stopped by hand, a further one in the recovery, and one more) and two pieces of
work (one before, one after a fence). The host may come to rest with these bounds used up, so deadlock is not
checked.

Fairness: the manager and the installer run (`ManagerOpens`, `ManagerRefuses`,
`Step`, and `FinishWork` in a manager that has not failed), and whoever upgrades
repeats the command (`Rerun`). Nothing is assumed to end a failed manager: that
none stays failed (`[]<>~failed`) is a premise of `UpgradeSettles`. The
operator's part of the bridge, stopping the unit before each run, is strongly
fair (`Procedure`): a host that reboots after the bridge published the new
executable and before it saved `starting` comes up with a fenced manager, and the
command succeeds only when that unit was stopped again.

`HostActivationProofs` proves the three safety properties, and two more, for any
generations, schemas and bounds. `IInv` adds what a journal says of the host at each stage
(`Says`), that this also holds of the copy a running installer works with, which
differs from the journal only in its stage while a save is due (`CopyOf`), at
which stages each step is reached (`Reached`), that both generations of a journal
are retained, and what the database implies of whoever opened it (`Opened`).
There is one lemma per action, with one step per part of the invariant.

The fourth, `ImplementsUpgrade`, is the promise to whoever uses the host, in the
abstract module `ManagerUpgrade`: it extends `UpdateFence`, which the runner is
shown to implement from its side, by the executable, which is replaced only while
admission is closed. Serving, closing and opening map to the manager's own steps,
to `Acquire` and `Migrate`, and to `Release`; what the installer does in between
is a stutter, and so is a fence that is asked for again by its activation. The
mapping needs one more invariant, `Numbered`: a journal always has the number of
its activation, so a fence that is open was not opened under that number unless
its journal says so. `host_upgrade` does not check the refinement; the same
instance satisfies it.

The fifth, `Unhindered`, says that the installer's own checks do not stand in its
way: with a manager that has not failed and is not just being started,
`verifyActivationFence` finds
nothing running or one of the two generations with this activation's fence held,
the generation to install is retained, an interrupted migration is found either
not begun or complete, and the fence is the installer's to release. It needs two
invariants beside `IInv`: which generation runs (`RunsKnown`; it need not be the
installed one, since the user may start the old manager between the stop and the
installation) and what an unfenced bridge says of the state (`BridgeKnown`). It
is the safety half of `UpgradeSettles`, which is only model-checked. The instance
of `host_upgrade` satisfies `Unhindered` and both invariants.

## What is not modelled

* **In the modelled components.** Registration, ports, import, deletion and the
  project tables of the journal (which `ProjectLaunch` and `MemberLifecycle` have
  on their own); provisioning and comets in the driver; disk space. In a move:
  revisions (a fenced instance cannot be configured), deletion or import of a
  ship during or after its move, ports, the work gate. Of pruning: the
  qualification of the deletion engine on disposable ships. Of project networks:
  expansion, recovery generations and what the anchor's proxy does. Of the
  installer: accounts, grants, units, package hooks and the isolated execution of
  a historical executable.
* **Whole components.** `PROJECT.json` lists every component with its reason.
  Those with states worth checking are in the plan above; the rest are pure
  I/O, rendering, parsing, or configuration of other software.
* **Out of the prover's reach.** Liveness and enabledness are checked with TLC
  only.
