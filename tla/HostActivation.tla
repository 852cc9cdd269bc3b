--------------------------- MODULE HostActivation ---------------------------
(***************************************************************************)
(* The upgrade of a host's management service                              *)
(* (internal/hostinstall/activation.go, offline.go,                        *)
(* internal/managed/management_update.go, offline_update.go).              *)
(*                                                                         *)
(* The installer replaces the executable of the service: it retains the    *)
(* old and the new generation, closes the manager's admission with a       *)
(* durable fence, stops it, publishes the new generation, starts it,       *)
(* verifies what runs, and opens admission again; a compatible old         *)
(* generation is put back when the new one does not come up.  Historical   *)
(* managers know no fence: their bridge migrates the stopped state under   *)
(* the runtime's own lock.  A journal is saved before every step, and the  *)
(* same command run again goes on from it.  Meanwhile the manager serves   *)
(* work, fails and is restarted by the service manager, the installer may  *)
(* end at any step, commands and saves lose their answers, and the host    *)
(* reboots.                                                                *)
(*                                                                         *)
(* Simplifications: one owner; accounts, grants, units and package hooks   *)
(* are left out; a token is the number of its activation; an answer that   *)
(* is bracketed by two looks at the service is one step; a save that was   *)
(* reported failed keeps the outcome it had, also over a reboot.           *)
(* A definition marked "mutant" is a bug this code could have; no run uses *)
(* it.                                                                     *)
(***************************************************************************)
EXTENDS Integers, FiniteSets

CONSTANTS Generation,   \* executables of the manager
          Schema,       \* the state schema each writes; it reads older ones
          None,         \* no executable
          MaxTokens,    \* bound: activations
          MaxFaults,    \* bound: failures, deaths, reboots, lost answers
          MaxWork       \* bound: pieces of work that are accepted

\* The last schema whose managers know no fence (offline.go).
Historical == 19

ASSUME ActivationAssumption ==
    /\ None \notin Generation
    /\ Schema \in [Generation -> Nat] /\ \A g \in Generation : Schema[g] >= Historical
    /\ MaxTokens \in Nat /\ MaxFaults \in Nat /\ MaxWork \in Nat

VARIABLES
    \* durable
    journal,    \* management-activation.json
    installed,  \* the executable the unit runs
    retained,   \* generations kept with their contracts
    schema,     \* of the manager's database, 0 before there is one
    fence,      \* its admission fence
    work,       \* it holds accepted work that is not finished
    enabled,    \* the unit starts with the host
    \* the service
    unit,       \* "inactive", "starting" (also between restarts), "active"
    exe,        \* what the active manager was started from
    failed,     \* a save of it failed: it runs on and refuses everything
    \* the installer
    pc, mem,    \* its step and its copy of the journal
    retry,      \* it finishes a start that an earlier run made
    \* counters
    tokens, faults, works

state     == <<schema, fence, work>>
disk      == <<journal, installed, retained, enabled, state>>
service   == <<unit, exe, failed>>
installer == <<pc, mem, retry>>
vars      == <<disk, service, installer, tokens, faults, works>>

-----------------------------------------------------------------------------
Stage == {"none", "prepared", "quiesced", "stopping", "starting", "verified",
          "complete", "rollback", "rollback-verified", "rolled-back",
          "offline-prepared", "offline-fenced"}
Settled == {"none", "complete", "rolled-back"}
Backward == {"rollback", "rollback-verified", "rolled-back"}
Place == {"idle", "retain", "save", "activate", "ensure", "await", "acquire",
          "fence", "stop", "stopped", "install", "start", "release",
          "locked", "migrate"}

Journal == [stage : Stage, token : 0 .. MaxTokens, offline : BOOLEAN,
            prev : Generation \cup {None}, target : Generation \cup {None}]
NoJournal == [stage |-> "none", token |-> 0, offline |-> FALSE,
              prev |-> None, target |-> None]

TypeOK ==
    /\ journal \in Journal /\ mem \in Journal
    /\ installed \in Generation \cup {None} /\ retained \subseteq Generation
    /\ schema \in Nat /\ fence \in [token : 0 .. MaxTokens, held : BOOLEAN]
    /\ work \in BOOLEAN /\ enabled \in BOOLEAN
    /\ unit \in {"inactive", "starting", "active"}
    /\ exe \in Generation \cup {None} /\ (unit = "active" <=> exe # None)
    /\ failed \in BOOLEAN /\ (failed => unit = "active")
    /\ pc \in Place /\ retry \in BOOLEAN
    /\ tokens \in 0 .. MaxTokens /\ faults \in 0 .. MaxFaults
    /\ works \in 0 .. MaxWork

\* A host that has never been set up, or one with a historical manager.
Init ==
    /\ journal = NoJournal /\ retained = {}
    /\ fence = [token |-> 0, held |-> FALSE] /\ work = FALSE
    /\ \/ installed = None /\ schema = 0 /\ enabled = FALSE
       \/ /\ installed \in {g \in Generation : Schema[g] = Historical}
          /\ schema = Historical /\ enabled = TRUE
    /\ unit = "inactive" /\ exe = None /\ failed = FALSE
    /\ pc = "idle" /\ mem = NoJournal /\ retry = FALSE
    /\ tokens = 0 /\ faults = 0 /\ works = 0

-----------------------------------------------------------------------------
Fences(g) == Schema[g] > Historical
Accepts(g, s) == s <= Schema[g]

Unfinished(j) == j.stage \notin Settled
\* The generation a journal is heading for, and the one its stage expects.
Goal(j)   == IF j.stage \in Backward THEN j.prev ELSE j.target
Waited(j) == IF j.stage = "prepared" THEN j.prev ELSE Goal(j)

\* The bridge holds the runtime's lock until it starts the new generation.
Locked ==
    /\ mem.offline
    /\ \/ pc \in {"locked", "retain", "migrate", "stopped", "install"}
       \/ pc = "save" /\ mem.stage \in {"offline-prepared", "offline-fenced", "starting"}

\* One whose save failed runs on and refuses every request.
Serves == unit = "active" /\ ~failed

\* The active manager answers the installer and is what it expects.
Answers(g) == Serves /\ exe = g /\ Fences(g)

Gone == exe' = None /\ failed' = FALSE

Fault == faults < MaxFaults /\ faults' = faults + 1
NoFault == UNCHANGED faults

-----------------------------------------------------------------------------
(* The manager and its host *)

CanOpen == installed # None /\ Accepts(installed, schema) /\ ~Locked

\* Opening the database migrates it and settles what an earlier run left.
ManagerOpens ==
    /\ unit = "starting" /\ CanOpen
    /\ schema' = Schema[installed] /\ work' = FALSE
    /\ \/ unit' = "active" /\ exe' = installed /\ NoFault
       \/ Fault /\ unit' \in {"inactive", "starting"} /\ UNCHANGED exe
    /\ UNCHANGED <<journal, installed, retained, enabled, fence, failed, installer,
                   tokens, works>>

\* Restarts of a manager that cannot open its state end at the start limit.
ManagerRefuses ==
    /\ unit = "starting" /\ (CanOpen => faults < MaxFaults)
    /\ unit' = "inactive" /\ faults' = (IF CanOpen THEN faults + 1 ELSE faults)
    /\ UNCHANGED <<disk, exe, failed, installer, tokens, works>>

ManagerExits ==
    /\ unit = "active" /\ Fault
    /\ unit' \in {"inactive", "starting"} /\ Gone
    /\ UNCHANGED <<disk, installer, tokens, works>>

\* A save or a poll fails; the process stays, until somebody restarts it.
ManagerFails ==
    /\ Serves /\ Fault
    /\ failed' = TRUE
    /\ UNCHANGED <<disk, unit, exe, installer, tokens, works>>

\* Every admission asks the fence; a historical manager does not know it.
Admit ==
    /\ Serves /\ (Fences(exe) => ~fence.held)
    /\ works < MaxWork /\ works' = works + 1 /\ work' = TRUE
    /\ UNCHANGED <<journal, installed, retained, enabled, schema, fence,
                   service, installer, tokens, faults>>

FinishWork ==
    /\ unit = "active" /\ work /\ work' = FALSE
    /\ UNCHANGED <<journal, installed, retained, enabled, schema, fence,
                   service, installer, tokens, faults, works>>

\* The user starts or stops the unit by hand, at any moment.
ByHand ==
    /\ Fault
    /\ \/ /\ unit = "inactive" /\ installed # None /\ unit' = "starting"
          /\ UNCHANGED <<exe, failed>>
       \/ unit # "inactive" /\ unit' = "inactive" /\ Gone
    /\ UNCHANGED <<disk, installer, tokens, works>>

\* The bridge asks its operator to let work settle, starting the old manager
\* for it if need be, and to stop the unit before the command is run (again).
Procedure ==
    /\ pc = "idle" /\ NoFault
    /\ journal.stage = "none" \/ journal.stage \in {"offline-prepared", "offline-fenced"}
    /\ \/ unit # "inactive" /\ ~work /\ unit' = "inactive" /\ Gone
       \/ /\ unit = "inactive" /\ installed # None /\ unit' = "starting"
          /\ journal.stage = "none" \/ work
          /\ UNCHANGED <<exe, failed>>
    /\ UNCHANGED <<disk, installer, tokens, works>>

GiveUp == pc' = "idle" /\ mem' = NoJournal /\ retry' = FALSE

Reboot ==
    /\ Fault /\ GiveUp
    /\ unit' = (IF enabled THEN "starting" ELSE "inactive") /\ Gone
    /\ UNCHANGED <<disk, tokens, works>>

\* The installer is killed, or its context ends.
Die ==
    /\ pc # "idle" /\ Fault /\ GiveUp
    /\ UNCHANGED <<disk, service, tokens, works>>

-----------------------------------------------------------------------------
(* The journal *)

\* The stage is set in the copy; the save is the next step.
SaveAs(s) == mem' = [mem EXCEPT !.stage = s] /\ pc' = "save" /\ retry' = FALSE

AfterSave(s) ==
    CASE s = "prepared"                          -> "activate"
      [] s \in {"quiesced", "rollback"}          -> "fence"
      [] s = "stopping"                          -> "stop"
      [] s = "starting"                          -> "start"
      [] s \in {"verified", "rollback-verified"} -> "release"
      [] s = "offline-prepared"                  -> "migrate"
      [] s = "offline-fenced"                    -> "stopped"
      [] OTHER                                   -> "idle"

\* A save that fails may have replaced the file.
Save ==
    /\ pc = "save"
    /\ \/ journal' = mem /\ NoFault
          /\ IF mem.stage \in Settled THEN GiveUp
             ELSE pc' = AfterSave(mem.stage) /\ UNCHANGED <<mem, retry>>
       \/ Fault /\ journal' \in {journal, mem} /\ GiveUp
    /\ UNCHANGED <<installed, retained, enabled, state, service, tokens, works>>

Retain ==
    /\ pc = "retain"
    /\ \/ /\ retained' = retained \cup ({mem.prev, mem.target} \ {None})
          /\ NoFault /\ pc' = "save" /\ UNCHANGED <<mem, retry>>
       \/ Fault /\ retained' = retained \cup ({mem.prev} \ {None}) /\ GiveUp
    /\ UNCHANGED <<journal, installed, enabled, state, service, tokens, works>>

-----------------------------------------------------------------------------
(* An online run *)

Kept(j) == {j.prev, j.target} \ {None} \subseteq retained

\* An unfinished activation, or a finished one whose manager may be gone.
Resume(b) ==
    /\ pc = "idle" /\ journal.target = b /\ journal.stage # "none" /\ Kept(journal)
    /\ journal.offline => journal.stage = "complete"
    /\ journal.stage = "rolled-back" => unit = "inactive"
    /\ pc' = "activate" /\ mem' = journal /\ retry' = FALSE
    /\ UNCHANGED <<disk, service, tokens, faults, works>>

New(b, s, offline) ==
    /\ tokens < MaxTokens /\ tokens' = tokens + 1
    /\ pc' = "retain"
    /\ mem' = [stage |-> s, token |-> tokens + 1, offline |-> offline,
               prev |-> installed, target |-> b]

\* A manager that is idle and unfenced is asked what it can read.
Prepare(b) ==
    /\ pc = "idle" /\ ~Unfinished(journal)
    /\ journal.stage = "complete" => journal.target # b
    /\ journal.stage = "rolled-back" /\ journal.target = b => unit = "active"
    /\ IF installed = None THEN unit = "inactive"
       ELSE Answers(installed) /\ ~work /\ ~fence.held /\ Accepts(b, Schema[exe])
    /\ New(b, "prepared", FALSE)
    /\ UNCHANGED <<disk, service, retry, faults, works>>

\* Mutant: any earlier generation is put back.
Reversible_Any(j) == j.prev # None

\* The previous generation can read whatever the target may have written.
Reversible(j) == j.prev # None /\ Accepts(j.prev, Schema[j.target])

Activate ==
    /\ pc = "activate"
    /\ \/ mem.stage \in {"complete", "verified"} /\ pc' = "ensure" /\ UNCHANGED <<mem, retry>>
       \/ /\ mem.stage \in {"rollback-verified", "rolled-back"}
          /\ IF Reversible(mem) THEN pc' = "ensure" /\ UNCHANGED <<mem, retry>> ELSE GiveUp
       \/ mem.stage = "starting" /\ pc' = "await" /\ retry' = TRUE /\ UNCHANGED mem
       \/ /\ mem.stage \in {"rollback", "quiesced", "stopping"}
          /\ pc' = "fence" /\ UNCHANGED <<mem, retry>>
       \/ /\ mem.stage = "prepared"
          /\ IF mem.prev = None THEN SaveAs("quiesced")
                ELSE pc' = "ensure" /\ UNCHANGED <<mem, retry>>
    /\ UNCHANGED <<disk, service, tokens, faults, works>>

\* A generation that exited is started, never one that runs restarted.
Ensure ==
    /\ pc = "ensure"
    /\ \/ /\ installed = Waited(mem) /\ Waited(mem) \in retained /\ NoFault
          /\ pc' = "await" /\ UNCHANGED <<mem, retry>>
          /\ unit' = (IF unit = "inactive" THEN "starting" ELSE unit)
       \/ /\ installed # Waited(mem) \/ unit = "starting"
          /\ NoFault /\ GiveUp /\ UNCHANGED unit
       \/ Fault /\ GiveUp /\ unit' \in {unit, IF unit = "inactive" THEN "starting" ELSE unit}
    /\ UNCHANGED <<disk, exe, failed, tokens, works>>

\* What follows when the expected generation was not verified: the forward
\* path is taken again, or the old generation put back, or the run ends.
Unverified ==
    \/ retry /\ pc' = "fence" /\ retry' = FALSE /\ UNCHANGED mem
    \/ ~retry /\ mem.stage = "starting" /\ ~mem.offline /\ Reversible(mem) /\ SaveAs("rollback")
    \/ /\ ~retry /\ (mem.stage = "starting" /\ ~mem.offline => ~Reversible(mem))
       /\ GiveUp

Released == {"verified", "rollback-verified", "complete", "rolled-back"}

\* Mutant: a fence that was released already is not recognized.
FenceKept_Held ==
    mem.prev # None \/ mem.stage \in Released => fence.token = mem.token /\ fence.held

\* The fence is still this activation's, and held unless it may be released.
FenceKept ==
    mem.prev # None \/ mem.stage \in Released =>
        fence.token = mem.token /\ (fence.held \/ mem.stage \in Released)

\* Mutant: the activation is settled before its fence is released.
VerifiedStage_Final == IF mem.stage \in Backward THEN "rolled-back" ELSE "complete"

VerifiedStage == IF mem.stage \in Backward THEN "rollback-verified" ELSE "verified"

\* Half a minute is enough for a manager that is being started.
TimesOut == ~Answers(Waited(mem)) /\ unit # "starting"

Await ==
    /\ pc = "await"
    /\ \/ /\ Answers(Waited(mem)) /\ NoFault
          /\ \/ mem.stage = "prepared" /\ pc' = "acquire" /\ UNCHANGED <<mem, retry>>
             \/ mem.stage \in Settled /\ GiveUp
             \/ /\ mem.stage \notin Settled \cup {"prepared"}
                /\ IF ~FenceKept THEN Unverified
                   ELSE IF mem.prev = None /\ ~fence.held /\ fence.token # mem.token
                        THEN pc' = "acquire" /\ UNCHANGED <<mem, retry>>
                   ELSE SaveAs(VerifiedStage)
       \/ Unverified /\ IF TimesOut THEN NoFault ELSE Fault
    /\ UNCHANGED <<disk, service, tokens, works>>

\* Mutant: the manager closes its admission beside work.
Acquirable_Busy ==
    /\ Answers(Waited(mem))
    /\ fence.held <=> fence.token = mem.token

\* The manager refuses while it works, another token, and a token released.
Acquirable ==
    /\ Answers(Waited(mem)) /\ ~work
    /\ fence.held <=> fence.token = mem.token

\* A request whose answer is lost may have been committed, and may have failed
\* the manager's save.
Acquire ==
    /\ pc = "acquire"
    /\ \/ /\ Acquirable /\ fence' = [token |-> mem.token, held |-> TRUE]
          /\ \/ NoFault /\ SaveAs(IF mem.stage = "prepared" THEN "quiesced" ELSE "verified")
                /\ UNCHANGED failed
             \/ Fault /\ Unverified /\ failed' \in BOOLEAN
       \/ /\ Unverified /\ UNCHANGED fence
          /\ IF Acquirable THEN Fault /\ failed' \in BOOLEAN ELSE NoFault /\ UNCHANGED failed
    /\ UNCHANGED <<journal, installed, retained, enabled, schema, work,
                   unit, exe, tokens, works>>

\* verifyActivationFence: nothing runs, or what runs has admission closed.
FenceVerified ==
    \/ unit = "inactive"
    \/ /\ exe \in {mem.prev, mem.target} /\ Answers(exe)
       /\ fence.held /\ fence.token = mem.token

CheckFence ==
    /\ pc = "fence"
    /\ IF ~FenceVerified THEN GiveUp
       ELSE IF mem.stage = "rollback" THEN pc' = "stop" /\ UNCHANGED <<mem, retry>>
       ELSE SaveAs("stopping")
    /\ UNCHANGED <<disk, service, tokens, faults, works>>

Stop ==
    /\ pc = "stop"
    /\ \/ /\ unit' = "inactive" /\ Gone
          /\ \/ NoFault /\ pc' = "stopped" /\ UNCHANGED <<mem, retry>>
             \/ Fault /\ GiveUp
       \/ Fault /\ GiveUp /\ UNCHANGED service
    /\ UNCHANGED <<disk, tokens, works>>

CheckStopped ==
    /\ pc = "stopped"
    /\ IF unit = "inactive"
       THEN /\ pc' = (IF mem.stage \in {"verified", "complete"} THEN "start" ELSE "install")
            /\ UNCHANGED <<mem, retry>>
       ELSE GiveUp
    /\ UNCHANGED <<disk, service, tokens, faults, works>>

Install ==
    /\ pc = "install"
    /\ \/ /\ Goal(mem) \in retained /\ installed' = Goal(mem) /\ NoFault
          /\ IF mem.stage = "rollback" THEN pc' = "start" /\ UNCHANGED <<mem, retry>>
             ELSE SaveAs("starting")
       \/ Fault /\ GiveUp /\ installed' \in {installed, Goal(mem)}
    /\ UNCHANGED <<journal, retained, enabled, state, service, tokens, works>>

\* Online, an unacknowledged start is handled like an unverified generation.
StartFailed == IF mem.offline THEN GiveUp ELSE Unverified

\* A verified bridge is started without enabling the unit again.
Start ==
    /\ pc = "start"
    /\ \/ /\ enabled' = (enabled \/ mem.stage \notin Released)
          /\ unit' = (IF unit = "inactive" THEN "starting" ELSE unit)
          /\ \/ NoFault /\ pc' = "await" /\ UNCHANGED <<mem, retry>>
             \/ Fault /\ StartFailed
       \/ Fault /\ StartFailed /\ UNCHANGED <<enabled, unit>>
    /\ UNCHANGED <<journal, installed, retained, state, exe, failed, tokens, works>>

Release ==
    /\ pc = "release"
    /\ \/ /\ Answers(Waited(mem)) /\ fence.token = mem.token
          /\ fence' = [fence EXCEPT !.held = FALSE]
          /\ \/ NoFault /\ SaveAs(IF mem.stage = "verified" THEN "complete" ELSE "rolled-back")
                /\ UNCHANGED failed
             \/ Fault /\ GiveUp /\ failed' \in BOOLEAN
       \/ /\ ~(Answers(Waited(mem)) /\ fence.token = mem.token)
          /\ NoFault /\ GiveUp /\ UNCHANGED <<fence, failed>>
    /\ UNCHANGED <<journal, installed, retained, enabled, schema, work,
                   unit, exe, tokens, works>>

-----------------------------------------------------------------------------
(* The bridge from a historical manager, which its operator has stopped *)

\* A manager that an earlier run started may run already.
BridgeVerify(b) ==
    /\ pc = "idle" /\ unit = "active" /\ journal.target = b /\ Kept(journal)
    /\ \/ journal.stage = "complete"
       \/ journal.offline /\ journal.stage \in {"starting", "verified"}
    /\ pc' = "await" /\ mem' = journal /\ retry' = FALSE
    /\ UNCHANGED <<disk, service, tokens, faults, works>>

BridgeLock(b) ==
    /\ pc = "idle" /\ unit = "inactive" /\ Fences(b)
    /\ \/ /\ journal.stage = "none" /\ mem' = [NoJournal EXCEPT !.offline = TRUE, !.target = b]
       \/ /\ journal.offline /\ journal.target = b /\ Kept(journal) /\ mem' = journal
    /\ pc' = "locked" /\ retry' = FALSE
    /\ UNCHANGED <<disk, service, tokens, faults, works>>

\* The stopped state is looked at as its owner, nothing is changed.
Inspect ==
    /\ pc = "locked"
    /\ \/ /\ mem.stage = "none"
          /\ IF /\ installed # None /\ Schema[installed] = Historical
                /\ schema = Historical /\ fence.token = 0 /\ ~work
             THEN New(mem.target, "offline-prepared", TRUE) /\ UNCHANGED retry
             ELSE GiveUp /\ UNCHANGED tokens
       \/ /\ mem.stage \in {"offline-prepared", "offline-fenced", "starting"}
          /\ IF /\ schema \in {Historical, Schema[mem.target]} /\ ~work
                /\ installed \in {mem.prev, mem.target}
                /\ schema = Historical => mem.stage = "offline-prepared"
             THEN pc' = "migrate" /\ UNCHANGED <<mem, retry>> ELSE GiveUp
          /\ UNCHANGED tokens
       \/ /\ mem.stage \in {"verified", "complete"}
          /\ IF /\ installed = mem.target /\ schema = Schema[mem.target]
                /\ fence.token = mem.token
                /\ fence.held => ~work /\ mem.stage = "verified"
             THEN pc' = "stopped" /\ UNCHANGED <<mem, retry>> ELSE GiveUp
          /\ UNCHANGED tokens
    /\ UNCHANGED <<disk, service, faults, works>>

\* The migration and the fence are one transaction; a continuation needs the
\* held fence of its journal.
Continued == IF schema = Historical THEN fence.token = 0
             ELSE fence.held /\ fence.token = mem.token

Migrate ==
    /\ pc = "migrate"
    /\ \/ /\ Continued /\ ~work
          /\ schema' = Schema[mem.target]
          /\ fence' = [token |-> mem.token, held |-> TRUE]
          /\ \/ NoFault /\ SaveAs("offline-fenced")
             \/ Fault /\ GiveUp
       \/ /\ IF Continued /\ ~work THEN Fault ELSE NoFault
          /\ GiveUp /\ UNCHANGED <<schema, fence>>
    /\ UNCHANGED <<journal, installed, retained, enabled, work, service, tokens, works>>

-----------------------------------------------------------------------------
Manager == ManagerOpens \/ ManagerRefuses \/ ManagerExits \/ ManagerFails \/ Admit
           \/ FinishWork
World   == Manager \/ ByHand \/ Procedure \/ Reboot \/ Die

Online == Retain \/ Save \/ Activate \/ Ensure \/ Await \/ Acquire \/ CheckFence
          \/ Stop \/ CheckStopped \/ Install \/ Start \/ Release
Step   == Online \/ Inspect \/ Migrate
\* The command that goes on with an unfinished activation.
Rerun  == Unfinished(journal) /\ \E b \in Generation : Resume(b) \/ BridgeVerify(b) \/ BridgeLock(b)
Begin  == \E b \in Generation : Fences(b) /\ (Resume(b) \/ Prepare(b) \/ BridgeVerify(b) \/ BridgeLock(b))

Next == World \/ Step \/ Begin
Spec == Init /\ [][Next]_vars

\* The manager and the installer run, and whoever upgrades the host repeats the
\* command (and, for the bridge, the procedure around it) until it succeeds.
\* Nothing restarts a manager whose save failed, and it need not finish its work.
Fairness == /\ WF_vars(ManagerOpens) /\ WF_vars(ManagerRefuses)
            /\ WF_vars(~failed /\ FinishWork)
            /\ SF_vars(Procedure) /\ WF_vars(Step) /\ WF_vars(Rerun)
FairSpec == Spec /\ Fairness

-----------------------------------------------------------------------------
(* Properties *)

\* The installer takes no work away: what it stops for an upgrade is idle and
\* takes none, and it migrates no state of a manager that runs or has work.
WorkUntouched ==
    [][/\ Stop /\ unit = "active" /\ mem.prev # None => ~work
       /\ Migrate /\ schema' # schema => ~work /\ unit # "active"]_vars

\* Admission is closed only by an activation that is in progress, and whose
\* journal has the token that opens it: no crash, lost answer or failed save
\* leaves a fence that nobody will release.
FenceOwned == fence.held => Unfinished(journal) /\ journal.token = fence.token

\* Whatever was interrupted, a generation that can read the state is at hand:
\* the installed one, or the one the journal is heading for.
Recoverable ==
    IF Unfinished(journal)
    THEN Goal(journal) \in retained /\ Accepts(Goal(journal), schema)
    ELSE installed # None => Accepts(installed, schema)

\* An upgrade ends, with admission open, if its command is repeated and no
\* manager stays failed.  To repeat the command is not enough for one that does:
\* it refuses every request, and no command stops a manager that runs and does
\* not prove its fence, so somebody has to restart it.
UpgradeSettles ==
    []<>~failed =>
        (Unfinished(journal) /\ journal.prev # None ~> ~Unfinished(journal) /\ ~fence.held)

-----------------------------------------------------------------------------
(* The inductive invariant *)

\* What a journal says of a host whose state has schema s and fence f, and
\* whose installed executable is e.
Says(j, s, f, e) ==
    /\ j.stage # "none" =>
          /\ j.target \in Generation /\ Fences(j.target)
          /\ Accepts(j.target, s) /\ e \in {j.prev, j.target}
          /\ j.prev # None => Schema[j.prev] <= Schema[j.target]
          /\ j.offline => j.prev # None
    /\ j.stage \in {"offline-prepared", "offline-fenced"} => j.offline
    /\ j.stage \in Backward => Reversible(j)
    /\ j.stage \in {"starting", "verified", "complete"} => e = j.target
    /\ j.stage \in {"rollback-verified", "rolled-back"} => e = j.prev
    /\ j.stage \in {"quiesced", "stopping", "starting", "rollback", "offline-fenced"}
          /\ j.prev # None => f = [token |-> j.token, held |-> TRUE]
    /\ j.stage \in {"verified", "rollback-verified"} => f.token = j.token
    /\ j.stage \in {"complete", "rolled-back"} => ~f.held

\* It holds of the journal, and of a copy that is about to be saved.
Sound(j) == Says(j, schema, fence, installed)

\* The copy is a draft of a new journal, or not even that yet.
Drafting == pc = "retain" \/ (pc = "save" /\ mem.stage \in {"prepared", "offline-prepared"})
Looking  == pc = "locked" /\ mem.stage = "none"

\* What the copy has of the journal.
CopyOf ==
    /\ pc = "idle" => mem = NoJournal
    /\ Looking => /\ journal.stage = "none"
                  /\ mem.target \in Generation /\ Fences(mem.target)
    /\ pc \notin {"idle", "retain", "save"} /\ ~Looking => mem = journal /\ mem.stage # "none"
    /\ Drafting => ~Unfinished(journal)
    /\ pc = "retain" => mem.stage \in {"prepared", "offline-prepared"}
    /\ pc = "save" => /\ mem.stage # "none" /\ Kept(mem)
                      /\ ~Drafting => /\ Unfinished(journal)
                                      /\ mem = [journal EXCEPT !.stage = mem.stage]

\* Where the installer is with its copy.
Reached ==
    /\ pc = "fence" => mem.stage \in {"quiesced", "stopping", "starting", "rollback"}
    /\ pc = "stop" => mem.stage \in {"stopping", "rollback"}
    /\ pc = "stopped" => mem.stage \in {"stopping", "rollback", "offline-fenced", "verified", "complete"}
    /\ pc = "install" => mem.stage \in {"stopping", "rollback", "offline-fenced"}
    /\ pc \in {"locked", "migrate"} => mem.offline
    /\ pc \in {"ensure", "start", "await"} =>
          mem.stage \notin {"quiesced", "stopping", "offline-prepared", "offline-fenced"}
    /\ pc = "start" => mem.stage # "prepared"
    /\ pc \in {"start", "await"} /\ mem.stage = "rollback" => installed = mem.prev
    /\ pc = "acquire" => mem.stage = "prepared" \/ (mem.stage = "starting" /\ mem.prev = None)
    /\ pc = "release" => mem.stage \in {"verified", "rollback-verified"}
    /\ pc = "migrate" => mem.stage \in {"offline-prepared", "offline-fenced", "starting"}
    /\ retry => pc \in {"await", "acquire"} /\ mem.stage = "starting"

Position == CopyOf /\ Reached

\* What the manager's database says, of it and of what may open it.
Opened ==
    /\ unit = "active" => schema = Schema[exe]
    /\ Locked => unit # "active"
    /\ installed = None => schema = 0
    /\ journal.stage = "none" /\ installed # None => Accepts(installed, schema)
    /\ fence.held => ~work /\ schema > Historical

IInv ==
    /\ TypeOK /\ Sound(journal) /\ Position /\ Opened /\ FenceOwned
    /\ Kept(journal) /\ (pc # "idle" /\ ~Looking => Sound(mem))

\* A journal, and a copy of one, has the number of an activation.
Numbered ==
    /\ journal.stage # "none" => journal.token # 0
    /\ mem.stage # "none" => mem.token # 0

\* Which generation runs: one of the activation, and the expected one from its
\* verification on, before that is saved too.
RunsKnown ==
    /\ journal.stage # "none" /\ unit = "active" => exe \in {journal.prev, journal.target}
    /\ journal.stage \in Released /\ unit = "active" => exe = Waited(journal)
    /\ pc = "save" /\ mem.stage \in Released /\ unit = "active" => exe = Waited(mem)
    /\ Drafting /\ unit = "active" => exe = installed

\* What a bridge that is not fenced yet says of the host: its state is as the
\* historical manager left it, or migrated and fenced in one.
Bridged(j) ==
    j.stage = "offline-prepared" =>
        /\ installed = j.prev /\ Schema[j.prev] = Historical
        /\ IF schema = Historical THEN fence.token = 0
           ELSE fence = [token |-> j.token, held |-> TRUE]

BridgeKnown ==
    /\ Bridged(journal) /\ (Drafting => Bridged(mem))
    /\ pc = "migrate" \/ (Drafting /\ mem.stage = "offline-prepared") => ~work

\* The installer is not hindered by what it did itself, however often it was
\* interrupted: beside a manager that has not failed and is not just being
\* started, the fence is found as its journal says, the generation to install
\* is at hand, the migration goes on from what is there, and the fence is its
\* own to release.
Unhindered ==
    /\ pc = "fence" /\ mem.prev # None /\ unit # "starting" /\ ~failed => FenceVerified
    /\ pc = "install" => Goal(mem) \in retained
    /\ pc = "migrate" => Continued /\ ~work
    /\ pc = "release" /\ unit = "active" /\ ~failed => Answers(Waited(mem)) /\ fence.token = mem.token

-----------------------------------------------------------------------------
(* What the users of the host are promised *)

Upgraded == INSTANCE ManagerUpgrade WITH
                Token <- 1 .. MaxTokens, NoToken <- 0,
                busy <- work, journal <- <<>>, executable <- installed

\* Whatever fails, the installer closes admission over an idle manager, one
\* activation at a time, and replaces a manager only while it is closed.
ImplementsUpgrade == Upgraded!UpgradeSpec
=============================================================================
