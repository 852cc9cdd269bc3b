------------------------------ MODULE Routines ------------------------------
(* Scheduled maintenance of one ship (internal/managed/routines.go,           *)
(* internal/routines/policy.go, runtimequalify/routine_linux.go).             *)
(*                                                                            *)
(* A policy selects slots of time; every five seconds the runner claims the   *)
(* newest due slot, as a skipped operation or as a queued one, and a worker   *)
(* stops, compacts and resumes the ship.  The wall clock may jump either way, *)
(* owners lose and regain access, operators edit policy and configuration and *)
(* run operations of their own, and the service may end anywhere.             *)
(*                                                                            *)
(* Simplifications: a calendar (weekdays, hour, minute) is the set of times   *)
(* it selects; the ship stays registered; the work gate, the update fence and *)
(* the snapshot of the poller are RunnerJournal's.                            *)
EXTENDS Integers

CONSTANTS Owner,        \* actors with, at some time, operator access
          Configs,      \* configurations an operator may save
          MaxTime,      \* bound: the wall clock
          Window,       \* WindowMinutes
          MaxEdits,     \* bound: saves of the policy
          MaxRevision   \* bound: configuration revisions of the ship

Time   == 0 .. MaxTime
Config == [on : BOOLEAN, slots : SUBSET Time, stop : BOOLEAN, resume : BOOLEAN]

ASSUME BoundsAssumption ==
    /\ Owner # {} /\ Configs # {}
    /\ MaxTime \in Nat /\ Window \in Nat /\ MaxEdits \in Nat
    /\ MaxRevision \in Nat \ {0}
\* Validate: a routine that may resume a ship may stop it.
ASSUME ConfigAssumption ==
    /\ Configs \subseteq Config
    /\ \A c \in Configs : c.resume => c.stop

VARIABLES
    clock,                      \* time.Now
    granted,                    \* owners with operator access
    \* durable: the policy row and the instance row
    policy, run,                \* maintenance_policies; Runtime.Routine
    active,                     \* the active operation
    desired, observed, fresh, recovery, config, applied, uncertain,
    \* the service and the container
    mode, worker, ship,
    \* history
    handled,                    \* slots with an operation
    packed,                     \* the run's utility finished
    begun                       \* when the run's first step was dispatched

row   == <<desired, observed, fresh, recovery, uncertain>>
revs  == <<config, applied>>
past  == <<packed, begun>>
vars  == <<clock, granted, policy, run, active, row, revs, mode, worker, ship,
           handled, past>>

-----------------------------------------------------------------------------
Never   == -1
Stage   == {"queued", "stop", "pack", "start", "complete"}
Policy  == [rev : 0 .. MaxEdits, config : Configs, owner : Owner,
            bound : 0 .. MaxRevision, updated : Time \cup {Never}, last : Time \cup {Never}]
Run     == [rev : 0 .. MaxEdits, slot : Time, stop : BOOLEAN, resume : BOOLEAN,
            was : BOOLEAN, stage : Stage, started : BOOLEAN,
            finished : BOOLEAN, ok : BOOLEAN]
NoRun   == [rev |-> 0, slot |-> 0, stop |-> FALSE, resume |-> FALSE, was |-> FALSE,
            stage |-> "complete", started |-> FALSE, finished |-> TRUE, ok |-> FALSE]
Observed == {"running", "stopped", "unknown", "maintenance", "working"}

TypeOK ==
    /\ clock \in Time /\ granted \subseteq Owner
    /\ policy \in Policy /\ run \in Run
    /\ active \in {"none", "queued", "routine", "manual"}
    /\ desired \in {"running", "stopped"} /\ observed \in Observed
    /\ fresh \in BOOLEAN /\ recovery \in BOOLEAN /\ uncertain \in BOOLEAN
    /\ config \in 1 .. MaxRevision /\ applied \in 0 .. MaxRevision
    /\ mode \in {"up", "failed", "down"}
    /\ worker \in {"none", "queued", "begun", "admitted", "observed", "stop",
                   "pack", "packing", "start", "up", "down", "manual"}
    /\ ship \in {"running", "stopped"}
    /\ handled \subseteq Time /\ packed \in BOOLEAN
    /\ begun \in Time \cup {Never}

\* A stopped, initialized ship without a policy (revision 0).
Init ==
    /\ clock = 0 /\ granted = Owner
    /\ policy = [rev |-> 0, config |-> CHOOSE c \in Configs : TRUE,
                 owner |-> CHOOSE o \in Owner : TRUE, bound |-> 0,
                 updated |-> Never, last |-> Never]
    /\ run = NoRun /\ active = "none"
    /\ desired = "stopped" /\ observed = "stopped" /\ fresh = TRUE
    /\ recovery = FALSE /\ uncertain = FALSE
    /\ config = 1 /\ applied = 0
    /\ mode = "up" /\ worker = "none" /\ ship = "stopped"
    /\ handled = {} /\ packed = FALSE /\ begun = Never

-----------------------------------------------------------------------------
(* Time, access and the outside *)

\* The clock jumps, an observation ages.
SetClock ==
    /\ \E t \in Time : clock' = t /\ t # clock
    /\ fresh' \in {fresh, FALSE}
    /\ UNCHANGED <<granted, policy, run, active, desired, observed, recovery,
                   uncertain, revs, mode, worker, ship, handled, past>>

Access(o) ==
    /\ granted' = IF o \in granted THEN granted \ {o} ELSE granted \cup {o}
    /\ UNCHANGED <<clock, policy, run, active, row, revs, mode, worker, ship,
                   handled, past>>

\* The ship's process ends by itself.
Exit ==
    /\ ship = "running" /\ ship' = "stopped"
    /\ UNCHANGED <<clock, granted, policy, run, active, row, revs, mode, worker,
                   handled, past>>

\* The poller, which goes on in a failed service; a busy ship is left alone.
Poll ==
    /\ mode # "down" /\ active = "none"
    /\ observed' = ship /\ fresh' = TRUE /\ recovery' = uncertain
    /\ UNCHANGED <<clock, granted, policy, run, active, desired, uncertain,
                   revs, mode, worker, ship, handled, past>>

-----------------------------------------------------------------------------
(* The operator *)

\* mutant: a policy is saved under a running routine.
Editable_Busy == TRUE

Editable == active = "none"

\* PUT routine, with the revisions the operator last read.
PutRoutine(o, c) ==
    /\ mode = "up" /\ o \in granted
    /\ Editable
    /\ c.on => ~recovery /\ ~uncertain
    /\ policy.rev < MaxEdits
    /\ policy' = [policy EXCEPT !.rev = @ + 1, !.config = c, !.owner = o,
                                !.bound = config, !.updated = clock]
    /\ UNCHANGED <<clock, granted, run, active, row, revs, mode, worker, ship,
                   handled, past>>

Configure ==
    /\ mode = "up" /\ active = "none" /\ config < MaxRevision
    /\ config' = config + 1
    /\ UNCHANGED <<clock, granted, policy, run, active, row, applied, mode,
                   worker, ship, handled, past>>

\* An explicit start or stop of the ship.
Operate(d) ==
    /\ mode = "up" /\ active = "none"
    /\ d = "running" => /\ ~recovery /\ ~uncertain
                        /\ observed # "running" /\ ship = "stopped"
    /\ active' = "manual" /\ worker' = "manual"
    /\ desired' = d /\ observed' = "working"
    /\ UNCHANGED <<clock, granted, policy, run, fresh, recovery, uncertain,
                   revs, mode, ship, handled, past>>

\* An explicit Stop retires the marker of a utility that was never dispatched.
OperateDone ==
    /\ worker = "manual"
    /\ ship' = desired /\ observed' = desired /\ fresh' = TRUE
    /\ uncertain' \in {uncertain} \cup (IF desired = "stopped" THEN {FALSE} ELSE {})
    /\ recovery' = uncertain'
    /\ applied' = IF desired = "running" THEN config ELSE applied
    /\ active' = "none" /\ worker' = "none"
    /\ UNCHANGED <<clock, granted, policy, run, desired, config, mode, handled,
                   past>>

-----------------------------------------------------------------------------
(* Claiming a slot *)

\* mutant: the last slot is forgotten.
Later_Again(s) == s > policy.updated

Later(s) == s > policy.updated /\ s > policy.last

\* Due: only the newest slot that has come, and only once.
Due(s) ==
    /\ policy.rev > 0 /\ policy.config.on
    /\ s \in policy.config.slots /\ s <= clock
    /\ \A t \in policy.config.slots : t <= clock => t <= s
    /\ Later(s)

\* mutant: the consent to downtime is ignored.
Quiet_Consent == observed = "running" => applied = config

\* claimRoutine: a slot nobody may work in is recorded as skipped.
Quiet == observed = "running" => policy.config.stop /\ applied = config
Settled == /\ fresh /\ observed \in {"running", "stopped"}
           /\ observed = desired /\ Quiet

Admissible(s) ==
    /\ policy.owner \in granted
    /\ clock <= s + Window
    /\ config = policy.bound
    /\ active = "none"
    /\ ~recovery /\ ~uncertain
    /\ Settled

Skip(s) ==
    /\ ~Admissible(s)
    /\ UNCHANGED <<run, active, desired, worker, mode, past>>

\* mutant: a claim always wants the ship down.
Wanted_Down == "stopped"

\* A ship that is taken down without being resumed is from now on wanted down.
Wanted == IF observed = "running" /\ policy.config.resume THEN desired
                                                         ELSE "stopped"

\* The history of a run is kept while it is claimed.
Over == packed' = FALSE /\ begun' = Never

\* The operation, the instance and the policy are one transaction; when its
\* acknowledgment is lost the service fails instead of launching the worker.
Queue(s) ==
    /\ Admissible(s)
    /\ run' = [rev |-> policy.rev, slot |-> s, stop |-> policy.config.stop,
               resume |-> policy.config.resume, was |-> observed = "running",
               stage |-> "queued", started |-> FALSE, finished |-> FALSE, ok |-> FALSE]
    /\ desired' = Wanted
    /\ active' = "queued"
    /\ Over
    /\ \/ worker' = "queued" /\ mode' = "up"
       \/ worker' = "none" /\ mode' = "failed"

Claim(s) ==
    /\ mode = "up" /\ Due(s)
    /\ Skip(s) \/ Queue(s)
    /\ policy' = [policy EXCEPT !.last = s]
    /\ handled' = handled \cup {s}
    /\ UNCHANGED <<clock, granted, observed, fresh, recovery, uncertain, revs,
                   ship>>

-----------------------------------------------------------------------------
(* The worker *)

\* store.finish with a cause and with what the driver saw of the ship.  What the
\* host's compatibility refused is no reason to ask for a review.
Failed(saw) ==
    /\ run' = [run EXCEPT !.finished = TRUE, !.ok = FALSE]
    /\ desired' = IF saw = "stopped" THEN "stopped" ELSE desired
    /\ observed' = "unknown" /\ fresh' = TRUE
    /\ recovery' \in {TRUE, uncertain \/ recovery}
    /\ active' = "none" /\ worker' = "none" /\ Over

\* beginOperation, after the work gate; it refuses while another ship retains
\* maintenance resources.
Begin ==
    /\ worker = "queued"
    /\ \/ /\ active' = "routine" /\ worker' = "begun"
          /\ observed' = "maintenance"
          /\ UNCHANGED <<run, desired, fresh, recovery, past>>
       \/ Failed("unknown")
    /\ UNCHANGED <<clock, granted, policy, uncertain, revs, mode, ship, handled>>

\* launch: the owner's access is looked up again.
Admit ==
    /\ worker = "begun"
    /\ \/ /\ policy.owner \in granted
          /\ worker' = "admitted"
          /\ UNCHANGED <<run, active, row, past>>
       \/ policy.owner \notin granted /\ Failed("unknown") /\ UNCHANGED uncertain
    /\ UNCHANGED <<clock, granted, policy, revs, mode, ship, handled>>

\* mutant: A preflight that does not look at the clock again.
InWindow_Always == TRUE

\* applyRoutine before anything is stopped: the window, the ship as it is now,
\* then memory and disk (which may refuse), then the window once more.
InWindow == clock <= run.slot + Window

Observe ==
    /\ worker = "admitted"
    /\ \/ /\ InWindow /\ run.was = (ship = "running")
          /\ worker' = "observed"
          /\ UNCHANGED <<run, active, row, past>>
       \/ /\ ~InWindow \/ run.was # (ship = "running")
          /\ Failed("unknown") /\ UNCHANGED uncertain
    /\ UNCHANGED <<clock, granted, policy, revs, mode, ship, handled>>

Refuse ==
    /\ worker = "observed"
    /\ Failed(IF run.was THEN "running" ELSE "stopped")
    /\ UNCHANGED <<clock, granted, policy, uncertain, revs, mode, ship, handled>>

Dispatch ==
    /\ worker = "observed" /\ InWindow
    /\ LET first == IF run.was THEN "stop" ELSE "pack" IN
       /\ run' = [run EXCEPT !.started = TRUE, !.stage = first]
       /\ worker' = first
    /\ begun' = clock
    /\ UNCHANGED <<clock, granted, policy, active, row, revs, mode, ship,
                   handled, packed>>

Done == {"up", "down"}

\* A step of the sequence succeeded; the next one is journaled first.
Advance(next) == run' = [run EXCEPT !.stage = next] /\ worker' = next

Complete(end) ==
    /\ run' = [run EXCEPT !.stage = "complete", !.finished = TRUE, !.ok = TRUE]
    /\ worker' = end

Stop ==
    /\ worker = "stop"
    /\ ship' = "stopped"
    /\ Advance("pack")
    /\ UNCHANGED <<clock, granted, policy, active, row, revs, mode, handled, past>>

\* The utility runs only on a stopped ship and is journaled as uncertain first.
Pack ==
    /\ worker = "pack" /\ ship = "stopped"
    /\ uncertain' = TRUE /\ worker' = "packing"
    /\ UNCHANGED <<clock, granted, policy, run, active, desired, observed, fresh,
                   recovery, revs, mode, ship, handled, past>>

\* mutant: every sequence resumes.
Resumes_Always == TRUE

Resumes == run.was /\ run.resume

Packed ==
    /\ worker = "packing"
    /\ uncertain' = FALSE /\ packed' = TRUE
    /\ IF Resumes THEN Advance("start") ELSE Complete("down")
    /\ UNCHANGED <<clock, granted, policy, active, desired, observed, fresh,
                   recovery, revs, mode, ship, handled, begun>>

Start ==
    /\ worker = "start"
    /\ ship' = "running"
    /\ Complete("up")
    /\ UNCHANGED <<clock, granted, policy, active, row, revs, mode, handled, past>>

\* A step fails: what it did to the ship may have happened.
StepFails ==
    /\ worker \in {"stop", "pack", "packing", "start"}
    /\ ship' \in CASE worker = "stop"  -> {ship, "stopped"}
                   [] worker = "start" -> {ship, "running"}
                   [] OTHER            -> {ship}
    /\ Failed("unknown")
    /\ UNCHANGED <<clock, granted, policy, uncertain, revs, mode, handled>>

\* store.finish after every step succeeded.
Finish ==
    /\ worker \in Done
    /\ observed' = IF worker = "up" THEN "running" ELSE "stopped"
    /\ fresh' = TRUE /\ recovery' = FALSE
    /\ active' = "none" /\ worker' = "none" /\ Over
    /\ UNCHANGED <<clock, granted, policy, run, desired, uncertain, revs, mode,
                   ship, handled>>

-----------------------------------------------------------------------------
(* The service *)

\* A save of the poller or of a worker fails, and the service takes nothing on
\* until somebody restarts it.  A worker ends where its own save failed, its
\* operation still active, and goes on beside any other.
JournalFails ==
    /\ mode = "up" /\ mode' = "failed"
    /\ worker' \in {worker, "none"}
    /\ UNCHANGED <<clock, granted, policy, run, active, row, revs, ship,
                   handled, past>>

Crash ==
    /\ mode # "down"
    /\ mode' = "down" /\ worker' = "none"
    /\ UNCHANGED <<clock, granted, policy, run, active, row, revs, ship,
                   handled, past>>

\* mutant: A restart that forgets the run of the interrupted operation.
Interrupted_Run == observed' = "unknown" /\ recovery' = TRUE /\ run' = run

\* reconcileInterrupted: the operation is interrupted, never continued.
Interrupted ==
    /\ run' = IF active \in {"queued", "routine"}
              THEN [run EXCEPT !.finished = TRUE, !.ok = FALSE] ELSE run
    /\ observed' = "unknown" /\ recovery' = TRUE

\* mutant: A restart that leaves the interrupted operation active.
Restart_Leaves ==
    /\ mode = "down" /\ mode' = "up"
    /\ UNCHANGED <<clock, granted, policy, run, active, row, revs, worker, ship,
                   handled, past>>

Restart ==
    /\ mode = "down" /\ mode' = "up"
    /\ IF active = "none" THEN UNCHANGED <<run, observed, recovery>> ELSE Interrupted
    /\ active' = "none" /\ Over
    /\ UNCHANGED <<clock, granted, policy, desired, fresh, uncertain, revs,
                   worker, ship, handled>>

Worker == Begin \/ Admit \/ Observe \/ Dispatch \/ Stop \/ Pack \/ Packed \/ Start
          \/ StepFails \/ Finish \/ Refuse \/ OperateDone

Next ==
    \/ SetClock \/ Exit \/ Poll \/ Configure \/ JournalFails \/ Crash \/ Restart
    \/ \E o \in Owner : Access(o) \/ \E c \in Configs : PutRoutine(o, c)
    \/ \E d \in {"running", "stopped"} : Operate(d)
    \/ \E s \in Time : Claim(s)
    \/ Worker

Spec == Init /\ [][Next]_vars

\* Workers have deadlines, and a service that died is restarted by its unit.
\* Nothing ends one that failed: its process stays up and refuses mutations.
FairSpec == Spec /\ WF_vars(Worker) /\ WF_vars(Restart)

-----------------------------------------------------------------------------
(* Properties *)

Claimed == active \in {"queued", "routine"}

\* Nothing under a run changes while it is claimed: its slot is a handled one
\* and later than the last edit, and the revision, the consent and the
\* configuration it was claimed under are still the saved ones, though edits,
\* claims and the worker are separate transactions.
RunIsApproved ==
    Claimed =>
        /\ run.rev = policy.rev /\ run.rev > 0
        /\ run.stop = policy.config.stop /\ run.resume = policy.config.resume
        /\ config = policy.bound
        /\ run.slot \in handled /\ run.slot > policy.updated

\* A service that runs has no run without an owner: after a crash, a lost
\* acknowledgment or a failed step the run is finished, never left in progress.
RunsSettled ==
    mode = "up" => (Claimed <=> worker \notin {"none", "manual"})
                   /\ (~Claimed => run.finished)

\* Work begins within the dispatch window, however long the run was queued.
BegunInWindow == begun # Never => begun <= run.slot + Window

\* A routine takes a ship down only with the saved consent, and brings up only
\* a ship that it took down, with consent, after the utility finished.
DowntimeConsented == worker = "stop" => run.was /\ policy.config.stop
ResumeEarned == worker = "start" => /\ run.was /\ policy.config.resume
                                    /\ packed /\ ~uncertain

\* A finished run leaves the ship as the desired state says.
OutcomeDesired ==
    /\ worker = "up" => desired = "running"
    /\ worker = "down" => desired = "stopped"

\* No slot is handled twice or after a later one, though the clock jumps back
\* and the calendar is edited.
SlotsForward ==
    [][\A s \in handled' \ handled : \A t \in handled : t < s]_vars

\* Every claimed run ends, unless the service fails and nobody restarts it.
RunsEnd == []<>(mode # "failed") => (Claimed ~> active = "none")

\* What makes them inductive.
Progress ==
    /\ Claimed /\ worker \in {"queued", "begun", "admitted", "observed",
                               "stop", "pack", "packing", "start"} => ~run.finished
    /\ ~Claimed \/ worker \in Done => run.finished
    /\ worker = "queued" => active = "queued"
    /\ worker \in {"begun", "admitted", "observed", "stop", "pack", "packing",
                    "start"} \cup Done => active = "routine"
    /\ worker = "manual" => active = "manual"
    /\ mode = "up" /\ active = "manual" => worker = "manual"
    /\ worker \in {"stop", "pack", "packing", "start"} \cup Done => run.started
    /\ mode = "down" => worker = "none"
    /\ active = "none" => worker = "none"
    /\ worker \notin {"packing", "none"} /\ Claimed => ~uncertain
Consent ==
    /\ Claimed /\ run.was => run.stop
    /\ Claimed => desired = IF run.was /\ run.resume THEN "running" ELSE "stopped"
    /\ worker = "up" => run.was /\ run.resume
    /\ worker = "down" => ~(run.was /\ run.resume)
History ==
    /\ \A s \in handled : s <= policy.last
    /\ policy.rev = 0 => policy.last = Never
IInv == TypeOK /\ RunIsApproved /\ RunsSettled /\ BegunInWindow /\ DowntimeConsented
        /\ ResumeEarned /\ OutcomeDesired /\ Progress /\ Consent /\ History
=============================================================================
