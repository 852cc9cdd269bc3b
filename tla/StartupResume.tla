--------------------------- MODULE StartupResume ---------------------------
(* Resuming one ship after its host rebooted (internal/managed/startup.go),  *)
(* with what it races with: the poller, the operator, the update fence, the   *)
(* worker that executes the resume, deaths of the management service and      *)
(* reboots of the host.                                                       *)
(*                                                                            *)
(* A ship's container outlives the service but not the host.  The journal     *)
(* remembers the host boot in which the container was last seen healthy, and  *)
(* the boot that may resume it; a reboot may have cost the container its      *)
(* clean exit, a failure within one boot may not.                             *)
(*                                                                            *)
(* Simplifications: ships are independent here (the work gate between them,   *)
(* journal write faults and the phases of docker create are RunnerJournal's); *)
(* the ship's pier is initialized and present; the age limit of an            *)
(* observation is left out; an exited container never runs again.             *)
EXTENDS Integers

CONSTANTS MaxBoot,      \* bound: boots of the host
          MaxBox,       \* bound: containers created for the ship
          MaxRevision   \* bound: configuration revisions

ASSUME BoundsAssumption ==
    MaxBoot \in Nat \ {0} /\ MaxBox \in Nat \ {0} /\ MaxRevision \in Nat \ {0}

VARIABLES
    boot,      \* boot of the host (its boot_id)
    engine,    \* containers as Docker knows them
    made,      \* containers created so far
    \* durable: the instance row and the journal
    desired, observed, recovery,   \* public half
    config, applied, launch,       \* revisions: edited, started, of the launch
    box, verified,                 \* retained container, HostHTTPVerified
    startup,                       \* startupState
    intent,                        \* Runtime.StartupResume
    active, begun,                 \* active operation; beginOperation passed
    attempts,                      \* boots with a startup-resume operation
    fence,                         \* management update fence held
    \* volatile: the service
    up, me,                        \* running; Server.bootID, 0 without policy
    worker,                        \* progress of the operation's goroutine
    poll,                          \* snapshot of the poller
    loop,                          \* resumeStartup, with the candidate it holds
    \* history of the retained container
    seen,      \* boot in which it was really running healthy when looked at
    confirmed, \* a service with the policy committed that to the row
    fell,      \* it failed by itself in this boot
    failure,   \* the row learned so in that boot, with a boot "pending" or not
    lost,      \* kind of operation that failed on it, until it is seen healthy
    \* history of the ship
    driven,    \* boots in which a resume was dispatched
    owed       \* why the next service owes the ship a resume

host     == <<boot, engine, made>>
public   == <<desired, observed, recovery>>
revs     == <<config, applied, launch>>
runtime  == <<box, verified, intent>>
journal  == <<active, begun, attempts>>
service  == <<up, me>>
past     == <<seen, confirmed, fell, failure, lost>>
history  == <<past, driven>>
vars     == <<host, public, revs, runtime, startup, journal, fence, service,
              worker, poll, loop, history, owed>>

-----------------------------------------------------------------------------
(* Types *)

Boot     == 1 .. MaxBoot
Box      == 1 .. MaxBox
Revision == 0 .. MaxRevision

\* A running container answers HTTP ("healthy") or does not yet ("running").
Seen     == {"healthy", "running", "stopped", "failed", "unknown"}
Exited   == {"clean", "crashed"}

\* No container means no startupState.
Startup  == [healthy : Boot \cup {0}, pending : Boot \cup {0},
             box : Box \cup {0}, config : Revision, unclean : BOOLEAN]
Nil      == [healthy |-> 0, pending |-> 0, box |-> 0, config |-> 0,
             unclean |-> FALSE]

Intent   == [box : Box \cup {0}, unclean : BOOLEAN]
NoIntent == [box |-> 0, unclean |-> FALSE]

Poll     == [busy : BOOLEAN, current : BOOLEAN, seen : Seen]
NoPoll   == [busy |-> FALSE, current |-> FALSE, seen |-> "unknown"]

Loop     == [at : {"off", "idle", "read", "seen"}, config : Revision,
             startup : Startup, current : BOOLEAN, seen : Seen]
NoLoop   == [at |-> "off", config |-> 0, startup |-> Nil, current |-> FALSE,
             seen |-> "unknown"]

TypeOK ==
    /\ boot \in Boot
    /\ engine \in [Box -> {"absent", "running"} \cup Exited]
    /\ made \in 0 .. MaxBox
    /\ desired \in {"running", "stopped"}
    /\ observed \in Seen \cup {"busy"}
    /\ recovery \in BOOLEAN
    /\ config \in Revision /\ applied \in Revision /\ launch \in Revision
    /\ box \in Box \cup {0} /\ verified \in BOOLEAN
    /\ startup \in Startup
    /\ intent \in Intent
    /\ active \in {"none", "resume", "start", "stop"} /\ begun \in BOOLEAN
    /\ attempts \subseteq Boot
    /\ fence \in BOOLEAN
    /\ up \in BOOLEAN /\ me \in Boot \cup {0}
    /\ worker \in {"none", "queued", "begun", "removing", "removed",
                   "intended", "created", "verified"}
    /\ poll \in Poll
    /\ loop \in Loop
    /\ seen \in Boot \cup {0} /\ confirmed \in BOOLEAN /\ fell \in BOOLEAN
    /\ failure \subseteq {"alone", "pending"}
    /\ lost \in {"none", "resume", "start", "stop"}
    /\ driven \subseteq Boot
    /\ owed \subseteq {"recorded", "confirmed"}

\* An imported ship, never run here, on a host whose service has not started yet.
Init ==
    /\ boot = 1
    /\ engine = [c \in Box |-> "absent"]
    /\ made = 0
    /\ desired = "stopped" /\ observed = "stopped" /\ recovery = FALSE
    /\ config = 1 /\ applied = 0 /\ launch = 0
    /\ box = 0 /\ verified = FALSE /\ intent = NoIntent
    /\ startup = Nil
    /\ active = "none" /\ begun = FALSE /\ attempts = {}
    /\ fence = FALSE
    /\ up = FALSE /\ me = 0
    /\ worker = "none" /\ poll = NoPoll /\ loop = NoLoop
    /\ seen = 0 /\ confirmed = FALSE /\ fell = FALSE /\ failure = {}
    /\ lost = "none" /\ driven = {} /\ owed = {}

-----------------------------------------------------------------------------
(* Eligibility *)

\* startupEligible, with StartupResumeCandidate: one verified container.
Eligible ==
    /\ desired = "running" /\ active = "none"
    /\ config = applied /\ launch = config
    /\ box # 0 /\ verified

Matches == startup.box # 0 /\ startup.box = box /\ startup.config = config

Earlier_Any(healthy, b) == healthy # 0                           \* mutant

\* Health in another boot than b excuses what the container exited with.
Earlier(healthy, b) == healthy \notin {0, b}

Authorized ==
    /\ Eligible /\ Matches /\ startup.pending = me
    /\ startup.unclean => Earlier(startup.healthy, me)

\* StartupResumeReady: a terminal container, and the authorization for what
\* its exit was.
Ready(look, unclean) == look = "stopped" \/ (look = "failed" /\ unclean)

\* recordHealthyBoot: the record the row gets with an observation.
Recorded(look, now) ==
    IF me # 0 /\ look = "healthy" /\ now
    THEN [healthy |-> me, pending |-> 0, box |-> box, config |-> config,
          unclean |-> FALSE]
    ELSE startup

\* What an observation of the retained container can return now.
Look ==
    {"unknown"} \cup
    IF box = 0 THEN {"stopped"}
    ELSE CASE engine[box] = "running" -> {"healthy", "running"}
           [] engine[box] = "clean"   -> {"stopped"}
           [] engine[box] = "crashed" -> {"failed"}
           [] OTHER                   -> {}

\* RuntimeRevision+1 makes earlier snapshots unusable.
Bump ==
    /\ poll' = [poll EXCEPT !.current = FALSE]
    /\ loop' = [loop EXCEPT !.current = FALSE]

-----------------------------------------------------------------------------
(* The service starts: reconcileInterrupted, startupCandidates, the loops *)

\* An interrupted operation leaves nothing to resume; a start that was still
\* queued is undone without doubt about the ship.
Reconcile ==
    /\ active # "none"
    /\ active' = "none" /\ begun' = FALSE
    /\ startup' = Nil
    /\ IF active = "start" /\ ~begun
       THEN UNCHANGED <<observed, recovery, lost>>
       ELSE /\ observed' = "unknown" /\ recovery' = TRUE
            /\ lost' = active
    /\ UNCHANGED loop

\* A candidate is pinned to this boot before anything is observed.  A pending
\* boot survives; a known failure without one does not qualify.
Pending == Matches /\ startup.pending # 0

Candidate_DespiteRecovery == Eligible                            \* mutant

Candidate_Resolved == Eligible /\ ~recovery                      \* mutant

Candidate == Eligible /\ (Pending \/ ~recovery)

Base == IF Matches THEN startup
        ELSE [Nil EXCEPT !.box = box, !.config = config]

Candidates(b) ==
    LET granted == [Base EXCEPT !.pending = b,
                       !.unclean = IF Pending /\ startup.pending = b THEN @
                                   ELSE Earlier(Base.healthy, b)] IN
    /\ active = "none"
    /\ IF b # 0 /\ Candidate
       THEN /\ startup' = granted
            /\ loop' = [NoLoop EXCEPT !.at = "idle", !.config = config]
       ELSE UNCHANGED <<startup, loop>>
    /\ UNCHANGED <<observed, recovery, active, begun, lost>>

Restart ==
    /\ ~up
    /\ up' = TRUE
    /\ \E b \in {0, boot} :
          /\ me' = b
          /\ Reconcile \/ Candidates(b)
          /\ owed' = IF b = 0 \/ active # "none" THEN {}
                     ELSE owed \ {"confirmed"}
    /\ UNCHANGED <<host, desired, revs, runtime, attempts, fence, worker, poll,
                   seen, confirmed, fell, failure, driven>>

\* The service dies or is closed; the containers run on.
Down ==
    /\ up' = FALSE /\ me' = 0
    /\ worker' = "none" /\ poll' = NoPoll /\ loop' = NoLoop

Die ==
    /\ up
    /\ Down
    /\ UNCHANGED <<host, public, revs, runtime, startup, journal, fence,
                   history, owed>>

\* The host goes down with everything on it.  A container may or may not get
\* to exit cleanly.
Reboot ==
    /\ boot < MaxBoot
    /\ boot' = boot + 1
    /\ \E e \in Exited :
          engine' = [c \in Box |-> IF engine[c] = "running" THEN e
                                   ELSE engine[c]]
    /\ fell' = FALSE
    /\ owed' = owed \cup
         (IF Eligible /\ ~recovery /\ engine[box] = "running"
          THEN (IF Matches /\ startup.healthy = boot
                THEN {"recorded"} ELSE {}) \cup
               (IF observed = "healthy" /\ confirmed /\ seen = boot
                THEN {"confirmed"} ELSE {})
          ELSE {})
    /\ Down
    /\ UNCHANGED <<made, public, revs, runtime, startup, journal, fence, seen,
                   confirmed, failure, lost, driven>>

\* A container exits by itself while the host is up.
Exit(c) ==
    /\ engine[c] = "running"
    /\ \E e \in Exited :
          /\ engine' = [engine EXCEPT ![c] = e]
          /\ fell' = (e = "crashed")
    /\ UNCHANGED <<boot, made, public, revs, runtime, startup, journal, fence,
                   service, worker, poll, loop, seen, confirmed, failure,
                   lost, driven, owed>>

-----------------------------------------------------------------------------
(* The operator and the update fence *)

\* accept of start or stop, then launch.
Accept(kind) ==
    /\ up /\ ~fence
    /\ active = "none"
    /\ kind = "start" => ~recovery /\ box = 0
                         /\ observed \notin {"healthy", "running"}
    /\ active' = kind /\ begun' = FALSE /\ worker' = "queued"
    /\ desired' = IF kind = "start" THEN "running" ELSE "stopped"
    /\ startup' = Nil /\ intent' = NoIntent
    /\ owed' = {}
    /\ UNCHANGED <<host, observed, recovery, revs, box, verified, attempts,
                   fence, service, poll, loop, history>>

Configure ==
    /\ up /\ ~fence
    /\ active = "none" /\ config < MaxRevision
    /\ config' = config + 1
    /\ startup' = Nil
    /\ owed' = {}
    /\ Bump
    /\ UNCHANGED <<host, public, applied, launch, runtime, journal, fence,
                   service, worker, history>>

\* serveManagementUpdate acquires the fence of an idle service, and releases it.
Fence ==
    /\ up
    /\ active = "none" /\ worker = "none"
    /\ fence' = ~fence
    /\ UNCHANGED <<host, public, revs, runtime, startup, journal, service,
                   worker, poll, loop, history, owed>>

-----------------------------------------------------------------------------
(* The poller *)

\* The snapshot and what Docker says of it.  Only a row unchanged until the
\* commit counts, so the two reads are one step.
Observe ==
    /\ up /\ ~poll.busy
    /\ active = "none"
    /\ \E look \in Look :
          /\ poll' = [busy |-> TRUE, current |-> TRUE, seen |-> look]
          /\ seen' = IF look = "healthy" THEN boot ELSE seen
    /\ UNCHANGED <<host, public, revs, runtime, startup, journal, fence,
                   service, worker, loop, confirmed, fell, failure, lost,
                   driven, owed>>

Usable == active = "none" /\ poll.current

\* observe.  An engine refused for compatibility keeps the recovery the row
\* had.
Commit ==
    LET look == poll.seen IN
    /\ up /\ poll.busy
    /\ IF Usable
       THEN /\ observed' = look
            /\ recovery' \in
                 CASE look = "unknown" -> {TRUE, recovery}
                   [] look = "failed"  -> {TRUE}
                   [] look = "stopped" -> {box # 0}
                   [] look \in {"running", "healthy"} -> {FALSE}
            /\ startup' = Recorded(look, Eligible /\ ~recovery')
            /\ confirmed' = (confirmed \/ (look = "healthy" /\ me # 0))
            /\ lost' = IF look = "healthy" THEN "none" ELSE lost
            /\ failure' = IF look = "failed" /\ fell
                          THEN failure \cup {IF startup.pending # 0 THEN "pending"
                                             ELSE "alone"}
                          ELSE failure
            /\ poll' = NoPoll
            /\ loop' = [loop EXCEPT !.current = FALSE]
       ELSE /\ poll' = NoPoll
            /\ UNCHANGED <<observed, recovery, startup, confirmed, lost,
                           failure, loop>>
    /\ UNCHANGED <<host, desired, revs, runtime, journal, fence, service,
                   worker, seen, fell, driven, owed>>

-----------------------------------------------------------------------------
(* resumeStartup: one pass over the candidate it holds *)

Later_Drop == NoLoop                                             \* mutant

\* The candidate is tried again after the interval.
Later == [NoLoop EXCEPT !.at = "idle", !.config = loop.config]

Kept == UNCHANGED <<host, public, revs, runtime, startup, journal, fence,
                    service, worker, poll, history, owed>>

\* While fenced the candidate waits for the next pass.
LoopRead ==
    /\ up /\ loop.at = "idle" /\ ~fence
    /\ loop' = IF config = loop.config /\ Authorized
               THEN [loop EXCEPT !.at = "read", !.startup = startup,
                                 !.current = TRUE]
               ELSE NoLoop
    /\ Kept

\* Observations are retried, never a mutation.
LoopObserve ==
    /\ up /\ loop.at = "read"
    /\ \E look \in Look :
          /\ loop' = IF look = "unknown" THEN Later
                     ELSE [loop EXCEPT !.at = "seen", !.seen = look]
          /\ seen' = IF look = "healthy" THEN boot ELSE seen
    /\ UNCHANGED <<host, public, revs, runtime, startup, journal, fence,
                   service, worker, poll, confirmed, fell, failure, lost,
                   driven, owed>>

\* dismissStartup: what is not a candidate any more loses its authorization,
\* unless the row was authorized anew meanwhile.
Dismissed ==
    IF Authorized /\ startup = loop.startup THEN Nil ELSE startup

LoopDismiss ==
    /\ up /\ loop.at = "seen"
    /\ ~Ready(loop.seen, loop.startup.unclean)
    /\ startup' = Dismissed
    /\ loop' = NoLoop
    /\ poll' = IF startup' # startup THEN [poll EXCEPT !.current = FALSE] ELSE poll
    /\ UNCHANGED <<host, public, revs, runtime, journal, fence, service,
                   worker, history, owed>>

Claimable_Revision == loop.current /\ config = loop.config       \* mutant

\* The row is the one observed, and still authorized as it was.
Claimable == loop.current /\ Authorized /\ startup = loop.startup

\* replay: this boot's operation is in the journal, whatever became of it.
Attempted_Never == FALSE                                         \* mutant

Attempted == me \in attempts

Blocked_Never == FALSE                                           \* mutant

\* The second look at the fence, under Server.mu.
Blocked == fence

\* claimStartup, and launch of what it queued.
LoopClaim ==
    /\ up /\ loop.at = "seen"
    /\ Ready(loop.seen, loop.startup.unclean)
    /\ ~Blocked /\ ~Attempted /\ Claimable
    /\ attempts' = attempts \cup {me}
    /\ active' = "resume" /\ begun' = FALSE /\ worker' = "queued"
    /\ intent' = [box |-> loop.startup.box, unclean |-> loop.startup.unclean]
    /\ startup' = [startup EXCEPT !.pending = 0]
    /\ recovery' = FALSE
    /\ observed' = IF observed = "healthy" THEN "running" ELSE observed
    /\ poll' = [poll EXCEPT !.current = FALSE]
    /\ loop' = NoLoop
    /\ owed' = {}
    /\ UNCHANGED <<host, desired, revs, box, verified, fence, service, history>>

\* Fenced, or overtaken by another change of the row: the next pass.  A replayed
\* request ends the loop.
LoopMiss ==
    /\ up /\ loop.at = "seen"
    /\ Ready(loop.seen, loop.startup.unclean)
    /\ Blocked \/ Attempted \/ ~Claimable
    /\ loop' = IF ~Blocked /\ Attempted THEN NoLoop ELSE Later
    /\ Kept

-----------------------------------------------------------------------------
(* The worker: beginOperation, ApplyManaged, finish *)

Idle == UNCHANGED <<fence, service>>

Begin ==
    /\ worker = "queued"
    /\ worker' = "begun" /\ begun' = TRUE
    /\ observed' = "busy"
    /\ launch' = IF active = "stop" THEN launch ELSE config
    /\ driven' = IF active = "resume" THEN driven \cup {boot} ELSE driven
    /\ UNCHANGED <<host, desired, recovery, config, applied, runtime, startup,
                   active, attempts, poll, loop, seen, confirmed, fell,
                   failure, lost, owed>>
    /\ Idle

\* applyStartupResume looks again, and remove saves what it saw; only the authorized container may have
\* failed.  Stop removes the container in any state.
Removable ==
    \/ active = "stop" /\ engine[box] # "absent"
    \/ active = "resume" /\ engine[box] = "clean"
    \/ /\ active = "resume" /\ engine[box] = "crashed"
       /\ intent.unclean /\ intent.box = box

Remove ==
    /\ worker = "begun" /\ box # 0
    /\ Removable
    /\ engine' = [engine EXCEPT ![box] = "absent"]
    /\ worker' = "removing"
    /\ Bump
    /\ UNCHANGED <<boot, made, public, revs, runtime, startup, journal, history,
                   owed>>
    /\ Idle

PersistRemoved ==
    /\ worker = "removing"
    /\ box' = 0 /\ verified' = FALSE
    /\ worker' = "removed"
    /\ Bump
    /\ UNCHANGED <<host, public, revs, intent, startup, journal, history, owed>>
    /\ Idle

\* The replacement is recorded, without the authorization of the old one,
\* before Docker is asked for it.
Intend ==
    /\ \/ worker = "removed" /\ active = "resume"
       \/ worker = "begun" /\ active = "start" /\ box = 0
    /\ made < MaxBox
    /\ made' = made + 1
    /\ box' = made' /\ verified' = FALSE /\ intent' = NoIntent
    /\ worker' = "intended"
    /\ Bump
    /\ seen' = 0 /\ confirmed' = FALSE /\ fell' = FALSE /\ failure' = {}
    /\ lost' = "none"
    /\ UNCHANGED <<boot, engine, public, revs, startup, journal, driven, owed>>
    /\ Idle

Launch ==
    /\ worker = "intended"
    /\ engine' = [engine EXCEPT ![box] = "running"]
    /\ worker' = "created"
    /\ Bump
    /\ UNCHANGED <<boot, made, public, revs, runtime, startup, journal, history,
                   owed>>
    /\ Idle

\* The ship answered HTTP on its host port.
Verify ==
    /\ worker = "created" /\ engine[box] = "running"
    /\ verified' = TRUE
    /\ seen' = boot
    /\ worker' = "verified"
    /\ Bump
    /\ UNCHANGED <<host, public, revs, box, intent, startup, journal,
                   confirmed, fell, failure, lost, driven, owed>>
    /\ Idle

Finish ==
    /\ active' = "none" /\ begun' = FALSE /\ worker' = "none"
    /\ Bump
    /\ UNCHANGED <<host, desired, config, launch, runtime, attempts, seen,
                   fell, failure, driven, owed>>
    /\ Idle

FinishRunning ==
    /\ worker = "verified"
    /\ observed' = "healthy" /\ recovery' = FALSE
    /\ applied' = config
    /\ startup' = Recorded("healthy", TRUE)
    /\ confirmed' = (me # 0)
    /\ lost' = "none"
    /\ Finish

FinishStopped ==
    /\ active = "stop"
    /\ worker = "removed" \/ (worker = "begun" /\ box = 0)
    /\ observed' = "stopped" /\ recovery' = FALSE
    /\ UNCHANGED <<applied, startup, confirmed, lost>>
    /\ Finish

Condemn_Prior ==                                                 \* mutant
    observed' = "unknown" /\ UNCHANGED <<recovery, startup>>

\* finish with a cause: only an engine refused for compatibility leaves no
\* doubt, and not with a container retained.
Condemn ==
    /\ observed' = "unknown"
    /\ recovery' \in {TRUE, worker = "queued" \/ recovery \/ box # 0}
    /\ startup' = Nil

\* Also without dispatch, while another ship's maintenance is unresolved.
FinishFailed ==
    /\ worker # "none"
    /\ worker = "queued" => active # "stop"
    /\ Condemn
    /\ lost' = active
    /\ UNCHANGED <<applied, confirmed>>
    /\ Finish

-----------------------------------------------------------------------------

Surroundings == Restart \/ Die \/ Reboot \/ \E c \in Box : Exit(c)
Operator == Accept("start") \/ Accept("stop") \/ Configure \/ Fence
Poller   == Observe \/ Commit
Resumer  == LoopRead \/ LoopObserve \/ LoopDismiss \/ LoopClaim \/ LoopMiss
Worker   == Begin \/ Remove \/ PersistRemoved \/ Intend \/ Launch \/ Verify
            \/ FinishRunning \/ FinishStopped \/ FinishFailed

Next == Surroundings \/ Operator \/ Poller \/ Resumer \/ Worker

Spec == Init /\ [][Next]_vars

-----------------------------------------------------------------------------
(* Safety *)

Claims == active # "resume" /\ active' = "resume"

\* A host boot dispatches at most one startup resume, whatever became of it
\* (claimStartup's request is derived from the boot; docs/services.md).
OncePerBoot ==
    [][worker = "queued" /\ active = "resume" /\ worker' = "begun"
       => boot \notin driven]_vars

\* A container that failed may only be replaced unattended if it was really
\* running healthy in an earlier boot of the host (AllowUnclean).
UncleanAfterReboot ==
    active = "resume" /\ intent.unclean =>
       seen \in 1 .. boot - 1

\* A failure recorded when no boot was pending is never resumed by itself.
KnownFailureStays == [][Claims => "alone" \notin failure]_vars

\* After a failed or interrupted operation only a healthy observation makes
\* the container eligible for another unclean resume.
FailureDiscards == [][Claims /\ intent'.unclean => lost = "none"]_vars

\* A resume is never accepted over the operator's stop or edit: it restarts
\* what the operator last started, at the revision that ran.
ResumesWanted ==
    active = "resume" => desired = "running" /\ config = applied

\* Nothing is in progress while an installer holds the update fence.
FenceQuiet == fence => active = "none"

\* As long as this boot may resume the ship and has not tried, resumeStartup
\* has the ship on its list.
NotForgotten == up /\ me # 0 /\ Authorized /\ ~Attempted => loop.at # "off"

\* A ship whose health in the last boot the row holds is authorized until
\* something decides otherwise: neither polling what the reboot left of it,
\* nor another death of the service or the host costs it the resume.
ResumeSurvives ==
    up /\ "recorded" \in owed => Authorized /\ startup.unclean

-----------------------------------------------------------------------------
(* The inductive invariant *)

\* What lives in the service lives in this boot, and works on the row's
\* operation.
ServiceAgrees ==
    /\ me \in {0, boot}
    /\ ~up => me = 0 /\ worker = "none" /\ ~poll.busy /\ loop.at = "off"
    /\ up => (worker = "none" <=> active = "none")
    /\ worker = "queued" => ~begun
    /\ box <= made /\ startup.box <= made
    /\ \A c \in Box : c > made => engine[c] = "absent"

\* What the drivers know of the container they create.
DriverKnows ==
    /\ worker \in {"intended", "created", "verified"} =>
          /\ box # 0 /\ intent = NoIntent /\ ~poll.current
          /\ failure = {} /\ active \in {"start", "resume"}
    /\ worker = "intended" => seen = 0 /\ engine[box] = "absent"
    /\ worker = "verified" => seen = boot /\ verified
    /\ worker = "removed" => box = 0

\* A boot's resume is driven after it is journaled.
AttemptsAgree ==
    /\ driven \subseteq attempts
    /\ \A b \in attempts : b <= boot
    /\ up /\ active = "resume" => boot \in attempts
    /\ worker = "queued" /\ active = "resume" => boot \notin driven

\* Containers do not outlive the boot they were seen healthy in; the recorded
\* health of the retained container is what was really seen.
HealthTruthful ==
    /\ seen <= boot
    /\ box # 0 /\ engine[box] = "running" => seen \in {0, boot}
    /\ poll.busy /\ poll.current =>
          /\ poll.seen = "healthy" => seen = boot
          /\ poll.seen = "failed" => box # 0 /\ engine[box] \in {"crashed", "absent"}
    /\ startup.healthy # 0 => startup.box # 0
    /\ startup.healthy # 0 /\ startup.box = box => seen = startup.healthy
    /\ startup.healthy <= boot /\ startup.pending <= boot
    /\ startup.unclean => startup.healthy \in 1 .. boot - 1

\* The candidate held is the row's, until the row has no pending boot.
CandidateHeld ==
    loop.at # "off" =>
       /\ up /\ me # 0 /\ active # "resume"
       /\ config # loop.config => startup.pending = 0
       /\ loop.at # "idle" /\ startup # loop.startup => startup.pending = 0

\* A failure known without a pending boot keeps the row in recovery.
FailureKnown ==
    "alone" \in failure /\ box # 0 =>
       /\ engine[box] \in {"crashed", "absent"}
       /\ recovery /\ startup.pending = 0
       /\ poll.busy /\ poll.current => poll.seen \in {"failed", "unknown"}

\* What a reboot owes is still in the row.
OwedKept ==
    "recorded" \in owed =>
       /\ Eligible /\ Matches
       /\ engine[box] \in Exited /\ startup.healthy \in 1 .. boot - 1
       /\ poll.busy => poll.seen \in {"stopped", "failed", "unknown"}
       /\ loop.at = "seen" => loop.seen \in {"stopped", "failed"}
       /\ up => me = boot /\ startup.pending = boot
       /\ startup.pending = boot => startup.unclean
       /\ recovery => startup.pending # 0

\* A failed operation takes with it what was recorded of its container.
LostForgets == lost # "none" => startup.healthy = 0

IInv ==
    /\ TypeOK /\ ServiceAgrees /\ DriverKnows /\ AttemptsAgree
    /\ HealthTruthful /\ CandidateHeld /\ FailureKnown /\ OwedKept
    /\ LostForgets
    /\ UncleanAfterReboot /\ ResumesWanted /\ FenceQuiet /\ NotForgotten

-----------------------------------------------------------------------------
(* What the documents promise and the code does not keep *)

\* Docs: "Skip ... previously known failure" (docs/services.md:84).
KnownFailureSkipped ==
    [][Claims /\ intent'.unclean => failure = {}]_vars

\* Docs: "A failed/interrupted attempt discards automatic eligibility until a
\* successful healthy runtime observation" (docs/services.md:101).
AttemptDiscards == [][Claims => lost # "resume"]_vars
=============================================================================
