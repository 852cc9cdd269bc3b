--------------------------- MODULE ProjectLaunch ---------------------------
(* The first launch of a project network (internal/managed/project_*.go,      *)
(* internal/projectnetwork, internal/runtimequalify/project_*_linux.go).      *)
(*                                                                            *)
(* One bridge and one anchor are created, the anchor is started, every member *)
(* gets an empty mount, and members are launched one after the other into the *)
(* anchor's network namespace.  Each of these tasks is one operation with a   *)
(* write-ahead journal: a stage is committed before the engine call it        *)
(* announces, the identity that call returned is committed before anything is *)
(* believed about it, and nothing is ever retried.  Workers share one gate;   *)
(* engine calls fail, lose their answer or answer late; processes end, and    *)
(* the service may die between any two steps.                                 *)
(*                                                                            *)
(* Simplifications: one project at one revision; an identity is the number of *)
(* the call that made the object; the engine does not refuse a second object  *)
(* of the same name; the update fence is RunnerJournal's; retirement and      *)
(* recovery, which block all of this, are MemberLifecycle's.                  *)
EXTENDS Integers, FiniteSets

CONSTANTS Member,     \* members of the plan
          Project,    \* the project itself, as the owner of the first two tasks
          MaxSpaces   \* bound: network namespaces of the anchor

\* Bound: calls of one stage that are counted; one more than may be made.
MaxMade == 2

ASSUME LaunchAssumption ==
    /\ Project \notin Member /\ IsFiniteSet(Member)
    /\ MaxSpaces \in Nat \ {0}

Prepare    == <<"prepare", Project>>
Start      == <<"start", Project>>
Storage(m) == <<"storage", m>>
Launch(m)  == <<"launch", m>>
Task == {Prepare, Start} \cup ({"storage", "launch"} \X Member)

\* The stages: prepare counts its Sequence (bridge 0-3, anchor 3-6), the
\* others the index of their phase; at a dispatched stage a call is due.
Last == [prepare |-> 6, start |-> 3, storage |-> 3, launch |-> 7]
Calls == [prepare |-> {1, 4}, start |-> {1}, storage |-> {1}, launch |-> {1, 3, 5}]
None == -1

VARIABLES
    \* durable: receipts and journals
    status,     \* of each task's operation, "none" before there is one
    stage,      \* of its journal; None before it is bound
    space,      \* namespace in the anchor Start's journal, 0 before
    peers,      \* members recorded in a launch's journal
    \* the service
    mode,       \* "up", "failed" (r.failed), "down"
    at,         \* where each task's worker is
    seen,       \* namespace of the anchor when its Start was last looked at
    \* the engine
    made,       \* how often the call of a stage took effect
    ns,         \* the running anchor's namespace, 0 when it has ended
    spaces,     \* namespaces so far
    joined,     \* namespace a member's container was started in
    alive       \* members whose process runs

durable == <<status, stage, space, peers>>
engine  == <<made, ns, spaces, joined, alive>>
vars    == <<durable, mode, at, seen, engine>>

-----------------------------------------------------------------------------
Status == {"none", "queued", "running", "interrupted", "succeeded"}
Place  == {"none", "gate", "open", "check", "commit", "call", "reply", "late", "ended"}

TypeOK ==
    /\ status \in [Task -> Status] /\ stage \in [Task -> None .. 7]
    /\ space \in 0 .. MaxSpaces /\ peers \in [Member -> SUBSET Member]
    /\ mode \in {"up", "failed", "down"} /\ at \in [Task -> Place]
    /\ seen \in 0 .. MaxSpaces
    /\ made \in [Task -> [1 .. 5 -> 0 .. MaxMade]]
    /\ ns \in 0 .. MaxSpaces /\ spaces \in 0 .. MaxSpaces
    /\ joined \in [Member -> 0 .. MaxSpaces] /\ alive \subseteq Member

Init ==
    /\ status = [t \in Task |-> "none"] /\ stage = [t \in Task |-> None]
    /\ space = 0 /\ peers = [m \in Member |-> {}]
    /\ mode = "up" /\ at = [t \in Task |-> "none"] /\ seen = 0
    /\ made = [t \in Task |-> [s \in 1 .. 5 |-> 0]]
    /\ ns = 0 /\ spaces = 0
    /\ joined = [m \in Member |-> 0] /\ alive = {}

-----------------------------------------------------------------------------
(* What the store demands of its rows before every change *)

PreparationValid ==
    LET s == status[Prepare]  g == stage[Prepare] IN
    /\ g = None => s \in {"none", "queued", "interrupted"}
    /\ g # None => s \in {"running", "interrupted", "succeeded"}
    /\ s = "succeeded" => g = 6

StartValid ==
    LET s == status[Start]  g == stage[Start] IN
    s # "none" => /\ status[Prepare] = "succeeded" /\ stage[Prepare] = 6
                  /\ g # None /\ (g = 3 <=> space # 0)
                  /\ s = "queued" => g = 0
                  /\ s = "succeeded" <=> g = 3

StorageValid ==
    \A m \in Member :
        LET s == status[Storage(m)]  g == stage[Storage(m)] IN
        s # "none" => /\ g # None /\ (s = "queued" => g = 0)
                      /\ s = "succeeded" <=> g = 3

\* A launch stands on an observed anchor and an observed mount.
Prerequisites(m) ==
    /\ status[Start] = "succeeded" /\ stage[Start] = 3
    /\ status[Storage(m)] = "succeeded" /\ stage[Storage(m)] = 3

LaunchBinding(m) ==
    /\ m \notin peers[m]
    /\ \A p \in peers[m] : stage[Launch(p)] = 7

LaunchValid ==
    \A m \in Member :
        LET s == status[Launch(m)]  g == stage[Launch(m)] IN
        s # "none" =>
            /\ Prerequisites(m)
            /\ g = None => s \in {"queued", "interrupted"}
            /\ g # None => /\ s # "queued" /\ (s = "succeeded" <=> g = 7)
                           /\ LaunchBinding(m)

\* mutant: the peers of a launch are not asked for.
LaunchPeersDone_Any(m) == TRUE

\* No other launch is pending or unresolved.
LaunchPeersDone(m) ==
    \A p \in Member \ {m} :
        status[Launch(p)] # "none" => status[Launch(p)] = "succeeded" /\ stage[Launch(p)] = 7
LaunchPeers(m) == {p \in Member \ {m} : status[Launch(p)] # "none"}

-----------------------------------------------------------------------------
(* Admission: one operation of each task, ever *)

\* mutant: an interrupted preparation may be asked for again.
PreparationAdmissible_Retry ==
    /\ PreparationValid
    /\ status[Prepare] \in {"none", "interrupted"}

PreparationAdmissible ==
    /\ PreparationValid
    /\ status[Prepare] = "none"

StartAdmissible ==
    /\ PreparationValid /\ StartValid
    /\ status[Start] = "none"
    /\ status[Prepare] = "succeeded"

StorageAdmissible(m) ==
    /\ StorageValid
    /\ status[Storage(m)] = "none"

LaunchAdmissible(m) ==
    /\ PreparationValid /\ StartValid /\ StorageValid /\ LaunchValid
    /\ Prerequisites(m)
    /\ status[Launch(m)] = "none"
    /\ LaunchPeersDone(m)

\* The receipt is committed, then its worker waits for the gate; an anchor
\* Start and a mount have their journal at once, the others at their begin.
Queue(t, g) ==
    /\ mode = "up"
    /\ status' = [status EXCEPT ![t] = "queued"]
    /\ stage' = [stage EXCEPT ![t] = g]
    /\ at' = [at EXCEPT ![t] = "gate"]
    /\ UNCHANGED <<space, peers, mode, seen, engine>>

QueuePreparation == PreparationAdmissible /\ Queue(Prepare, None)
QueueStart       == StartAdmissible /\ Queue(Start, 0)
QueueStorage(m)  == StorageAdmissible(m) /\ Queue(Storage(m), 0)
QueueLaunch(m)   == LaunchAdmissible(m) /\ Queue(Launch(m), None)

-----------------------------------------------------------------------------
(* The worker: the gate, and a second look at what was admitted *)

GateFree == \A t \in Task : at[t] \in {"none", "gate"}

Acquire(t) ==
    /\ at[t] = "gate" /\ GateFree
    /\ at' = [at EXCEPT ![t] = "open"]
    /\ UNCHANGED <<durable, mode, seen, engine>>

Fresh(t, g) == status[t] = "queued" /\ stage[t] = g

\* The workspace of a preparation is new; so is the one of a launch.
OpenPreparation == PreparationValid /\ Fresh(Prepare, None)
OpenStart       == PreparationValid /\ StartValid /\ Fresh(Start, 0) /\ stage[Prepare] = 6
OpenStorage(m)  == StorageValid /\ Fresh(Storage(m), 0)
OpenLaunch(m)   == /\ LaunchValid /\ Fresh(Launch(m), None)
                   /\ Prerequisites(m) /\ LaunchPeersDone(m)
                   /\ made[Launch(m)][1] = 0

Begin(t) ==
    /\ at[t] = "open"
    /\ status' = [status EXCEPT ![t] = "running"]
    /\ stage' = [stage EXCEPT ![t] = 0]
    /\ at' = [at EXCEPT ![t] = "check"]
    /\ UNCHANGED <<space, mode, seen, engine>>

BeginPreparation == OpenPreparation /\ Begin(Prepare) /\ UNCHANGED peers
BeginStart       == OpenStart /\ Begin(Start) /\ UNCHANGED peers
BeginStorage(m)  == OpenStorage(m) /\ Begin(Storage(m)) /\ UNCHANGED peers
BeginLaunch(m)   == OpenLaunch(m) /\ Begin(Launch(m))
                    /\ peers' = [peers EXCEPT ![m] = LaunchPeers(m)]

-----------------------------------------------------------------------------
(* What is looked at before the next stage is committed *)

Container(m) == made[Launch(m)][3] > 0
Containers   == {m \in Member : Container(m)}

SeesResource == stage[Prepare] = 2 => made[Prepare][1] = 1
SeesStoppedAnchor ==
    stage[Prepare] = 5 => made[Prepare][1] = 1 /\ made[Prepare][4] = 1 /\ ns = 0

\* A complete inventory without a member, the anchor stopped or running.
SeesAnchor ==
    /\ Containers = {}
    /\ stage[Start] = 0 => ns = 0
    /\ stage[Start] = 2 => ns # 0

SeesMount(m) == stage[Storage(m)] = 2 => made[Storage(m)][1] = 1

\* mutant: the namespaces of running members are not compared.
SeesNamespace_Anchor(known) == ns # 0

\* Every running member is in the recorded namespace, and so is the anchor.
SeesNamespace(known) ==
    /\ ns = space
    /\ \A p \in known : p \in alive => joined[p] = space

\* The recorded members, no other, and this one there, running, or not yet.
SeesMembers(m) ==
    LET present == stage[Launch(m)] >= 4
        running == stage[Launch(m)] = 6
        known   == peers[m] \cup (IF present THEN {m} ELSE {})
    IN /\ Containers = known
       /\ SeesNamespace(known)
       /\ present => (m \in alive <=> running)

\* The workspace is this dispatch's own, and holds.
Preflight(m) == stage[Launch(m)] \in {2, 4} => made[Launch(m)][1] = 1

Look(t) ==
    /\ at[t] = "check"
    /\ at' = [at EXCEPT ![t] = "commit"]
    /\ UNCHANGED <<durable, mode, engine>>

LookPreparation == SeesResource /\ SeesStoppedAnchor /\ Look(Prepare) /\ UNCHANGED seen
LookStart       == SeesAnchor /\ Look(Start) /\ seen' = ns
LookStorage(m)  == SeesMount(m) /\ Look(Storage(m)) /\ UNCHANGED seen
LookLaunch(m)   == Preflight(m) /\ SeesMembers(m) /\ Look(Launch(m)) /\ UNCHANGED seen

-----------------------------------------------------------------------------
(* Committing the next stage *)

Owned(t) == status[t] = "running"

Ready(t) == \/ at[t] = "commit" /\ stage[t] \notin Calls[t[1]]
            \/ at[t] \in {"reply", "late"} /\ stage[t] \in Calls[t[1]]

\* A late answer's identity is kept before its error is heard.
Commit(t) ==
    /\ Ready(t) /\ Owned(t)
    /\ LET g == stage[t] + 1 IN
       /\ stage' = [stage EXCEPT ![t] = g]
       /\ status' = [status EXCEPT ![t] = IF g = Last[t[1]] THEN "succeeded" ELSE @]
       /\ at' = [at EXCEPT ![t] = IF @ = "late" THEN "ended"
                                  ELSE IF g = Last[t[1]] THEN "none"
                                  ELSE IF g \in Calls[t[1]] THEN "call" ELSE "check"]
    /\ UNCHANGED <<peers, mode, seen, engine>>

\* Every commit validates the rows it depends on first.
CommitPreparation == PreparationValid /\ Commit(Prepare) /\ UNCHANGED space

\* The namespace that was seen; it may have ended since.
CommitStart ==
    /\ PreparationValid /\ StartValid /\ Commit(Start)
    /\ space' = IF stage[Start] = 2 THEN seen ELSE space
CommitStorage(m) == StorageValid /\ Commit(Storage(m)) /\ UNCHANGED space
CommitLaunch(m)  == LaunchValid /\ Commit(Launch(m)) /\ UNCHANGED space

-----------------------------------------------------------------------------
(* Calls of the engine and the file system *)

Made(t) == made' = [made EXCEPT ![t][stage[t]] = @ + 1]

\* The call takes effect and is answered, or its answer is lost, or it fails.
Answer(t, answers) ==
    /\ at[t] = "call" /\ made[t][stage[t]] < MaxMade
    /\ \/ Made(t) /\ \E a \in answers : at' = [at EXCEPT ![t] = a]
       \/ at' = [at EXCEPT ![t] = "ended"] /\ UNCHANGED made
    /\ UNCHANGED <<durable, mode, seen>>

\* An identity may come with an error; a Start has none to bring.
Identified   == {"reply", "late", "ended"}
Acknowledged == {"reply", "ended"}

CreateResource == Answer(Prepare, Identified) /\ UNCHANGED <<ns, spaces, joined, alive>>

StartAnchor ==
    /\ Answer(Start, Acknowledged) /\ spaces < MaxSpaces
    /\ IF made' # made /\ ns = 0 THEN ns' = spaces + 1 /\ spaces' = spaces + 1
                                 ELSE UNCHANGED <<ns, spaces>>
    /\ UNCHANGED <<joined, alive>>

\* A directory is made where there is none.
CreateMount(m) ==
    /\ Answer(Storage(m), Identified)
    /\ UNCHANGED <<ns, spaces, joined, alive>>

PrepareWorkspace(m) ==
    /\ stage[Launch(m)] = 1 /\ Answer(Launch(m), Identified)
    /\ UNCHANGED <<ns, spaces, joined, alive>>

CreateMember(m) ==
    /\ stage[Launch(m)] = 3 /\ Answer(Launch(m), Identified)
    /\ UNCHANGED <<ns, spaces, joined, alive>>

\* The container joins the namespace of the anchor that runs now.
StartMember(m) ==
    /\ stage[Launch(m)] = 5 /\ Answer(Launch(m), Acknowledged)
    /\ made' # made => ns # 0
    /\ joined' = [joined EXCEPT ![m] = IF made' # made THEN ns ELSE @]
    /\ alive' = IF made' # made THEN alive \cup {m} ELSE alive
    /\ UNCHANGED <<ns, spaces>>

-----------------------------------------------------------------------------
(* Failure, death and restart *)

Pending(t) == status[t] \in {"queued", "running"}
Interrupted(t) == IF Pending(t) THEN "interrupted" ELSE status[t]

\* Any check, call or commit may fail: the uncertainty is published.
Interrupt(t) ==
    /\ at[t] \notin {"none", "gate"}
    /\ status' = [status EXCEPT ![t] = Interrupted(t)]
    /\ at' = [at EXCEPT ![t] = "none"]
    /\ UNCHANGED <<stage, space, peers, mode, seen, engine>>

\* ... and when that cannot be saved either, admission closes.
InterruptFails(t) ==
    /\ at[t] \notin {"none", "gate"}
    /\ mode' = "failed" /\ at' = [at EXCEPT ![t] = "none"]
    /\ UNCHANGED <<durable, seen, engine>>

Crash ==
    /\ mode # "down" /\ mode' = "down"
    /\ at' = [t \in Task |-> "none"] /\ seen' = 0
    /\ UNCHANGED <<durable, engine>>

\* mutant: only running operations are interrupted.
Reconciled_Running(t) == IF status[t] = "running" THEN "interrupted" ELSE status[t]

Reconciled(t) == Interrupted(t)

\* The service refuses to start on rows it does not recognize.
Restart ==
    /\ mode = "down" /\ mode' = "up"
    /\ PreparationValid /\ StartValid /\ StorageValid /\ LaunchValid
    /\ status' = [t \in Task |-> Reconciled(t)]
    /\ UNCHANGED <<stage, space, peers, at, seen, engine>>

\* The engine's side: processes end, and an anchor comes back by itself.
AnchorEnds ==
    /\ ns # 0 /\ ns' = 0
    /\ UNCHANGED <<durable, mode, at, seen, made, spaces, joined, alive>>

AnchorReturns ==
    /\ ns = 0 /\ spaces \in 1 .. MaxSpaces - 1
    /\ ns' = spaces + 1 /\ spaces' = spaces + 1
    /\ UNCHANGED <<durable, mode, at, seen, made, joined, alive>>

MemberEnds(m) ==
    /\ m \in alive /\ alive' = alive \ {m}
    /\ UNCHANGED <<durable, mode, at, seen, made, ns, spaces, joined>>

-----------------------------------------------------------------------------
Requests ==
    \/ QueuePreparation \/ QueueStart
    \/ \E m \in Member : QueueStorage(m) \/ QueueLaunch(m)

Controller ==
    \/ BeginPreparation \/ LookPreparation \/ CommitPreparation
    \/ BeginStart \/ LookStart \/ CommitStart
    \/ \E m \in Member :
          \/ BeginStorage(m) \/ LookStorage(m) \/ CommitStorage(m)
          \/ BeginLaunch(m) \/ LookLaunch(m) \/ CommitLaunch(m)

Dispatch ==
    \/ CreateResource \/ StartAnchor
    \/ \E m \in Member :
          CreateMount(m) \/ PrepareWorkspace(m) \/ CreateMember(m) \/ StartMember(m)

Failure == \E t \in Task : Interrupt(t) \/ InterruptFails(t)

Worker == (\E t \in Task : Acquire(t)) \/ Controller \/ Dispatch \/ Failure

Outside == AnchorEnds \/ AnchorReturns \/ \E m \in Member : MemberEnds(m)

Next == Requests \/ Worker \/ Crash \/ Restart \/ Outside

\* One worker at a time holds the gate and ends; systemd restarts the service.
Fairness == WF_vars(Worker) /\ WF_vars(Restart)

Spec == Init /\ [][Next]_vars
FairSpec == Spec /\ Fairness

-----------------------------------------------------------------------------
(* Properties *)

\* Whatever is interrupted, lost or restarted, the rows stay ones the store
\* recognizes: otherwise no operation is admitted and the service never starts.
JournalsValid == PreparationValid /\ StartValid /\ StorageValid /\ LaunchValid

\* Nothing is created or started twice, nothing exists that a journal did not
\* announce, and nothing is recorded that does not exist.
DispatchedOnce ==
    \A t \in Task : \A s \in Calls[t[1]] :
        /\ made[t][s] <= 1
        /\ made[t][s] = 1 => stage[t] >= s
        /\ stage[t] > s => made[t][s] = 1

\* Every launched member was started in the namespace the anchor's journal
\* records, and of two launched members the later knows the earlier.
LaunchedTogether ==
    \A m \in Member : status[Launch(m)] = "succeeded" =>
        /\ joined[m] = space /\ space # 0
        /\ \A p \in Member \ {m} : status[Launch(p)] = "succeeded" =>
               (p \in peers[m] <=> m \notin peers[p])

\* Every operation ends, unless its end cannot be saved.
OperationsEnd ==
    \A t \in Task : Pending(t) ~> ~Pending(t) \/ mode = "failed"
-----------------------------------------------------------------------------
(* The inductive invariant *)

AtCall(t) == stage[t] \in Calls[t[1]]

\* Where a worker is and what its rows and its last call are.
WorkerInv ==
    \A t \in Task :
        /\ status[t] = "none" => stage[t] = None /\ at[t] = "none"
        /\ at[t] \in {"gate", "open"} => status[t] = "queued"
        /\ at[t] \notin {"none", "gate", "open"} =>
               status[t] = "running" /\ stage[t] \in 0 .. Last[t[1]] - 1
        /\ at[t] \in {"check", "commit"} => ~AtCall(t)
        /\ at[t] = "call" => AtCall(t) /\ made[t][stage[t]] = 0
        /\ at[t] \in {"reply", "late"} => AtCall(t) /\ made[t][stage[t]] = 1
        /\ stage[t] <= Last[t[1]]
        /\ mode = "down" => at[t] = "none"

\* The gate admits one worker.
GateInv ==
    \A t, u \in Task : at[t] \notin {"none", "gate"} /\ at[u] \notin {"none", "gate"} => t = u

\* Of two launches the later was asked for when the earlier was done.
PeersInv ==
    \A m, p \in Member :
        m # p /\ status[Launch(m)] # "none" /\ status[Launch(p)] # "none" =>
            /\ "succeeded" \in {status[Launch(m)], status[Launch(p)]}
            /\ stage[Launch(m)] # None /\ stage[Launch(p)] # None =>
                   (p \in peers[m] <=> m \notin peers[p])

\* What was seen when the last stage is committed.
SeenInv ==
    /\ space # 0 => stage[Start] = 3
    /\ at[Start] = "commit" /\ stage[Start] = 2 => seen # 0
    /\ \A m \in Member :
        \/ status[Launch(m)] = "succeeded"
        \/ at[Launch(m)] = "commit" /\ stage[Launch(m)] = 6
        => joined[m] = space /\ space # 0

IInv ==
    /\ TypeOK
    /\ JournalsValid /\ DispatchedOnce
    /\ WorkerInv /\ GateInv /\ PeersInv /\ SeenInv

-----------------------------------------------------------------------------
(* What a project is promised *)

Launched(m) == status[Launch(m)] = "succeeded"

Formation == INSTANCE NetworkFormation WITH
    Space    <- 1 .. MaxSpaces, NoSpace <- 0,
    prepared <- status[Prepare] = "succeeded",
    mounted  <- {m \in Member : status[Storage(m)] = "succeeded"},
    launched <- {m \in Member : Launched(m)},
    knows    <- [m \in Member |-> IF Launched(m) THEN peers[m] ELSE {}],
    home     <- [m \in Member |-> IF Launched(m) THEN joined[m] ELSE 0]

\* The four tasks together, whatever fails or ends between their steps, form
\* the network member by member: a launch that is reported done joined the
\* anchor's recorded namespace and knows exactly the members done before it.
ImplementsFormation == Formation!Spec
=============================================================================
