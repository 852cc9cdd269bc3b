-------------------------- MODULE MemberLifecycle --------------------------
(* Stopping, retiring and resuming the members of a running project network  *)
(* (internal/managed/project_member_{stop,stop_exit,retirement,resume,       *)
(* readiness,resumed_readiness,context_readiness}*.go, projectnetwork and    *)
(* the drivers of runtimequalify).                                           *)
(*                                                                           *)
(* A member's pier passes from container to container: a Stop signals the    *)
(* current one, an exit observation says how it ended, a retirement removes  *)
(* it and a resume creates and starts the next over the same pier.  Each is  *)
(* an operation with a write-ahead journal that is never retried, and one    *)
(* whose outcome is unknown fences the others.  A binding says which         *)
(* container of every member is current; its history is never stored, only   *)
(* derived from the resumes that succeeded.                                  *)
(*                                                                           *)
(* Simplifications: a look and the commit of what it saw are one step, as    *)
(* nothing reads the one between them; a process's exit code is written once *)
(* and the journals' copies of it are the original; the anchor keeps         *)
(* running; at most one observation is pending, and what it sees and reports *)
(* is one step; a service that cannot save an interruption dies at once;     *)
(* expansion and recovery, which block all of this, are not asked for.       *)
EXTENDS Integers, FiniteSets

CONSTANTS Member,   \* members of the project
          MaxGen    \* bound: containers of one member

ASSUME LifecycleAssumption == IsFiniteSet(Member) /\ MaxGen \in Nat \ {0}

Container == Member \X (1 .. MaxGen)
Stop(c)   == <<"stop", c>>
Retire(c) == <<"retire", c>>
Resume(c) == <<"resume", c>>
Job       == {"stop", "retire", "resume"} \X Container

\* The index of a journal's phase; at a dispatched one a call is due.
Last  == [stop |-> 3, retire |-> 3, resume |-> 5]
Calls == [stop |-> {1}, retire |-> {1}, resume |-> {1, 3}]
None  == -1

VARIABLES
    \* durable
    status,   \* of each job's operation, "none" before there is one
    stage,    \* of its journal; None before it is bound
    bind,     \* the binding a container's Stop was accepted under
    before,   \* the peers that ran when it was about to be signalled
    exits,    \* containers whose exit was observed
    ready,    \* receipts: a member was seen ready under a binding
    \* the service
    mode,     \* "up" or "down"
    at,       \* where each job's worker is
    obs,      \* the pending observation
    \* the engine
    calls,    \* calls it was asked for and has not carried out
    proc,     \* state of each container
    code      \* how its process ended

durable == <<status, stage, bind, before, exits, ready>>
engine  == <<calls, proc, code>>
vars    == <<durable, mode, at, obs, engine>>

Binding == [Member -> 1 .. MaxGen]
Initial == [m \in Member |-> 1]
Idle    == [kind |-> "none"]
Observation == {Idle} \cup
    [kind : {"initial", "resumed", "current", "exit"}, of : Container]

TypeOK ==
    /\ status \in [Job -> {"none", "queued", "running", "interrupted", "succeeded", "failed"}]
    /\ stage \in [Job -> None .. 5]
    /\ bind \in [Container -> Binding] /\ before \in [Container -> SUBSET Member]
    /\ exits \subseteq Container /\ ready \subseteq Member \X Binding
    /\ mode \in {"up", "down"} /\ at \in [Job -> {"none", "gate", "work", "wait"}]
    /\ obs \in Observation /\ calls \subseteq Job
    /\ proc \in [Container -> {"absent", "created", "running", "exited", "removed"}]
    /\ code \in [Container -> {"none", "clean", "unclean"}]

\* Every member was launched and runs.
Init ==
    /\ status = [j \in Job |-> "none"] /\ stage = [j \in Job |-> None]
    /\ bind = [c \in Container |-> Initial] /\ before = [c \in Container |-> {}]
    /\ exits = {} /\ ready = {}
    /\ mode = "up" /\ at = [j \in Job |-> "none"] /\ obs = Idle
    /\ calls = {} /\ code = [c \in Container |-> "none"]
    /\ proc = [c \in Container |-> IF c[2] = 1 THEN "running" ELSE "absent"]

-----------------------------------------------------------------------------
(* The history of bindings *)

Replaced(c) == status[Resume(c)] = "succeeded"
Done        == {c \in Container : Replaced(c)}
After(c)    == [bind[c] EXCEPT ![c[1]] = c[2] + 1]
Bindings    == {Initial} \cup {After(c) : c \in Done}
On(b)       == {<<m, b[m]>> : m \in Member}

\* Successful resumes form one chain from the initial binding.
Resolves ==
    /\ \A c \in Done : bind[c] \in Bindings /\ c \in On(bind[c])
    /\ \A c, d \in Done : bind[c] = bind[d] => c = d

\* The binding nothing has replaced yet.
Current == CHOOSE b \in Bindings : \A c \in Done : bind[c] # b

-----------------------------------------------------------------------------
(* What the store demands of its rows before every change *)

Live(j)     == status[j] \in {"queued", "running"}
Exists(j)   == status[j] # "none"
Stopped(c)  == stage[Stop(c)] = 3
Clean(c)    == Stopped(c) /\ code[c] = "clean"

PendingStop(c) ==
    \/ Live(Stop(c))
    \/ status[Stop(c)] = "interrupted" /\ ~Stopped(c) /\ ~Replaced(c)

StopsValid ==
    /\ Resolves
    /\ \A r \in ready : r[2] \in Bindings
    /\ \A c \in Container : Exists(Stop(c)) =>
        /\ bind[c] \in Bindings /\ c \in On(bind[c]) /\ <<c[1], bind[c]>> \in ready
        /\ status[Stop(c)] = "queued" => stage[Stop(c)] = 0
        /\ status[Stop(c)] = "succeeded" => Clean(c)
        /\ status[Stop(c)] = "failed" => Stopped(c) /\ ~Clean(c)
    /\ \A c, d \in Container : PendingStop(c) /\ PendingStop(d) => c = d

\* A Stop that ended, with the process it was about to signal on record.
Observable(c) ==
    /\ stage[Stop(c)] >= 1
    /\ status[Stop(c)] \in {"interrupted", "succeeded", "failed"}

ExitsValid == StopsValid /\ \A c \in exits : Observable(c)

\* mutant: how the process ended is not asked.
CleanExit_Any(c) == c \in exits

CleanExit(c) == c \in exits /\ code[c] = "clean"

Unresolved(j) == status[j] \notin {"none", "succeeded"}

RetirementsValid ==
    /\ ExitsValid
    /\ \A c \in Container : Exists(Retire(c)) =>
        /\ CleanExit(c) /\ status[Retire(c)] # "failed"
        /\ status[Retire(c)] = "queued" => stage[Retire(c)] = 0
        /\ status[Retire(c)] = "succeeded" => stage[Retire(c)] = 3
    /\ \A c, d \in Container : Unresolved(Retire(c)) /\ Unresolved(Retire(d)) => c = d

Retired(c) == status[Retire(c)] = "succeeded" /\ stage[Retire(c)] = 3

ResumesValid ==
    /\ RetirementsValid
    /\ \A c \in Container : Exists(Resume(c)) =>
        /\ Retired(c) /\ status[Resume(c)] # "failed"
        /\ status[Resume(c)] = "queued" => stage[Resume(c)] = None
        /\ stage[Resume(c)] = None => status[Resume(c)] \in {"queued", "interrupted"}
        /\ status[Resume(c)] = "succeeded" => stage[Resume(c)] = 5
    /\ \A c, d \in Container : Unresolved(Resume(c)) /\ Unresolved(Resume(d)) => c = d

\* mutant: an interrupted removal or resume does not fence.
RetirementClear_Live(own) == \A j \in Job \ own : j[1] # "stop" => ~Live(j)

\* Unresolved removals and resumes fence every other job.
RetirementClear(own) == \A j \in Job \ own : j[1] # "stop" => ~Unresolved(j)

\* Another Stop is not settled incidentally.
OthersStopped(c) ==
    \A d \in Container \ {c} : Exists(Stop(d)) => Stopped(d) \/ Replaced(d)

-----------------------------------------------------------------------------
(* Admission *)

Active == (\E j \in Job : Live(j)) \/ obs # Idle

Accept(j, g) ==
    /\ mode = "up" /\ status[j] = "none" /\ ~Active /\ RetirementClear({})
    /\ ResumesValid
    /\ status' = [status EXCEPT ![j] = "queued"]
    /\ stage' = [stage EXCEPT ![j] = g]
    /\ at' = [at EXCEPT ![j] = "gate"]
    /\ UNCHANGED <<before, exits, ready, mode, obs, engine>>

\* mutant: an interrupted Stop is not waited for.
NoPendingStop_Live == \A d \in Container : ~Live(Stop(d))

NoPendingStop == \A d \in Container : ~PendingStop(d)

\* A member seen ready under the current binding, no Stop of its container
\* ever, and no other Stop that is not settled.
AcceptStop(m) ==
    LET c == <<m, Current[m]>> IN
    /\ Accept(Stop(c), 0)
    /\ <<m, Current>> \in ready
    /\ NoPendingStop
    /\ bind' = [bind EXCEPT ![c] = Current]

\* The last container of a pier within the bound is only stopped.
AcceptRetire(c) ==
    /\ c[2] < MaxGen
    /\ CleanExit(c) /\ Accept(Retire(c), 0) /\ UNCHANGED bind
    /\ bind[c] = Current /\ OthersStopped(c)

AcceptResume(c) ==
    /\ c[2] < MaxGen
    /\ Retired(c) /\ Accept(Resume(c), None) /\ UNCHANGED bind
    /\ bind[c] = Current /\ OthersStopped(c)

\* Observations change nothing; they need no journal.
Ask(kind, c) ==
    /\ mode = "up" /\ obs = Idle /\ RetirementClear({}) /\ ResumesValid
    /\ obs' = [kind |-> kind, of |-> c]
    /\ UNCHANGED <<durable, mode, at, engine>>

AskInitial(m) == Ask("initial", <<m, 1>>)
AskResumed(c) == Replaced(c) /\ ~Active /\ Ask("resumed", c)
AskCurrent(m) ==
    /\ <<m, Initial>> \in ready /\ ~Active
    /\ \A d \in On(Current) : ~Exists(Stop(d))
    /\ Ask("current", <<m, Current[m]>>)
AskExit(c) == Observable(c) /\ Ask("exit", c)

-----------------------------------------------------------------------------
(* The worker behind the gate *)

GateFree == \A j \in Job : at[j] \in {"none", "gate"}

\* The journals a driver is opened from: every other Stop is of a container
\* of this binding and settled, or of one that was replaced before it.
Source(c) ==
    \A d \in Container \ {c} : Exists(Stop(d)) =>
        IF d \in On(bind[c]) THEN d[1] # c[1] /\ Stopped(d)
                             ELSE Replaced(d) /\ d[2] < bind[c][d[1]]

Begin(j, g) ==
    /\ at[j] = "gate" /\ GateFree /\ status[j] = "queued"
    /\ ResumesValid /\ RetirementClear({j})
    /\ status' = [status EXCEPT ![j] = "running"]
    /\ stage' = [stage EXCEPT ![j] = g]
    /\ at' = [at EXCEPT ![j] = "work"]
    /\ UNCHANGED <<bind, before, exits, ready, mode, obs, engine>>

BeginStop(c)   == Begin(Stop(c), 0) /\ bind[c] = Current /\ Source(c)
BeginRetire(c) == Begin(Retire(c), 0) /\ CleanExit(c) /\ Source(c)
BeginResume(c) == Begin(Resume(c), 0) /\ Retired(c) /\ bind[c] = Current /\ Source(c)

-----------------------------------------------------------------------------
(* What is looked at: a complete inventory *)

Present(p) == {g \in 1 .. MaxGen : proc[<<p, g>>] \notin {"absent", "removed"}}
Sees(p, g, s) == Present(p) = {g} /\ proc[<<p, g>>] = s
Peers(c) == Member \ {c[1]}

\* Before a Stop's dispatch a peer runs unless a Stop of it is on record.
PeersAccounted(c) ==
    \A p \in Peers(c) :
        Sees(p, bind[c][p], IF Exists(Stop(<<p, bind[c][p]>>)) THEN "exited" ELSE "running")

\* From then on every peer is as it was.
PeersSame(c) ==
    \A p \in Peers(c) : Sees(p, bind[c][p], IF p \in before[c] THEN "running" ELSE "exited")

SeesStop(c) ==
    /\ Sees(c[1], c[2], IF stage[Stop(c)] < 2 THEN "running" ELSE "exited")
    /\ IF stage[Stop(c)] = 0 THEN PeersAccounted(c) ELSE PeersSame(c)

SeesRetire(c) ==
    /\ PeersSame(c)
    /\ IF stage[Retire(c)] < 2 THEN Sees(c[1], c[2], "exited") ELSE Present(c[1]) = {}

SeesResume(c) ==
    /\ PeersSame(c)
    /\ CASE stage[Resume(c)] \in {0, 1} -> Present(c[1]) = {}
         [] stage[Resume(c)] \in {2, 3} -> Sees(c[1], c[2] + 1, "created")
         [] OTHER                       -> Sees(c[1], c[2] + 1, "running")

-----------------------------------------------------------------------------
(* Stages *)

Advance(j) ==
    /\ status[j] = "running" /\ stage[j] < Last[j[1]]
    /\ stage' = [stage EXCEPT ![j] = @ + 1]
    /\ UNCHANGED <<status, bind, exits, ready, mode, obs, engine>>

\* What was seen is committed with the stage it allows.
Look(j) ==
    /\ at[j] = "work" /\ stage[j] \notin Calls[j[1]]
    /\ Advance(j) /\ UNCHANGED at

LookStop(c) ==
    /\ Look(Stop(c)) /\ StopsValid /\ SeesStop(c)
    /\ before' = IF stage[Stop(c)] # 0 THEN before
                 ELSE [before EXCEPT ![c] =
                          {p \in Peers(c) : proc[<<p, bind[c][p]>>] = "running"}]
LookRetire(c) == Look(Retire(c)) /\ RetirementsValid /\ SeesRetire(c) /\ UNCHANGED before
LookResume(c) == Look(Resume(c)) /\ ResumesValid /\ SeesResume(c) /\ UNCHANGED before

\* A driver looks again, then asks the engine once.
Issue(j) ==
    /\ at[j] = "work" /\ stage[j] \in Calls[j[1]]
    /\ calls' = calls \cup {j}
    /\ at' = [at EXCEPT ![j] = "wait"]
    /\ UNCHANGED <<durable, mode, obs, proc, code>>

SignalStop(c)    == Issue(Stop(c)) /\ SeesStop(c)
RemoveStopped(c) == Issue(Retire(c)) /\ SeesRetire(c)
CreateOrStart(c) == Issue(Resume(c)) /\ SeesResume(c)

\* A Reply proves the call; its stage is committed.
Reply(j) ==
    /\ at[j] = "wait" /\ j \notin calls
    /\ Advance(j)
    /\ at' = [at EXCEPT ![j] = "work"] /\ UNCHANGED before

Finish(j) ==
    /\ at[j] = "work" /\ status[j] = "running" /\ stage[j] = Last[j[1]]
    /\ j[1] = "stop" => Clean(j[2])
    /\ status' = [status EXCEPT ![j] = "succeeded"]
    /\ at' = [at EXCEPT ![j] = "none"]
    /\ UNCHANGED <<stage, bind, before, exits, ready, mode, obs, engine>>

Running(b) == \A p \in Member : Sees(p, b[p], "running")

\* The evidence an observation must bring, and the receipt it becomes.
Complete ==
    /\ obs # Idle /\ GateFree /\ ResumesValid /\ RetirementClear({})
    /\ LET c == obs.of IN
       \/ /\ obs.kind = "initial" /\ Running(Initial)
          /\ ready' = ready \cup {<<c[1], Initial>>} /\ UNCHANGED exits
       \/ /\ obs.kind = "resumed" /\ PeersSame(c) /\ Sees(c[1], c[2] + 1, "running")
          /\ ready' = ready \cup {<<c[1], After(c)>>} /\ UNCHANGED exits
       \/ /\ obs.kind = "current" /\ c \in On(Current) /\ Running(Current)
          /\ ready' = ready \cup {<<c[1], Current>>} /\ UNCHANGED exits
       \/ /\ obs.kind = "exit" /\ Source(c) /\ PeersSame(c) /\ Sees(c[1], c[2], "exited")
          /\ exits' = exits \cup {c} /\ UNCHANGED ready
    /\ obs' = Idle
    /\ UNCHANGED <<status, stage, bind, before, mode, at, engine>>

-----------------------------------------------------------------------------
(* Failure, death and restart *)

\* A Stop that saw an unclean exit has failed; all else stays unresolved.
Interrupted(j) ==
    IF ~Live(j) THEN status[j]
    ELSE IF j[1] = "stop" /\ Stopped(j[2]) /\ ~Clean(j[2]) THEN "failed"
    ELSE "interrupted"

\* A worker that took the gate may fail at any look, call or commit.
Taken(j) == at[j] \in {"work", "wait"} \/ (at[j] = "gate" /\ GateFree)

Interrupt(j) ==
    /\ Taken(j)
    /\ status' = [status EXCEPT ![j] = Interrupted(j)]
    /\ at' = [at EXCEPT ![j] = "none"]
    /\ UNCHANGED <<stage, bind, before, exits, ready, mode, obs, engine>>

GiveUp ==
    /\ obs # Idle /\ GateFree
    /\ obs' = Idle
    /\ UNCHANGED <<durable, mode, at, engine>>

Crash ==
    /\ mode = "up" /\ mode' = "down"
    /\ at' = [j \in Job |-> "none"] /\ obs' = Idle
    /\ UNCHANGED <<durable, engine>>

\* The service refuses to start on rows it does not recognize.
Restart ==
    /\ mode = "down" /\ mode' = "up" /\ ResumesValid
    /\ status' = [j \in Job |-> Interrupted(j)]
    /\ UNCHANGED <<stage, bind, before, exits, ready, at, obs, engine>>

-----------------------------------------------------------------------------
(* The engine carries out what it was asked for, now, late or never *)

Land(j) ==
    /\ j \in calls /\ calls' = calls \ {j}
    /\ LET old == j[2]  new == <<old[1], old[2] + 1>> IN
       \/ j[1] = "stop" /\ UNCHANGED proc
       \/ j[1] = "retire" /\ proc[old] # "running" /\ proc' = [proc EXCEPT ![old] = "removed"]
       \/ /\ j[1] = "resume"
          /\ proc' = [proc EXCEPT ![new] = IF stage[j] = 1 THEN "created" ELSE "running"]
    /\ UNCHANGED <<durable, mode, at, obs, code>>

\* Signalled or not, a process may end, cleanly or not.
ProcessEnds(c) ==
    /\ proc[c] = "running"
    /\ proc' = [proc EXCEPT ![c] = "exited"]
    /\ \E how \in {"clean", "unclean"} : code' = [code EXCEPT ![c] = how]
    /\ UNCHANGED <<durable, mode, at, obs, calls>>

-----------------------------------------------------------------------------
Requests ==
    \/ \E m \in Member : AcceptStop(m) \/ AskInitial(m) \/ AskCurrent(m)
    \/ \E c \in Container : AcceptRetire(c) \/ AcceptResume(c) \/ AskResumed(c) \/ AskExit(c)

Worker ==
    \/ \E c \in Container :
        \/ BeginStop(c) \/ LookStop(c) \/ SignalStop(c)
        \/ BeginRetire(c) \/ LookRetire(c) \/ RemoveStopped(c)
        \/ BeginResume(c) \/ LookResume(c) \/ CreateOrStart(c)
    \/ \E j \in Job : Reply(j) \/ Finish(j) \/ Interrupt(j)
    \/ Complete \/ GiveUp

Outside == (\E j \in Job : Land(j)) \/ (\E c \in Container : ProcessEnds(c))

Next == Requests \/ Worker \/ Crash \/ Restart \/ Outside

Spec == Init /\ [][Next]_vars

-----------------------------------------------------------------------------
(* Properties *)

\* Whatever is interrupted, lost or restarted, the rows stay ones the store
\* recognizes and the bindings stay one chain: otherwise nothing is admitted
\* and the service never starts.
JournalsValid == ResumesValid

\* A pier is handed to a next container only when every earlier one ended
\* cleanly and is gone, however late a call of its replacement arrives.
CleanHandover ==
    \A c \in Container : proc[c] # "absent" =>
        \A g \in 1 .. c[2] - 1 : proc[<<c[1], g>>] = "removed" /\ code[<<c[1], g>>] = "clean"

\* A call that was announced and whose outcome no journal has.
Uncertain(j) == ~Replaced(j[2]) /\ stage[j] >= 1 /\ stage[j] < Last[j[1]]

\* Nothing is signalled, removed, created or started while another call's
\* outcome is unknown, except to settle the Stop of that very container.
UncertainFences ==
    [][\A j \in calls' \ calls : \A k \in Job \ {j} :
          Uncertain(k) => (k[1] = "stop" /\ k[2] = j[2])]_vars
-----------------------------------------------------------------------------
(* The inductive invariant *)

\* The bindings are one chain and the current one is its end.
ChainInv ==
    /\ Current \in Bindings /\ \A c \in Done : bind[c] # Current
    /\ \A b \in Bindings : \A m \in Member : b[m] <= Current[m]
    /\ \A b \in Bindings \ {Current} : \E c \in Done : bind[c] = b

\* Where a worker is, and the call it made.
WorkerInv ==
    \A j \in Job :
        /\ status[j] = "none" => stage[j] = None
        /\ at[j] # "none" => mode = "up" /\ Live(j)
        /\ at[j] = "gate" => status[j] = "queued"
        /\ at[j] \in {"work", "wait"} => status[j] = "running" /\ stage[j] >= 0
        /\ at[j] = "wait" => stage[j] \in Calls[j[1]]
        /\ at[j] = "work" => j \notin calls
        /\ status[j] = "queued" => stage[j] <= 0 /\ at[j] \notin {"work", "wait"}
        /\ stage[j] <= Last[j[1]]
        /\ j \in calls => stage[j] \in Calls[j[1]]
                              /\ status[j] \in {"running", "interrupted"}

\* What keeps every other job out.
Busy(j) == Live(j) \/ (j[1] # "stop" /\ Unresolved(j))

\* A job under way, or a removal or resume of unknown outcome, is the only one.
AloneInv ==
    \A j \in Job : Busy(j) =>
        /\ bind[j[2]] = Current /\ OthersStopped(j[2])
        /\ \A k \in Job \ {j} : ~Busy(k)

\* A pier's containers: the current one is there or was removed, earlier ones
\* were replaced, and the next one comes with a resume.
ProcInv ==
    \A c \in Container :
        /\ c[2] < Current[c[1]] => Replaced(c)
        /\ c[2] <= Current[c[1]] => proc[c] \notin {"absent", "created"}
        /\ c[2] > Current[c[1]] /\ proc[c] # "absent" =>
               /\ c[2] = Current[c[1]] + 1
               /\ Exists(Resume(<<c[1], Current[c[1]]>>))
        /\ proc[c] = "removed" => Exists(Retire(c))
        /\ stage[Retire(c)] = 3 => proc[c] = "removed"
        /\ c \in exits \/ Stopped(c) => proc[c] \in {"exited", "removed"}
        /\ Exists(Resume(c)) => c[2] < MaxGen
        /\ stage[Resume(c)] = 5 =>
               proc[<<c[1], c[2] + 1>>] \notin {"absent", "created"}

\* What a pending observation is of.
ObsInv ==
    /\ obs.kind = "exit" => Observable(obs.of)
    /\ obs.kind = "resumed" => Replaced(obs.of)

IInv == /\ TypeOK /\ JournalsValid /\ ChainInv
        /\ WorkerInv /\ AloneInv /\ ProcInv /\ ObsInv

\* A resume's call, however late, finds the next container as it was asked for.
CallsDue ==
    \A c \in Container : Resume(c) \in calls =>
        LET new == <<c[1], c[2] + 1>> IN
        /\ stage[Resume(c)] = 1 => proc[new] = "absent"
        /\ stage[Resume(c)] = 3 => proc[new] = "created"

-----------------------------------------------------------------------------
(* What the owner of a pier is promised *)

Life(c) == IF proc[c] = "exited" THEN code[c] ELSE proc[c]

Succession == INSTANCE PierSuccession WITH life <- [c \in Container |-> Life(c)]

\* Whatever is interrupted, lost or late, the calls that take effect are those
\* of one succession: no removal of a container that did not end cleanly, no
\* container beside another, none created twice or started before it is made.
ImplementsSuccession == Succession!Spec
=============================================================================
