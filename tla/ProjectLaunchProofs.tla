------------------------ MODULE ProjectLaunchProofs ------------------------
(* The invariant of ProjectLaunch is inductive, for every set of members.      *)
(* What a step of a worker does to its own rows is proved once for every task; *)
(* what its commit means for the other rows is proved task by task.            *)
EXTENDS ProjectLaunch, TLAPS

-----------------------------------------------------------------------------
(* Names, stages and calls *)

\* Every task is one of the four kinds, and no two kinds share a task.
LEMMA Names ==
    /\ Prepare \in Task /\ Start \in Task /\ Prepare # Start
    /\ \A m \in Member :
        /\ Storage(m) \in Task /\ Launch(m) \in Task
        /\ Storage(m) \notin {Prepare, Start} /\ Launch(m) \notin {Prepare, Start}
        /\ \A p \in Member : /\ Storage(m) # Launch(p)
                             /\ Storage(m) = Storage(p) => m = p
                             /\ Launch(m) = Launch(p) => m = p
  BY DEF Prepare, Start, Storage, Launch, Task

\* The last stage and the dispatched stages of each kind.
LEMMA Stages ==
    /\ Last[Prepare[1]] = 6 /\ Calls[Prepare[1]] = {1, 4}
    /\ Last[Start[1]] = 3 /\ Calls[Start[1]] = {1}
    /\ \A m \in Member : /\ Last[Storage(m)[1]] = 3 /\ Calls[Storage(m)[1]] = {1}
                         /\ Last[Launch(m)[1]] = 7 /\ Calls[Launch(m)[1]] = {1, 3, 5}
  BY DEF Prepare, Start, Storage, Launch, Last, Calls

\* The first and the last stage dispatch nothing, nor do two stages in a row.
LEMMA Dispatched ==
    \A t \in Task :
        /\ Last[t[1]] \in 3 .. 7 /\ Calls[t[1]] \subseteq 1 .. 5
        /\ 0 \notin Calls[t[1]] /\ None \notin Calls[t[1]]
        /\ \A s \in Calls[t[1]] : s + 1 < Last[t[1]] /\ s + 1 \notin Calls[t[1]]
<1>. TAKE t \in Task
<1>1. t \in {Prepare, Start} \/ \E m \in Member : t \in {Storage(m), Launch(m)}
  BY DEF Task, Prepare, Start, Storage, Launch
<1>. QED
  BY <1>1, Stages DEF None

-----------------------------------------------------------------------------
(* The initial state *)

\* It holds at first.
LEMMA InitIInv == Init => IInv
<1>. SUFFICES ASSUME Init PROVE IInv
  OBVIOUS
<1>1. TypeOK
  BY LaunchAssumption DEF Init, TypeOK, Status, Place, None, MaxMade
<1>2. \A t \in Task : status[t] = "none" /\ stage[t] = None /\ at[t] = "none"
  BY DEF Init
<1>3. \A t \in Task : \A s \in Calls[t[1]] : made[t][s] = 0
  BY Dispatched DEF Init
<1>4. JournalsValid
  BY <1>2, Names DEF JournalsValid, PreparationValid, StartValid, StorageValid, LaunchValid
<1>5. DispatchedOnce
  BY <1>2, <1>3, Dispatched DEF DispatchedOnce, None
<1>6. WorkerInv /\ GateInv
  BY <1>2, Dispatched DEF WorkerInv, GateInv, None
<1>7. PeersInv /\ SeenInv
  BY <1>2, Names DEF Init, PeersInv, SeenInv
<1>. QED
  BY <1>1, <1>4, <1>5, <1>6, <1>7 DEF IInv

-----------------------------------------------------------------------------
(* A step of one worker, whatever its task: its own rows *)

\* What the generic lemmas establish.
OwnInv == TypeOK /\ DispatchedOnce /\ WorkerInv /\ GateInv

\* A call was made once if its stage is behind, never if it is ahead.
LEMMA Called ==
    ASSUME IInv, NEW t \in Task, NEW s \in Calls[t[1]]
    PROVE  /\ s \in 1 .. 5 /\ stage[t] \in None .. 7 /\ made[t][s] \in {0, 1}
           /\ stage[t] < s => made[t][s] = 0
           /\ stage[t] > s => made[t][s] = 1
<1>1. s \in 1 .. 5
  BY Dispatched
<1>2. stage[t] \in None .. 7 /\ made[t][s] \in 0 .. 2
  BY <1>1 DEF IInv, TypeOK, MaxMade
<1>3. /\ made[t][s] <= 1
      /\ made[t][s] = 1 => stage[t] >= s
      /\ stage[t] > s => made[t][s] = 1
  BY DEF IInv, DispatchedOnce
<1>. QED
  BY <1>1, <1>2, <1>3 DEF None

\* The counts stay right if stages only move where they may.
LEMMA StagesMove ==
    ASSUME IInv, NEW t \in Task, UNCHANGED made,
           \A u \in Task : u # t => stage'[u] = stage[u],
           \A s \in Calls[t[1]] : (stage'[t] < s => made[t][s] = 0)
                               /\ (stage'[t] > s => made[t][s] = 1),
           stage'[t] \in None .. 7
    PROVE  DispatchedOnce'
<1>. SUFFICES ASSUME NEW u \in Task, NEW s \in Calls[u[1]]
             PROVE  /\ made[u][s] <= 1
                    /\ made[u][s] = 1 => stage'[u] >= s
                    /\ stage'[u] > s => made[u][s] = 1
  BY DEF DispatchedOnce
<1>1. s \in 1 .. 5 /\ made[u][s] \in {0, 1}
  BY Called
<1>2. CASE u = t
  BY <1>1, <1>2 DEF None
<1>3. CASE u # t
  BY <1>1, <1>3 DEF IInv, DispatchedOnce
<1>. QED
  BY <1>2, <1>3

\* A receipt is queued with a fresh journal.
LEMMA QueueOwn ==
    ASSUME IInv, NEW t \in Task, NEW g \in {None, 0}, status[t] = "none", Queue(t, g)
    PROVE  OwnInv'
<1>1. /\ status' = [status EXCEPT ![t] = "queued"]
      /\ stage' = [stage EXCEPT ![t] = g] /\ at' = [at EXCEPT ![t] = "gate"]
      /\ UNCHANGED <<space, peers, mode, seen, made, ns, spaces, joined, alive>>
  BY DEF Queue, engine
<1>2. stage[t] = None /\ at[t] = "none" /\ mode = "up"
  BY DEF IInv, WorkerInv, Queue
<1>3. TypeOK'
  BY <1>1 DEF IInv, TypeOK, Status, Place, None
<1>4. DispatchedOnce'
  <2>1. \A s \in Calls[t[1]] : s \in 1 .. 5 /\ made[t][s] = 0
    BY <1>2, Called DEF None
  <2>2. \A u \in Task : u # t => stage'[u] = stage[u]
    BY <1>1 DEF IInv, TypeOK
  <2>3. stage'[t] \in {None, 0}
    BY <1>1 DEF IInv, TypeOK
  <2>4. /\ \A s \in Calls[t[1]] : (stage'[t] < s => made[t][s] = 0)
                               /\ (stage'[t] > s => made[t][s] = 1)
        /\ stage'[t] \in None .. 7
    BY <2>1, <2>3 DEF None
  <2>5. UNCHANGED made
    BY <1>1
  <2>. QED
    BY <2>2, <2>4, <2>5, StagesMove
<1>5. WorkerInv'
  BY <1>1, <1>2, Dispatched DEF IInv, TypeOK, WorkerInv, AtCall, None
<1>6. GateInv'
  BY <1>1, <1>2 DEF IInv, TypeOK, GateInv
<1>. QED
  BY <1>3, <1>4, <1>5, <1>6 DEF OwnInv

\* One worker takes the gate.
LEMMA AcquireOwn == ASSUME IInv, NEW t \in Task, Acquire(t) PROVE OwnInv'
<1>1. /\ at' = [at EXCEPT ![t] = "open"] /\ at[t] = "gate"
      /\ UNCHANGED <<status, stage, space, peers, mode, seen, made, ns, spaces, joined, alive>>
  BY DEF Acquire, durable, engine
<1>2. TypeOK'
  BY <1>1 DEF IInv, TypeOK, Place
<1>3. DispatchedOnce'
  BY <1>1 DEF IInv, DispatchedOnce
<1>4. WorkerInv'
  BY <1>1 DEF IInv, TypeOK, WorkerInv, AtCall
<1>5. GateInv'
  BY <1>1 DEF IInv, TypeOK, GateInv, Acquire, GateFree
<1>. QED
  BY <1>2, <1>3, <1>4, <1>5 DEF OwnInv

\* It begins a journal that was fresh.
LEMMA BeginOwn ==
    ASSUME IInv, NEW t \in Task, Begin(t), stage[t] \in {None, 0}, peers' \in [Member -> SUBSET Member]
    PROVE  OwnInv'
<1>1. /\ status' = [status EXCEPT ![t] = "running"] /\ status[t] = "queued"
      /\ stage' = [stage EXCEPT ![t] = 0]
      /\ at' = [at EXCEPT ![t] = "check"] /\ at[t] = "open"
      /\ UNCHANGED <<space, mode, seen, made, ns, spaces, joined, alive>>
  BY DEF Begin, engine, IInv, WorkerInv
<1>2. TypeOK'
  BY <1>1 DEF IInv, TypeOK, Place, Status, None
<1>3. DispatchedOnce'
  <2>1. \A s \in Calls[t[1]] : s \in 1 .. 5 /\ made[t][s] = 0
    BY Called DEF None
  <2>2. \A u \in Task : u # t => stage'[u] = stage[u]
    BY <1>1 DEF IInv, TypeOK
  <2>3. stage'[t] = 0
    BY <1>1 DEF IInv, TypeOK
  <2>4. /\ \A s \in Calls[t[1]] : (stage'[t] < s => made[t][s] = 0)
                               /\ (stage'[t] > s => made[t][s] = 1)
        /\ stage'[t] \in None .. 7
    BY <2>1, <2>3 DEF None
  <2>5. UNCHANGED made
    BY <1>1
  <2>. QED
    BY <2>2, <2>4, <2>5, StagesMove
<1>4. WorkerInv'
  BY <1>1, Dispatched DEF IInv, TypeOK, WorkerInv, AtCall, None
<1>5. GateInv'
  BY <1>1 DEF IInv, TypeOK, GateInv
<1>. QED
  BY <1>2, <1>3, <1>4, <1>5 DEF OwnInv

\* It looks before it commits.
LEMMA LookOwn ==
    ASSUME IInv, NEW t \in Task, Look(t), seen' \in 0 .. MaxSpaces
    PROVE  OwnInv'
<1>1. /\ at' = [at EXCEPT ![t] = "commit"] /\ at[t] = "check"
      /\ UNCHANGED <<status, stage, space, peers, mode, made, ns, spaces, joined, alive>>
  BY DEF Look, durable, engine
<1>2. TypeOK'
  BY <1>1 DEF IInv, TypeOK, Place
<1>3. DispatchedOnce'
  BY <1>1 DEF IInv, DispatchedOnce
<1>4. WorkerInv'
  BY <1>1 DEF IInv, TypeOK, WorkerInv, AtCall
<1>5. GateInv'
  BY <1>1 DEF IInv, TypeOK, GateInv
<1>. QED
  BY <1>2, <1>3, <1>4, <1>5 DEF OwnInv

\* It commits one stage more, and a dispatched one is left only after its call.
LEMMA CommitOwn ==
    ASSUME IInv, NEW t \in Task, Commit(t), space' \in 0 .. MaxSpaces
    PROVE  OwnInv'
<1> DEFINE g == stage[t] + 1
<1>1. /\ stage' = [stage EXCEPT ![t] = g]
      /\ status' = [status EXCEPT ![t] = IF g = Last[t[1]] THEN "succeeded" ELSE @]
      /\ at' = [at EXCEPT ![t] = IF @ = "late" THEN "ended"
                                 ELSE IF g = Last[t[1]] THEN "none"
                                 ELSE IF g \in Calls[t[1]] THEN "call" ELSE "check"]
      /\ UNCHANGED <<peers, mode, seen, made, ns, spaces, joined, alive>>
      /\ status[t] = "running" /\ at[t] \in {"commit", "reply", "late"}
  BY DEF Commit, Ready, Owned, engine
<1>2. /\ stage[t] \in 0 .. Last[t[1]] - 1 /\ mode # "down"
      /\ at[t] = "commit" => stage[t] \notin Calls[t[1]]
      /\ at[t] \in {"reply", "late"} =>
             stage[t] \in Calls[t[1]] /\ made[t][stage[t]] = 1
  BY <1>1 DEF IInv, WorkerInv, AtCall
<1>3. Last[t[1]] \in 3 .. 7 /\ g \in 1 .. Last[t[1]] /\ g \in 1 .. 7
  BY <1>2, Dispatched
<1>4. /\ stage[t] \in Calls[t[1]] => g \notin Calls[t[1]] /\ g # Last[t[1]]
      /\ Last[t[1]] \notin Calls[t[1]]
  BY <1>2, Dispatched
<1>5. /\ g \in Calls[t[1]] => made[t][g] = 0
      /\ \A s \in Calls[t[1]] : g > s => made[t][s] = 1
  <2>1. \A s \in Calls[t[1]] : /\ s \in 1 .. 5
                               /\ stage[t] < s => made[t][s] = 0
                               /\ stage[t] > s => made[t][s] = 1
    BY Called
  <2>2. ASSUME NEW s \in Calls[t[1]], g > s PROVE made[t][s] = 1
    <3>1. s = stage[t] \/ stage[t] > s
      BY <1>2, <2>1, <2>2
    <3>. QED
      BY <1>1, <1>2, <2>1, <3>1
  <2>3. ASSUME g \in Calls[t[1]] PROVE made[t][g] = 0
    BY <1>2, <2>1, <2>3
  <2>. QED
    BY <2>2, <2>3
<1>6. TypeOK'
  <2>1. stage' \in [Task -> None .. 7] /\ status' \in [Task -> Status]
    BY <1>1, <1>3 DEF IInv, TypeOK, Status, None
  <2>2. at' \in [Task -> Place]
    BY <1>1 DEF IInv, TypeOK, Place
  <2>. QED
    BY <1>1, <2>1, <2>2 DEF IInv, TypeOK
<1>7. DispatchedOnce'
  BY <1>1, <1>3, <1>5, Dispatched DEF IInv, TypeOK, DispatchedOnce
<1>8. WorkerInv'
  <2>1. SUFFICES ASSUME NEW u \in Task, u = t
                 PROVE  /\ status'[u] \in {"running", "succeeded"}
                        /\ at'[u] \notin {"gate", "open", "commit", "reply", "late"}
                        /\ at'[u] # "none" =>
                               status'[u] = "running" /\ stage'[u] \in 0 .. Last[u[1]] - 1
                        /\ at'[u] = "check" => stage'[u] \notin Calls[u[1]]
                        /\ at'[u] = "call" =>
                               stage'[u] \in Calls[u[1]] /\ made[u][stage'[u]] = 0
                        /\ stage'[u] <= Last[u[1]]
    BY <1>1, <1>2 DEF IInv, TypeOK, WorkerInv, AtCall
  <2>. QED
    BY <1>1, <1>2, <1>3, <1>4, <1>5, <2>1 DEF IInv, TypeOK
<1>9. GateInv'
  BY <1>1 DEF IInv, TypeOK, GateInv
<1>. QED
  BY <1>6, <1>7, <1>8, <1>9 DEF OwnInv

\* The call of a stage takes effect at most once.
LEMMA AnswerOwn ==
    ASSUME IInv, NEW t \in Task, Answer(t, Identified) \/ Answer(t, Acknowledged),
           ns' \in 0 .. MaxSpaces, spaces' \in 0 .. MaxSpaces,
           joined' \in [Member -> 0 .. MaxSpaces], alive' \subseteq Member
    PROVE  OwnInv'
<1> DEFINE s == stage[t]
<1>1. /\ at[t] = "call" /\ UNCHANGED <<status, stage, space, peers, mode, seen>>
      /\ \E a \in {"reply", "late", "ended"} : at' = [at EXCEPT ![t] = a]
      /\ \/ made' = [made EXCEPT ![t][s] = @ + 1]
         \/ made' = made /\ at' = [at EXCEPT ![t] = "ended"]
  BY DEF Answer, Made, Identified, Acknowledged, durable
<1>2. /\ status[t] = "running" /\ s \in Calls[t[1]] /\ made[t][s] = 0 /\ mode # "down"
      /\ s \in 0 .. Last[t[1]] - 1 /\ s \in 1 .. 5
  BY <1>1, Dispatched DEF IInv, WorkerInv, AtCall
<1>3. /\ made'[t][s] \in {0, 1} /\ at'[t] # "ended" => made'[t][s] = 1
      /\ \A r \in 1 .. 5 : r # s => made'[t][r] = made[t][r]
      /\ \A u \in Task : u # t => made'[u] = made[u] /\ at'[u] = at[u]
      /\ at'[t] \in {"reply", "late", "ended"}
  BY <1>1, <1>2 DEF IInv, TypeOK
<1>4. made' \in [Task -> [1 .. 5 -> 0 .. MaxMade]]
  BY <1>1, <1>2 DEF IInv, TypeOK, MaxMade
<1>5. TypeOK'
  BY <1>1, <1>4 DEF IInv, TypeOK, Place
<1>6. DispatchedOnce'
  BY <1>1, <1>2, <1>3, Dispatched DEF IInv, TypeOK, DispatchedOnce
<1>7. WorkerInv'
  <2>1. ASSUME NEW u \in Task, u # t
        PROVE  at[u] = "call" => made'[u][stage'[u]] = 0
    <3>1. at[u] = "call" => made[u][stage[u]] = 0
      BY DEF IInv, WorkerInv
    <3>. QED
      BY <1>1, <1>3, <2>1, <3>1
  <2>. QED
    BY <1>1, <1>2, <1>3, <2>1 DEF IInv, TypeOK, WorkerInv, AtCall
<1>8. GateInv'
  BY <1>1, <1>3 DEF IInv, TypeOK, GateInv
<1>. QED
  BY <1>5, <1>6, <1>7, <1>8 DEF OwnInv

\* A worker ends, its operation interrupted or not.
LEMMA EndOwn == ASSUME IInv, NEW t \in Task, Interrupt(t) \/ InterruptFails(t) PROVE OwnInv'
<1>1. /\ at' = [at EXCEPT ![t] = "none"] /\ at[t] \notin {"none", "gate"}
      /\ status' \in {status, [status EXCEPT ![t] = Interrupted(t)]}
      /\ mode' \in {mode, "failed"}
      /\ UNCHANGED <<stage, space, peers, seen, made, ns, spaces, joined, alive>>
  BY DEF Interrupt, InterruptFails, durable, engine
<1>2. status[t] # "none" /\ Interrupted(t) \in {"interrupted", status[t]} /\ status[t] \in Status
  BY <1>1 DEF IInv, TypeOK, WorkerInv, Interrupted
<1>3. TypeOK'
  BY <1>1, <1>2 DEF IInv, TypeOK, Status, Place
<1>4. DispatchedOnce'
  BY <1>1 DEF IInv, DispatchedOnce
<1>5. WorkerInv'
  BY <1>1, <1>2 DEF IInv, TypeOK, WorkerInv, AtCall
<1>6. GateInv'
  BY <1>1 DEF IInv, TypeOK, GateInv
<1>. QED
  BY <1>3, <1>4, <1>5, <1>6 DEF OwnInv

\* The service dies, and starts again.
LEMMA RebootOwn == ASSUME IInv, Crash \/ Restart PROVE OwnInv'
<1>1. /\ \A t \in Task : at'[t] = "none"
      /\ at' \in [Task -> Place] /\ seen' \in 0 .. MaxSpaces
      /\ \/ status' = status
         \/ status' = [t \in Task |-> Interrupted(t)]
      /\ mode' \in {"up", "down"}
      /\ UNCHANGED <<stage, space, peers, made, ns, spaces, joined, alive>>
  BY LaunchAssumption DEF Crash, Restart, Reconciled, IInv, TypeOK, WorkerInv, Place, durable, engine
<1>2. \A t \in Task : Interrupted(t) \in Status /\ (Interrupted(t) = "none" => status[t] = "none")
  BY DEF IInv, TypeOK, Interrupted, Status
<1>3. TypeOK'
  BY <1>1, <1>2 DEF IInv, TypeOK
<1>4. DispatchedOnce'
  BY <1>1 DEF IInv, DispatchedOnce
<1>5. WorkerInv'
  BY <1>1, <1>2 DEF IInv, TypeOK, WorkerInv, AtCall
<1>6. GateInv'
  BY <1>1 DEF IInv, TypeOK, GateInv
<1>. QED
  BY <1>3, <1>4, <1>5, <1>6 DEF OwnInv

-----------------------------------------------------------------------------
(* What a step means for the other rows *)

\* Nothing that the rows say of each other is touched.
LEMMA QuietRows == ASSUME IInv, UNCHANGED durable PROVE JournalsValid' /\ PeersInv'
  BY DEF IInv, durable, JournalsValid, PreparationValid, StartValid, StorageValid, LaunchValid,
         Prerequisites, LaunchBinding, PeersInv

\* An interruption keeps what the rows say of each other.
LEMMA InterruptedRows ==
    ASSUME IInv, \A t \in Task : status'[t] \in {status[t], Interrupted(t)},
           UNCHANGED <<stage, space, peers>>
    PROVE  JournalsValid' /\ PeersInv'
<1>1. \A t \in Task : \/ status'[t] = status[t]
                      \/ status'[t] = "interrupted" /\ status[t] \in {"queued", "running"}
  BY DEF Interrupted, Pending
<1>2. PreparationValid' /\ StartValid' /\ StorageValid'
  BY <1>1, Names DEF IInv, JournalsValid, PreparationValid, StartValid, StorageValid
<1>3. LaunchValid'
  BY <1>1, Names DEF IInv, JournalsValid, LaunchValid, Prerequisites, LaunchBinding
<1>4. PeersInv'
  BY <1>1, Names DEF IInv, PeersInv
<1>. QED
  BY <1>2, <1>3, <1>4 DEF JournalsValid

\* Nothing is about to be believed that was not, and what is believed stays.
LEMMA SeenKept ==
    ASSUME IInv, UNCHANGED space, stage[Start] = 3 => stage'[Start] = 3,
           \A t \in Task :
               /\ at'[t] = "commit" => at[t] = "commit" /\ stage'[t] = stage[t]
               /\ status'[t] = "succeeded" => status[t] = "succeeded" \/ t \in {Prepare, Start}
                                              \/ t[1] = "storage",
           seen' = seen \/ at'[Start] # "commit",
           \A m \in Member : \/ joined'[m] = joined[m]
                             \/ at'[Launch(m)] # "commit" /\ status'[Launch(m)] # "succeeded"
    PROVE  SeenInv'
<1>1. \A m \in Member : /\ Launch(m) \in Task /\ Launch(m) \notin {Prepare, Start}
                        /\ Launch(m)[1] # "storage"
  BY Names DEF Launch
<1>. QED
  BY <1>1, Names DEF IInv, SeenInv

-----------------------------------------------------------------------------
(* Requests *)

\* QueuePreparation keeps the invariant.
LEMMA QueuePreparationKeeps == ASSUME IInv, QueuePreparation PROVE IInv'
<1>1. Queue(Prepare, None) /\ status[Prepare] = "none" /\ Prepare \in Task
  BY Names DEF QueuePreparation, PreparationAdmissible
<1>2. OwnInv'
  BY <1>1, QueueOwn
<1>3. /\ status' = [status EXCEPT ![Prepare] = "queued"] /\ stage[Prepare] = None
      /\ stage' = [stage EXCEPT ![Prepare] = None] /\ at' = [at EXCEPT ![Prepare] = "gate"]
      /\ UNCHANGED <<space, peers, seen, joined>>
  BY <1>1 DEF Queue, engine, IInv, WorkerInv
<1>4. \A t \in Task : t # Prepare => status'[t] = status[t] /\ stage'[t] = stage[t]
  BY <1>3 DEF IInv, TypeOK
<1>5. status'[Prepare] = "queued" /\ stage'[Prepare] = None
  BY <1>3, <1>1 DEF IInv, TypeOK
<1>6. status[Start] = "none"
  BY <1>1 DEF IInv, JournalsValid, StartValid
<1>7. JournalsValid'
  BY <1>3, <1>4, <1>5, <1>6, Names DEF IInv, JournalsValid, PreparationValid, StartValid,
     StorageValid, LaunchValid, Prerequisites, LaunchBinding
<1>8. PeersInv'
  BY <1>3, <1>4, Names DEF IInv, PeersInv
<1>9. SeenInv'
  BY <1>3, <1>4, <1>5, Names, SeenKept DEF IInv, TypeOK
<1>. QED
  BY <1>2, <1>7, <1>8, <1>9 DEF OwnInv, IInv

\* QueueStart keeps the invariant.
LEMMA QueueStartKeeps == ASSUME IInv, QueueStart PROVE IInv'
<1>1. Queue(Start, 0) /\ status[Start] = "none" /\ Start \in Task /\ status[Prepare] = "succeeded"
  BY Names DEF QueueStart, StartAdmissible
<1>2. OwnInv'
  BY <1>1, QueueOwn
<1>3. /\ status' = [status EXCEPT ![Start] = "queued"]
      /\ stage' = [stage EXCEPT ![Start] = 0] /\ at' = [at EXCEPT ![Start] = "gate"]
      /\ UNCHANGED <<space, peers, seen, joined>>
  BY <1>1 DEF Queue, engine
<1>4. \A t \in Task : t # Start => status'[t] = status[t] /\ stage'[t] = stage[t]
  BY <1>3 DEF IInv, TypeOK
<1>5. status'[Start] = "queued" /\ stage'[Start] = 0
  BY <1>3, <1>1 DEF IInv, TypeOK
<1>6. \A m \in Member : status[Launch(m)] = "none"
  BY <1>1 DEF IInv, JournalsValid, LaunchValid, Prerequisites
<1>10. stage[Start] = None /\ space = 0
  BY <1>1 DEF IInv, WorkerInv, SeenInv, None
<1>7. JournalsValid'
  <2>1. PreparationValid' /\ StartValid'
    BY <1>10, <1>1, <1>3, <1>4, <1>5, Names
    DEF IInv, JournalsValid, PreparationValid, StartValid, None
  <2>2. StorageValid'
    BY <1>3, <1>4, <1>5, Names DEF IInv, JournalsValid, StorageValid, None
  <2>3. LaunchValid'
    BY <1>10, <1>1, <1>3, <1>4, <1>5, <1>6, Names
    DEF IInv, JournalsValid, LaunchValid, Prerequisites, LaunchBinding
  <2>. QED
    BY <2>1, <2>2, <2>3 DEF JournalsValid
<1>8. PeersInv'
  BY <1>3, <1>4, Names DEF IInv, PeersInv
<1>9. SeenInv'
  BY <1>10, <1>3, <1>4, <1>5, Names, SeenKept DEF IInv, TypeOK, None
<1>. QED
  BY <1>2, <1>7, <1>8, <1>9 DEF OwnInv, IInv

\* QueueStorage keeps the invariant.
LEMMA QueueStorageKeeps == ASSUME IInv, NEW m \in Member, QueueStorage(m) PROVE IInv'
<1> DEFINE t == Storage(m)
<1>1. Queue(t, 0) /\ status[t] = "none" /\ t \in Task
  BY Names DEF QueueStorage, StorageAdmissible
<1>2. OwnInv'
  BY <1>1, QueueOwn
<1>3. /\ status' = [status EXCEPT ![t] = "queued"]
      /\ stage' = [stage EXCEPT ![t] = 0] /\ at' = [at EXCEPT ![t] = "gate"]
      /\ UNCHANGED <<space, peers, seen, joined>>
  BY <1>1 DEF Queue, engine
<1>4. \A u \in Task : u # t => status'[u] = status[u] /\ stage'[u] = stage[u]
  BY <1>3 DEF IInv, TypeOK
<1>5. status'[t] = "queued" /\ stage'[t] = 0
  BY <1>3, <1>1 DEF IInv, TypeOK
<1>6. status[Launch(m)] = "none"
  BY <1>1 DEF IInv, JournalsValid, LaunchValid, Prerequisites
<1>7. JournalsValid'
  <2>1. PreparationValid' /\ StartValid'
    BY <1>1, <1>3, <1>4, <1>5, Names
    DEF IInv, JournalsValid, SeenInv, PreparationValid, StartValid, None
  <2>2. StorageValid'
    BY <1>3, <1>4, <1>5, Names DEF IInv, JournalsValid, StorageValid, None
  <2>3. /\ status'[Start] = status[Start] /\ stage'[Start] = stage[Start]
        /\ \A p \in Member : /\ status'[Launch(p)] = status[Launch(p)]
                             /\ stage'[Launch(p)] = stage[Launch(p)]
                             /\ p # m => /\ status'[Storage(p)] = status[Storage(p)]
                                         /\ stage'[Storage(p)] = stage[Storage(p)]
    BY <1>4, Names
  <2>4. LaunchValid'
    BY <1>3, <1>6, <2>3
    DEF IInv, TypeOK, JournalsValid, LaunchValid, Prerequisites, LaunchBinding
  <2>. QED
    BY <2>1, <2>2, <2>4 DEF JournalsValid
<1>8. PeersInv'
  BY <1>3, <1>4, Names DEF IInv, PeersInv
<1>9. SeenInv'
  BY <1>3, <1>4, <1>5, Names, SeenKept DEF IInv, TypeOK
<1>. QED
  BY <1>2, <1>7, <1>8, <1>9 DEF OwnInv, IInv

\* Every other launch is done when the next is asked for.
LEMMA QueueLaunchKeeps == ASSUME IInv, NEW m \in Member, QueueLaunch(m) PROVE IInv'
<1> DEFINE t == Launch(m)
<1>1. /\ Queue(t, None) /\ status[t] = "none" /\ t \in Task
      /\ Prerequisites(m) /\ LaunchPeersDone(m)
  BY Names DEF QueueLaunch, LaunchAdmissible
<1>2. OwnInv'
  BY <1>1, QueueOwn
<1>3. /\ status' = [status EXCEPT ![t] = "queued"] /\ stage[t] = None
      /\ stage' = [stage EXCEPT ![t] = None] /\ at' = [at EXCEPT ![t] = "gate"]
      /\ UNCHANGED <<space, peers, seen, joined>>
  BY <1>1 DEF Queue, engine, IInv, WorkerInv
<1>4. \A u \in Task : u # t => status'[u] = status[u]
  BY <1>3 DEF IInv, TypeOK
<1>5. status'[t] = "queued" /\ stage' = stage
  BY <1>3, <1>1 DEF IInv, TypeOK
<1>7. JournalsValid'
  BY <1>1, <1>3, <1>4, <1>5, Names DEF IInv, JournalsValid, PreparationValid, StartValid,
     StorageValid, LaunchValid, Prerequisites, LaunchBinding, None
<1>8. PeersInv'
  BY <1>1, <1>3, <1>4, <1>5, Names DEF IInv, PeersInv, LaunchPeersDone
<1>9. SeenInv'
  BY <1>3, <1>4, <1>5, Names, SeenKept DEF IInv, TypeOK
<1>. QED
  BY <1>2, <1>7, <1>8, <1>9 DEF OwnInv, IInv

-----------------------------------------------------------------------------
(* The worker: its gate and its begin *)

\* Acquire keeps the invariant.
LEMMA AcquireKeeps == ASSUME IInv, NEW t \in Task, Acquire(t) PROVE IInv'
<1>1. OwnInv'
  BY AcquireOwn
<1>2. UNCHANGED durable /\ at' = [at EXCEPT ![t] = "open"]
      /\ UNCHANGED <<status, stage, space, seen, joined>>
  BY DEF Acquire, durable, engine
<1>3. JournalsValid' /\ PeersInv'
  BY <1>2, QuietRows
<1>4. SeenInv'
  BY <1>2, SeenKept DEF IInv, TypeOK
<1>. QED
  BY <1>1, <1>3, <1>4 DEF OwnInv, IInv

\* BeginPreparation keeps the invariant.
LEMMA BeginPreparationKeeps == ASSUME IInv, BeginPreparation PROVE IInv'
<1>1. /\ Begin(Prepare) /\ status[Prepare] = "queued" /\ stage[Prepare] = None /\ Prepare \in Task
      /\ UNCHANGED peers
  BY Names DEF BeginPreparation, OpenPreparation, Fresh
<1>2. OwnInv'
  <2>1. peers' \in [Member -> SUBSET Member]
    BY <1>1 DEF IInv, TypeOK
  <2>. QED
    BY <1>1, <2>1, BeginOwn
<1>3. /\ status' = [status EXCEPT ![Prepare] = "running"]
      /\ stage' = [stage EXCEPT ![Prepare] = 0] /\ at' = [at EXCEPT ![Prepare] = "check"]
      /\ UNCHANGED <<space, peers, seen, joined>>
  BY <1>1 DEF Begin, engine
<1>4. \A u \in Task : u # Prepare => status'[u] = status[u] /\ stage'[u] = stage[u]
  BY <1>3 DEF IInv, TypeOK
<1>5. status'[Prepare] = "running" /\ stage'[Prepare] = 0
  BY <1>3, <1>1 DEF IInv, TypeOK
<1>6. status[Start] = "none"
  BY <1>1 DEF IInv, JournalsValid, StartValid
<1>7. JournalsValid'
  BY <1>3, <1>4, <1>5, <1>6, Names DEF IInv, JournalsValid, PreparationValid, StartValid,
     StorageValid, LaunchValid, Prerequisites, LaunchBinding, None
<1>8. PeersInv'
  BY <1>3, <1>4, Names DEF IInv, PeersInv
<1>9. SeenInv'
  BY <1>3, <1>4, <1>5, Names, SeenKept DEF IInv, TypeOK
<1>. QED
  BY <1>2, <1>7, <1>8, <1>9 DEF OwnInv, IInv

\* BeginStart keeps the invariant.
LEMMA BeginStartKeeps == ASSUME IInv, BeginStart PROVE IInv'
<1>1. /\ Begin(Start) /\ status[Start] = "queued" /\ stage[Start] = 0 /\ Start \in Task
      /\ UNCHANGED peers
  BY Names DEF BeginStart, OpenStart, Fresh
<1>2. OwnInv'
  <2>1. peers' \in [Member -> SUBSET Member]
    BY <1>1 DEF IInv, TypeOK
  <2>. QED
    BY <1>1, <2>1, BeginOwn
<1>3. /\ status' = [status EXCEPT ![Start] = "running"]
      /\ stage' = [stage EXCEPT ![Start] = 0] /\ at' = [at EXCEPT ![Start] = "check"]
      /\ UNCHANGED <<space, peers, seen, joined>>
  BY <1>1 DEF Begin, engine
<1>4. \A u \in Task : u # Start => status'[u] = status[u]
  BY <1>3 DEF IInv, TypeOK
<1>5. status'[Start] = "running" /\ stage' = stage
  BY <1>3, <1>1 DEF IInv, TypeOK
<1>6. \A m \in Member : status[Launch(m)] = "none"
  BY <1>1 DEF IInv, JournalsValid, LaunchValid, Prerequisites
<1>7. JournalsValid'
  <2>1. PreparationValid' /\ StartValid' /\ StorageValid'
    BY <1>1, <1>3, <1>4, <1>5, Names
    DEF IInv, JournalsValid, PreparationValid, StartValid, StorageValid
  <2>2. LaunchValid'
    BY <1>4, <1>6, Names DEF LaunchValid
  <2>. QED
    BY <2>1, <2>2 DEF JournalsValid
<1>8. PeersInv'
  BY <1>3, <1>4, Names DEF IInv, PeersInv
<1>9. SeenInv'
  BY <1>3, <1>4, <1>5, Names, SeenKept DEF IInv, TypeOK
<1>. QED
  BY <1>2, <1>7, <1>8, <1>9 DEF OwnInv, IInv

\* BeginStorage keeps the invariant.
LEMMA BeginStorageKeeps == ASSUME IInv, NEW m \in Member, BeginStorage(m) PROVE IInv'
<1> DEFINE t == Storage(m)
<1>1. /\ Begin(t) /\ status[t] = "queued" /\ stage[t] = 0 /\ t \in Task
      /\ UNCHANGED peers
  BY Names DEF BeginStorage, OpenStorage, Fresh
<1>2. OwnInv'
  <2>1. peers' \in [Member -> SUBSET Member]
    BY <1>1 DEF IInv, TypeOK
  <2>. QED
    BY <1>1, <2>1, BeginOwn
<1>3. /\ status' = [status EXCEPT ![t] = "running"]
      /\ stage' = [stage EXCEPT ![t] = 0] /\ at' = [at EXCEPT ![t] = "check"]
      /\ UNCHANGED <<space, peers, seen, joined>>
  BY <1>1 DEF Begin, engine
<1>4. \A u \in Task : u # t => status'[u] = status[u]
  BY <1>3 DEF IInv, TypeOK
<1>5. status'[t] = "running" /\ stage' = stage
  BY <1>3, <1>1 DEF IInv, TypeOK
<1>6. status[Launch(m)] = "none"
  BY <1>1 DEF IInv, JournalsValid, LaunchValid, Prerequisites
<1>7. JournalsValid'
  <2>1. PreparationValid' /\ StartValid' /\ StorageValid'
    BY <1>1, <1>3, <1>4, <1>5, Names
    DEF IInv, JournalsValid, PreparationValid, StartValid, StorageValid
  <2>2. /\ status'[Start] = status[Start]
        /\ \A p \in Member : /\ status'[Launch(p)] = status[Launch(p)]
                             /\ p # m => status'[Storage(p)] = status[Storage(p)]
    BY <1>4, Names
  <2>3. LaunchValid'
    BY <1>3, <1>5, <1>6, <2>2
    DEF IInv, JournalsValid, LaunchValid, Prerequisites, LaunchBinding
  <2>. QED
    BY <2>1, <2>3 DEF JournalsValid
<1>8. PeersInv'
  BY <1>3, <1>4, <1>5, Names DEF IInv, PeersInv
<1>9. SeenInv'
  BY <1>3, <1>4, <1>5, Names, SeenKept DEF IInv, TypeOK, Storage
<1>. QED
  BY <1>2, <1>7, <1>8, <1>9 DEF OwnInv, IInv

\* The launches that are done are recorded with the one that begins.
LEMMA BeginLaunchKeeps == ASSUME IInv, NEW m \in Member, BeginLaunch(m) PROVE IInv'
<1> DEFINE t == Launch(m)
<1>1. /\ Begin(t) /\ status[t] = "queued" /\ stage[t] = None /\ t \in Task
      /\ Prerequisites(m) /\ LaunchPeersDone(m)
      /\ peers' = [peers EXCEPT ![m] = LaunchPeers(m)]
  BY Names DEF BeginLaunch, OpenLaunch, Fresh
<1>2. /\ LaunchPeers(m) \subseteq Member \ {m}
      /\ \A p \in Member \ {m} :
            /\ p \in LaunchPeers(m) <=> status[Launch(p)] # "none"
            /\ p \in LaunchPeers(m) => stage[Launch(p)] = 7
            /\ p \in LaunchPeers(m) => status[Launch(p)] = "succeeded"
  BY <1>1 DEF LaunchPeers, LaunchPeersDone
<1>3. /\ status' = [status EXCEPT ![t] = "running"]
      /\ stage' = [stage EXCEPT ![t] = 0] /\ at' = [at EXCEPT ![t] = "check"]
      /\ UNCHANGED <<space, seen, joined>>
  BY <1>1 DEF Begin, engine
<1>4. /\ \A p \in Member \ {m} : /\ peers'[p] = peers[p] /\ status'[Launch(p)] = status[Launch(p)]
                                 /\ stage'[Launch(p)] = stage[Launch(p)]
      /\ peers'[m] = LaunchPeers(m) /\ status'[Launch(m)] = "running" /\ stage'[Launch(m)] = 0
  BY <1>1, <1>3, Names DEF IInv, TypeOK
<1>5. /\ status'[Prepare] = status[Prepare] /\ stage'[Prepare] = stage[Prepare]
      /\ status'[Start] = status[Start] /\ stage'[Start] = stage[Start]
      /\ \A p \in Member : /\ status'[Storage(p)] = status[Storage(p)]
                           /\ stage'[Storage(p)] = stage[Storage(p)]
  BY <1>3, Names DEF IInv, TypeOK
<1>6. \A p \in Member \ {m} : status[Launch(p)] # "none" => m \notin peers[p]
  BY <1>1, <1>2 DEF IInv, JournalsValid, LaunchValid, LaunchBinding, None
<1>7. OwnInv'
  <2>1. peers' \in [Member -> SUBSET Member]
    BY <1>1, <1>2 DEF IInv, TypeOK
  <2>. QED
    BY <1>1, <2>1, BeginOwn
<1>8. JournalsValid'
  <2>1. PreparationValid' /\ StartValid' /\ StorageValid'
    BY <1>3, <1>5 DEF IInv, JournalsValid, PreparationValid, StartValid, StorageValid
  <2>2. \A p \in Member : Prerequisites(p)' <=> Prerequisites(p)
    BY <1>5 DEF Prerequisites
  <2>3. LaunchBinding(m)'
    BY <1>2, <1>4 DEF LaunchBinding
  <2>4. \A p \in Member \ {m} : status[Launch(p)] # "none" /\ LaunchBinding(p) => LaunchBinding(p)'
    BY <1>4, <1>6 DEF LaunchBinding, IInv, TypeOK
  <2>5. LaunchValid'
    BY <1>1, <1>4, <2>2, <2>3, <2>4 DEF IInv, JournalsValid, LaunchValid, None
  <2>. QED
    BY <2>1, <2>5 DEF JournalsValid
<1>9. PeersInv'
  <2>1. ASSUME NEW p \in Member \ {m}, status[Launch(p)] # "none"
        PROVE  p \in peers'[m] /\ m \notin peers'[p] /\ status'[Launch(p)] = "succeeded"
    BY <1>2, <1>4, <1>6, <2>1
  <2>. QED
    BY <1>4, <2>1 DEF IInv, PeersInv
<1>10. SeenInv'
  BY <1>1, <1>3, <1>5, Names, SeenKept DEF IInv, TypeOK
<1>. QED
  BY <1>7, <1>8, <1>9, <1>10 DEF OwnInv, IInv

-----------------------------------------------------------------------------
(* The worker: its looks *)

\* A look changes no row.
LEMMA LookRows ==
    ASSUME IInv, NEW t \in Task, Look(t), seen' \in 0 .. MaxSpaces
    PROVE  OwnInv' /\ JournalsValid' /\ PeersInv'
<1>1. UNCHANGED durable
  BY DEF Look
<1>. QED
  BY <1>1, LookOwn, QuietRows

\* LookPreparation keeps the invariant.
LEMMA LookPreparationKeeps == ASSUME IInv, LookPreparation PROVE IInv'
<1>1. Look(Prepare) /\ UNCHANGED seen /\ Prepare \in Task
  BY Names DEF LookPreparation
<1>2. OwnInv' /\ JournalsValid' /\ PeersInv'
  BY <1>1, LookRows DEF IInv, TypeOK
<1>3. SeenInv'
  BY <1>1, Names DEF Look, durable, engine, IInv, TypeOK, SeenInv
<1>. QED
  BY <1>2, <1>3 DEF OwnInv, IInv

\* An anchor that runs is seen in a namespace.
LEMMA LookStartKeeps == ASSUME IInv, LookStart PROVE IInv'
<1>1. Look(Start) /\ seen' = ns /\ Start \in Task /\ (stage[Start] = 2 => ns # 0)
  BY Names DEF LookStart, SeesAnchor
<1>2. OwnInv' /\ JournalsValid' /\ PeersInv'
  BY <1>1, LookRows DEF IInv, TypeOK
<1>3. SeenInv'
  BY <1>1, Names DEF Look, durable, engine, IInv, TypeOK, SeenInv
<1>. QED
  BY <1>2, <1>3 DEF OwnInv, IInv

\* LookStorage keeps the invariant.
LEMMA LookStorageKeeps == ASSUME IInv, NEW m \in Member, LookStorage(m) PROVE IInv'
<1>1. Look(Storage(m)) /\ UNCHANGED seen /\ Storage(m) \in Task
  BY Names DEF LookStorage
<1>2. OwnInv' /\ JournalsValid' /\ PeersInv'
  BY <1>1, LookRows DEF IInv, TypeOK
<1>3. SeenInv'
  BY <1>1, Names DEF Look, durable, engine, IInv, TypeOK, SeenInv
<1>. QED
  BY <1>2, <1>3 DEF OwnInv, IInv

\* A member that runs is seen in the recorded namespace.
LEMMA LookLaunchKeeps == ASSUME IInv, NEW m \in Member, LookLaunch(m) PROVE IInv'
<1>1. Look(Launch(m)) /\ UNCHANGED seen /\ Launch(m) \in Task /\ SeesMembers(m)
  BY Names DEF LookLaunch
<1>2. OwnInv' /\ JournalsValid' /\ PeersInv'
  BY <1>1, LookRows DEF IInv, TypeOK
<1>3. stage[Launch(m)] = 6 => joined[m] = space
  BY <1>1 DEF SeesMembers, SeesNamespace
<1>4. at[Launch(m)] = "check" => space # 0
  BY <1>1 DEF IInv, WorkerInv, JournalsValid, LaunchValid, StartValid, Prerequisites
<1>5. SeenInv'
  <2>1. /\ at' = [at EXCEPT ![Launch(m)] = "commit"] /\ at[Launch(m)] = "check"
        /\ UNCHANGED <<status, stage, space, joined, seen>>
    BY <1>1 DEF Look, durable, engine
  <2>2. at'[Start] = at[Start] /\ \A p \in Member \ {m} : at'[Launch(p)] = at[Launch(p)]
    BY <1>1, <2>1, Names DEF IInv, TypeOK
  <2>. QED
    BY <1>3, <1>4, <2>1, <2>2 DEF IInv, SeenInv
<1>. QED
  BY <1>2, <1>5 DEF OwnInv, IInv

-----------------------------------------------------------------------------
(* The worker: its commits *)

\* What a commit changes, in words for every task.
LEMMA CommitRows ==
    ASSUME IInv, NEW t \in Task, Commit(t)
    PROVE  /\ status[t] = "running" /\ stage[t] \in 0 .. Last[t[1]] - 1
           /\ stage[t] \notin Calls[t[1]] => at[t] = "commit"
           /\ stage'[t] = stage[t] + 1
           /\ status'[t] = IF stage[t] + 1 = Last[t[1]] THEN "succeeded" ELSE "running"
           /\ at'[t] # "commit"
           /\ \A u \in Task : u # t => /\ status'[u] = status[u] /\ stage'[u] = stage[u]
                                       /\ at'[u] = at[u]
           /\ UNCHANGED <<peers, seen, joined>>
<1>1. /\ stage' = [stage EXCEPT ![t] = stage[t] + 1]
      /\ status' = [status EXCEPT ![t] = IF stage[t] + 1 = Last[t[1]] THEN "succeeded" ELSE @]
      /\ at' = [at EXCEPT ![t] = IF @ = "late" THEN "ended"
                                 ELSE IF stage[t] + 1 = Last[t[1]] THEN "none"
                                 ELSE IF stage[t] + 1 \in Calls[t[1]] THEN "call" ELSE "check"]
      /\ UNCHANGED <<peers, seen, joined>> /\ status[t] = "running"
      /\ at[t] \in {"commit", "reply", "late"}
      /\ stage[t] \notin Calls[t[1]] => at[t] = "commit"
  BY DEF Commit, Ready, Owned, engine
<1>2. stage[t] \in 0 .. Last[t[1]] - 1
  BY <1>1 DEF IInv, WorkerInv
<1>3. at'[t] # "commit"
  BY <1>1 DEF IInv, TypeOK
<1>. QED
  BY <1>1, <1>2, <1>3 DEF IInv, TypeOK

\* CommitPreparation keeps the invariant.
LEMMA CommitPreparationKeeps == ASSUME IInv, CommitPreparation PROVE IInv'
<1>1. Commit(Prepare) /\ UNCHANGED space /\ Prepare \in Task
  BY Names DEF CommitPreparation
<1>2. OwnInv'
  BY <1>1, CommitOwn DEF IInv, TypeOK
<1>3. /\ status[Prepare] = "running" /\ stage[Prepare] \in 0 .. 5
      /\ stage'[Prepare] = stage[Prepare] + 1
      /\ status'[Prepare] = IF stage[Prepare] + 1 = 6 THEN "succeeded" ELSE "running"
      /\ at'[Prepare] # "commit"
      /\ \A u \in Task : u # Prepare => /\ status'[u] = status[u] /\ stage'[u] = stage[u]
                                        /\ at'[u] = at[u]
      /\ UNCHANGED <<peers, seen, joined>>
  BY <1>1, CommitRows, Stages
<1>4. status[Start] = "none"
  BY <1>3 DEF IInv, JournalsValid, StartValid
<1>5. JournalsValid'
  <2>1. PreparationValid'
    BY <1>3 DEF PreparationValid, None
  <2>2. StartValid' /\ StorageValid'
    BY <1>1, <1>3, <1>4, Names DEF IInv, JournalsValid, StartValid, StorageValid
  <2>3. \A m \in Member : status[Launch(m)] = "none"
    BY <1>4 DEF IInv, JournalsValid, LaunchValid, Prerequisites
  <2>4. LaunchValid'
    BY <1>3, <2>3, Names DEF LaunchValid
  <2>. QED
    BY <2>1, <2>2, <2>4 DEF JournalsValid
<1>6. PeersInv'
  BY <1>3, Names DEF IInv, PeersInv
<1>7. SeenInv'
  BY <1>1, <1>3, Names, SeenKept
<1>. QED
  BY <1>2, <1>5, <1>6, <1>7 DEF OwnInv, IInv

\* The namespace that was seen is recorded with the last stage.
LEMMA CommitStartKeeps == ASSUME IInv, CommitStart PROVE IInv'
<1>1. Commit(Start) /\ Start \in Task /\ space' = IF stage[Start] = 2 THEN seen ELSE space
  BY Names DEF CommitStart
<1>2. OwnInv'
  BY <1>1, CommitOwn DEF IInv, TypeOK
<1>3. /\ status[Start] = "running" /\ stage[Start] \in 0 .. 2
      /\ stage[Start] = 2 => at[Start] = "commit"
      /\ stage'[Start] = stage[Start] + 1
      /\ status'[Start] = IF stage[Start] + 1 = 3 THEN "succeeded" ELSE "running"
      /\ at'[Start] # "commit"
      /\ \A u \in Task : u # Start => /\ status'[u] = status[u] /\ stage'[u] = stage[u]
                                      /\ at'[u] = at[u]
      /\ UNCHANGED <<peers, seen, joined>>
  BY <1>1, CommitRows, Stages
<1>4. /\ stage[Start] = 2 => space' # 0
      /\ stage[Start] # 2 => space' = 0
  BY <1>1, <1>3 DEF IInv, SeenInv
<1>5. \A m \in Member : status[Launch(m)] = "none" /\ at[Launch(m)] = "none"
  BY <1>3, Names DEF IInv, JournalsValid, LaunchValid, Prerequisites, WorkerInv
<1>6. JournalsValid'
  <2>1. PreparationValid' /\ StorageValid'
    BY <1>3, Names DEF IInv, JournalsValid, PreparationValid, StorageValid
  <2>2. StartValid'
    BY <1>3, <1>4, Names DEF IInv, JournalsValid, StartValid, None
  <2>3. LaunchValid'
    BY <1>3, <1>5, Names DEF LaunchValid
  <2>. QED
    BY <2>1, <2>2, <2>3 DEF JournalsValid
<1>7. PeersInv'
  BY <1>3, <1>5, Names DEF PeersInv
<1>8. SeenInv'
  BY <1>3, <1>4, <1>5, Names DEF SeenInv
<1>. QED
  BY <1>2, <1>6, <1>7, <1>8 DEF OwnInv, IInv

\* CommitStorage keeps the invariant.
LEMMA CommitStorageKeeps == ASSUME IInv, NEW m \in Member, CommitStorage(m) PROVE IInv'
<1> DEFINE t == Storage(m)
<1>1. Commit(t) /\ t \in Task /\ UNCHANGED space
  BY Names DEF CommitStorage
<1>2. OwnInv'
  BY <1>1, CommitOwn DEF IInv, TypeOK
<1>3. /\ status[t] = "running" /\ stage[t] \in 0 .. 2
      /\ stage'[t] = stage[t] + 1
      /\ status'[t] = IF stage[t] + 1 = 3 THEN "succeeded" ELSE "running"
      /\ at'[t] # "commit"
      /\ \A u \in Task : u # t => /\ status'[u] = status[u] /\ stage'[u] = stage[u]
                                  /\ at'[u] = at[u]
      /\ UNCHANGED <<peers, seen, joined>>
  BY <1>1, CommitRows, Stages
<1>4. status[Launch(m)] = "none"
  BY <1>3 DEF IInv, JournalsValid, LaunchValid, Prerequisites
<1>5. JournalsValid'
  <2>1. PreparationValid' /\ StartValid'
    BY <1>1, <1>3, Names DEF IInv, JournalsValid, PreparationValid, StartValid
  <2>2. StorageValid'
    BY <1>3, Names DEF IInv, JournalsValid, StorageValid, None
  <2>3. /\ status'[Start] = status[Start] /\ stage'[Start] = stage[Start]
        /\ \A p \in Member : /\ status'[Launch(p)] = status[Launch(p)]
                             /\ stage'[Launch(p)] = stage[Launch(p)]
                             /\ p # m => /\ status'[Storage(p)] = status[Storage(p)]
                                         /\ stage'[Storage(p)] = stage[Storage(p)]
    BY <1>3, Names
  <2>4. LaunchValid'
    BY <1>3, <1>4, <2>3
    DEF IInv, TypeOK, JournalsValid, LaunchValid, Prerequisites, LaunchBinding
  <2>. QED
    BY <2>1, <2>2, <2>4 DEF JournalsValid
<1>6. PeersInv'
  BY <1>3, Names DEF IInv, PeersInv
<1>7. SeenInv'
  BY <1>1, <1>3, Names, SeenKept DEF Storage
<1>. QED
  BY <1>2, <1>5, <1>6, <1>7 DEF OwnInv, IInv

\* A launch succeeds on what was seen of its member.
LEMMA CommitLaunchKeeps == ASSUME IInv, NEW m \in Member, CommitLaunch(m) PROVE IInv'
<1> DEFINE t == Launch(m)
<1>1. Commit(t) /\ t \in Task /\ UNCHANGED space
  BY Names DEF CommitLaunch
<1>2. OwnInv'
  BY <1>1, CommitOwn DEF IInv, TypeOK
<1>3. /\ status[t] = "running" /\ stage[t] \in 0 .. 6
      /\ stage[t] = 6 => at[t] = "commit"
      /\ stage'[t] = stage[t] + 1
      /\ status'[t] = IF stage[t] + 1 = 7 THEN "succeeded" ELSE "running"
      /\ at'[t] # "commit"
      /\ \A u \in Task : u # t => /\ status'[u] = status[u] /\ stage'[u] = stage[u]
                                  /\ at'[u] = at[u]
      /\ UNCHANGED <<peers, seen, joined>>
  BY <1>1, CommitRows, Stages
<1>4. /\ \A u \in {Prepare, Start} : status'[u] = status[u] /\ stage'[u] = stage[u] /\ at'[u] = at[u]
      /\ \A p \in Member :
            /\ status'[Storage(p)] = status[Storage(p)] /\ stage'[Storage(p)] = stage[Storage(p)]
            /\ p # m => /\ status'[Launch(p)] = status[Launch(p)]
                        /\ stage'[Launch(p)] = stage[Launch(p)] /\ at'[Launch(p)] = at[Launch(p)]
  BY <1>3, Names
<1>5. JournalsValid'
  <2>1. PreparationValid' /\ StartValid' /\ StorageValid'
    BY <1>1, <1>4 DEF IInv, JournalsValid, PreparationValid, StartValid, StorageValid
  <2>2. \A p \in Member : (Prerequisites(p) => Prerequisites(p)') /\ (LaunchBinding(p) => LaunchBinding(p)')
    BY <1>3, <1>4 DEF Prerequisites, LaunchBinding, IInv, TypeOK
  <2>3. LaunchValid'
    BY <1>3, <1>4, <2>2 DEF IInv, JournalsValid, LaunchValid, None
  <2>. QED
    BY <2>1, <2>3 DEF JournalsValid
<1>6. PeersInv'
  BY <1>3, <1>4 DEF IInv, PeersInv, None
<1>7. SeenInv'
  BY <1>1, <1>3, <1>4 DEF IInv, SeenInv
<1>. QED
  BY <1>2, <1>5, <1>6, <1>7 DEF OwnInv, IInv

-----------------------------------------------------------------------------
(* Calls of the engine *)

\* A call changes no row, and the namespace of no member but its own.
LEMMA AnswerRows ==
    ASSUME IInv, NEW t \in Task, Answer(t, Identified) \/ Answer(t, Acknowledged),
           ns' \in 0 .. MaxSpaces, spaces' \in 0 .. MaxSpaces,
           joined' \in [Member -> 0 .. MaxSpaces], alive' \subseteq Member,
           \A m \in Member : Launch(m) = t \/ joined'[m] = joined[m]
    PROVE  IInv'
<1>1. OwnInv'
  BY AnswerOwn
<1>2. UNCHANGED durable /\ UNCHANGED <<status, stage, space, peers, seen>> /\ at[t] = "call"
      /\ \E a \in {"reply", "late", "ended"} : at' = [at EXCEPT ![t] = a]
  BY DEF Answer, Identified, Acknowledged, durable
<1>3. JournalsValid' /\ PeersInv'
  BY <1>2, QuietRows
<1>4. status[t] = "running" /\ at'[t] # "commit" /\ \A u \in Task : u # t => at'[u] = at[u]
  BY <1>2 DEF IInv, TypeOK, WorkerInv
<1>5. SeenInv'
  BY <1>2, <1>4, SeenKept
<1>. QED
  BY <1>1, <1>3, <1>5 DEF OwnInv, IInv

\* CreateResource keeps the invariant.
LEMMA CreateResourceKeeps == ASSUME IInv, CreateResource PROVE IInv'
  BY AnswerRows, Names DEF CreateResource, IInv, TypeOK

\* StartAnchor keeps the invariant.
LEMMA StartAnchorKeeps == ASSUME IInv, StartAnchor PROVE IInv'
<1>1. /\ Answer(Start, Acknowledged) /\ spaces < MaxSpaces /\ UNCHANGED <<joined, alive>>
      /\ \/ ns' = spaces + 1 /\ spaces' = spaces + 1
         \/ ns' = ns /\ spaces' = spaces
  BY DEF StartAnchor
<1>2. ns' \in 0 .. MaxSpaces /\ spaces' \in 0 .. MaxSpaces
  BY <1>1, LaunchAssumption DEF IInv, TypeOK
<1>. QED
  BY <1>1, <1>2, AnswerRows, Names DEF IInv, TypeOK

\* CreateMount keeps the invariant.
LEMMA CreateMountKeeps == ASSUME IInv, NEW m \in Member, CreateMount(m) PROVE IInv'
  BY AnswerRows, Names DEF CreateMount, IInv, TypeOK

\* PrepareWorkspace keeps the invariant.
LEMMA PrepareWorkspaceKeeps == ASSUME IInv, NEW m \in Member, PrepareWorkspace(m) PROVE IInv'
  BY AnswerRows, Names DEF PrepareWorkspace, IInv, TypeOK

\* CreateMember keeps the invariant.
LEMMA CreateMemberKeeps == ASSUME IInv, NEW m \in Member, CreateMember(m) PROVE IInv'
  BY AnswerRows, Names DEF CreateMember, IInv, TypeOK

\* StartMember keeps the invariant.
LEMMA StartMemberKeeps == ASSUME IInv, NEW m \in Member, StartMember(m) PROVE IInv'
<1>1. /\ Answer(Launch(m), Acknowledged) /\ UNCHANGED <<ns, spaces>>
      /\ \E n \in {ns, joined[m]} : joined' = [joined EXCEPT ![m] = n]
      /\ alive' \in {alive \cup {m}, alive}
  BY DEF StartMember
<1>2. /\ joined' \in [Member -> 0 .. MaxSpaces] /\ alive' \subseteq Member
      /\ \A p \in Member : Launch(p) = Launch(m) \/ joined'[p] = joined[p]
  BY <1>1, Names DEF IInv, TypeOK
<1>. QED
  BY <1>1, <1>2, AnswerRows, Names DEF IInv, TypeOK

-----------------------------------------------------------------------------
(* Failure, death and restart, and the engine's own steps *)

\* A failed worker keeps the invariant.
LEMMA EndKeeps == ASSUME IInv, NEW t \in Task, Interrupt(t) \/ InterruptFails(t) PROVE IInv'
<1>1. OwnInv'
  BY EndOwn
<1>2. /\ \A u \in Task : status'[u] \in {status[u], Interrupted(u)}
      /\ UNCHANGED <<stage, space, peers, seen, joined>> /\ at' = [at EXCEPT ![t] = "none"]
  BY DEF Interrupt, InterruptFails, durable, engine, IInv, TypeOK
<1>3. JournalsValid' /\ PeersInv'
  BY <1>2, InterruptedRows
<1>4. /\ \A u \in Task : Interrupted(u) \in {"interrupted", status[u]}
      /\ \A u \in Task : at'[u] \in {at[u], "none"}
  BY <1>2 DEF Interrupted, IInv, TypeOK
<1>5. SeenInv'
  BY <1>2, <1>4, SeenKept
<1>. QED
  BY <1>1, <1>3, <1>5 DEF OwnInv, IInv

\* Death and restart keep the invariant.
LEMMA RebootKeeps == ASSUME IInv, Crash \/ Restart PROVE IInv'
<1>1. OwnInv'
  BY RebootOwn
<1>2. /\ \A u \in Task : status'[u] \in {status[u], Interrupted(u)}
      /\ UNCHANGED <<stage, space, peers, joined>> /\ \A u \in Task : at'[u] = "none"
  BY DEF Crash, Restart, Reconciled, durable, engine, IInv, TypeOK, WorkerInv
<1>3. JournalsValid' /\ PeersInv'
  BY <1>2, InterruptedRows
<1>4. \A u \in Task : Interrupted(u) \in {"interrupted", status[u]}
  BY DEF Interrupted
<1>5. SeenInv'
  BY <1>2, <1>4, Names, SeenKept
<1>. QED
  BY <1>1, <1>3, <1>5 DEF OwnInv, IInv

\* The engine's own steps keep the invariant.
LEMMA OutsideKeeps == ASSUME IInv, Outside PROVE IInv'
<1>1. /\ UNCHANGED <<status, stage, space, peers, mode, at, seen, made, joined>>
      /\ ns' \in 0 .. MaxSpaces /\ spaces' \in 0 .. MaxSpaces /\ alive' \subseteq Member
  BY LaunchAssumption DEF Outside, AnchorEnds, AnchorReturns, MemberEnds, durable, IInv, TypeOK
<1>2. UNCHANGED durable
  BY <1>1 DEF durable
<1>3. JournalsValid' /\ PeersInv'
  BY <1>2, QuietRows
<1>4. TypeOK'
  BY <1>1 DEF IInv, TypeOK
<1>5. DispatchedOnce' /\ WorkerInv' /\ GateInv' /\ SeenInv'
  BY <1>1 DEF IInv, DispatchedOnce, WorkerInv, AtCall, GateInv, SeenInv
<1>. QED
  BY <1>3, <1>4, <1>5 DEF IInv

\* So does a step that changes nothing.
LEMMA StutterKeeps == ASSUME IInv, UNCHANGED vars PROVE IInv'
  BY DEF vars, durable, engine, IInv, TypeOK, JournalsValid, PreparationValid, StartValid,
         StorageValid, LaunchValid, Prerequisites, LaunchBinding, DispatchedOnce, WorkerInv,
         AtCall, GateInv, PeersInv, SeenInv

-----------------------------------------------------------------------------
(* The theorems *)

\* The invariant is inductive.
LEMMA NextKeeps == ASSUME IInv, [Next]_vars PROVE IInv'
<1>1. CASE Requests
  BY <1>1, QueuePreparationKeeps, QueueStartKeeps, QueueStorageKeeps, QueueLaunchKeeps DEF Requests
<1>2. CASE \E t \in Task : Acquire(t)
  BY <1>2, AcquireKeeps
<1>3. CASE Controller
  BY <1>3, BeginPreparationKeeps, LookPreparationKeeps, CommitPreparationKeeps,
     BeginStartKeeps, LookStartKeeps, CommitStartKeeps,
     BeginStorageKeeps, LookStorageKeeps, CommitStorageKeeps,
     BeginLaunchKeeps, LookLaunchKeeps, CommitLaunchKeeps DEF Controller
<1>4. CASE Dispatch
  BY <1>4, CreateResourceKeeps, StartAnchorKeeps, CreateMountKeeps, PrepareWorkspaceKeeps,
     CreateMemberKeeps, StartMemberKeeps DEF Dispatch
<1>5. CASE Failure
  BY <1>5, EndKeeps DEF Failure
<1>6. CASE Crash \/ Restart
  BY <1>6, RebootKeeps
<1>7. CASE Outside
  BY <1>7, OutsideKeeps
<1>8. CASE UNCHANGED vars
  BY <1>8, StutterKeeps
<1>. QED
  BY <1>1, <1>2, <1>3, <1>4, <1>5, <1>6, <1>7, <1>8 DEF Next, Worker

\* What the workers' places, the rows and the engine say of each other holds
\* at every moment of every launch (project_*.go, runtimequalify/project_*).
THEOREM Invariant == Spec => []IInv
<1>1. Init => IInv
  BY InitIInv
<1>2. IInv /\ [Next]_vars => IInv'
  BY NextKeeps
<1>. QED
  BY <1>1, <1>2, PTL DEF Spec

\* The store recognizes its rows after every interruption, loss and restart
\* (the validations of project_*.go), whatever the number of members.
THEOREM JournalsStayValid == Spec => []JournalsValid
<1>1. IInv => JournalsValid
  BY DEF IInv
<1>. QED
  BY <1>1, Invariant, PTL

\* No engine call is made twice and none without its journal's stage
\* (write-ahead journals of project_preparation.go and its siblings).
THEOREM CallsOnce == Spec => []DispatchedOnce
<1>1. IInv => DispatchedOnce
  BY DEF IInv
<1>. QED
  BY <1>1, Invariant, PTL

\* Launched members were started in the recorded namespace of the anchor, and
\* each launch knows the ones before it (private_member_launch.go).
THEOREM OneNamespace == Spec => []LaunchedTogether
<1>1. IInv => LaunchedTogether
  <2>1. SUFFICES ASSUME IInv, NEW m \in Member, status[Launch(m)] = "succeeded"
                 PROVE  /\ joined[m] = space /\ space # 0
                        /\ \A p \in Member \ {m} : status[Launch(p)] = "succeeded" =>
                               (p \in peers[m] <=> m \notin peers[p])
    BY DEF LaunchedTogether
  <2>2. joined[m] = space /\ space # 0
    BY <2>1 DEF IInv, SeenInv
  <2>3. \A p \in Member : status[Launch(p)] = "succeeded" => stage[Launch(p)] # None
    BY <2>1 DEF IInv, JournalsValid, LaunchValid
  <2>. QED
    BY <2>1, <2>2, <2>3 DEF IInv, PeersInv
<1>. QED
  BY <1>1, Invariant, PTL

-----------------------------------------------------------------------------
(* What a project is promised *)

\* A step of what is promised, or one that it does not show.
FormationStep == [Formation!Next]_(Formation!formed)

\* A step after which no further task is done, and nothing of a launch that is
\* done has changed, shows nothing.
Unshown ==
    /\ space' = space
    /\ \A t \in Task : status'[t] = "succeeded" <=> status[t] = "succeeded"
    /\ \A m \in Member : Launched(m) => peers'[m] = peers[m] /\ joined'[m] = joined[m]

\* It maps to a stutter.
LEMMA UnshownStep == Unshown => FormationStep
<1>. SUFFICES ASSUME Unshown PROVE FormationStep
  OBVIOUS
<1>1. /\ (status'[Prepare] = "succeeded") = (status[Prepare] = "succeeded")
      /\ \A m \in Member : /\ status'[Storage(m)] = "succeeded" <=> status[Storage(m)] = "succeeded"
                           /\ Launched(m)' <=> Launched(m)
  BY Names DEF Unshown, Launched
<1>2. /\ {m \in Member : status'[Storage(m)] = "succeeded"}
           = {m \in Member : status[Storage(m)] = "succeeded"}
      /\ {m \in Member : Launched(m)'} = {m \in Member : Launched(m)}
  BY <1>1
<1>3. /\ [m \in Member |-> IF Launched(m)' THEN peers'[m] ELSE {}]
           = [m \in Member |-> IF Launched(m) THEN peers[m] ELSE {}]
      /\ [m \in Member |-> IF Launched(m)' THEN joined'[m] ELSE 0]
           = [m \in Member |-> IF Launched(m) THEN joined[m] ELSE 0]
  BY <1>1 DEF Unshown
<1>. QED
  BY <1>1, <1>2, <1>3 DEF Unshown, FormationStep, Formation!formed

\* Asking, waiting, looking, failing and restarting show nothing.
LEMMA QuietUnshown ==
    ASSUME IInv, \/ Requests \/ \E t \in Task : Acquire(t)
                 \/ LookPreparation \/ LookStart
                 \/ \E m \in Member : LookStorage(m) \/ LookLaunch(m)
                 \/ Failure \/ Crash \/ Restart \/ Outside
    PROVE  Unshown
<1>1. CASE Requests
  <2>1. PICK t \in Task : \E g \in {None, 0} : status[t] = "none" /\ Queue(t, g)
    BY <1>1, Names DEF Requests, QueuePreparation, QueueStart, QueueStorage, QueueLaunch,
       PreparationAdmissible, StartAdmissible, StorageAdmissible, LaunchAdmissible
  <2>. QED
    BY <2>1 DEF Queue, Unshown, engine, IInv, TypeOK
<1>2. CASE \/ \E t \in Task : Acquire(t)
           \/ LookPreparation \/ LookStart
           \/ \E m \in Member : LookStorage(m) \/ LookLaunch(m)
  BY <1>2 DEF Acquire, LookPreparation, LookStart, LookStorage, LookLaunch, Look, Unshown,
     durable, engine
<1>3. CASE Failure
  BY <1>3 DEF Failure, Interrupt, InterruptFails, Interrupted, Pending, Unshown, durable,
     engine, IInv, TypeOK
<1>4. CASE Crash \/ Restart
  BY <1>4 DEF Crash, Restart, Reconciled, Interrupted, Pending, Unshown, durable, engine
<1>5. CASE Outside
  BY <1>5 DEF Outside, AnchorEnds, AnchorReturns, MemberEnds, Unshown, durable
<1>. QED
  BY <1>1, <1>2, <1>3, <1>4, <1>5

\* A worker that begins has not done its task, and records who has.
LEMMA BeginUnshown ==
    ASSUME IInv, \/ BeginPreparation \/ BeginStart
                 \/ \E m \in Member : BeginStorage(m) \/ BeginLaunch(m)
    PROVE  Unshown
<1>1. PICK t \in Task : /\ Begin(t) /\ status[t] = "queued"
                        /\ \/ peers' = peers
                           \/ \E m \in Member : /\ t = Launch(m)
                                                /\ peers' = [peers EXCEPT ![m] = LaunchPeers(m)]
  BY Names DEF BeginPreparation, BeginStart, BeginStorage, BeginLaunch, OpenPreparation,
     OpenStart, OpenStorage, OpenLaunch, Fresh
<1>2. /\ status' = [status EXCEPT ![t] = "running"] /\ UNCHANGED <<space, joined>>
  BY <1>1 DEF Begin, engine
<1>. QED
  BY <1>1, <1>2 DEF Unshown, Launched, IInv, TypeOK

\* An engine call changes no row, and the member it starts is not launched yet.
LEMMA DispatchUnshown ==
    ASSUME IInv, Dispatch
    PROVE  Unshown
<1>1. UNCHANGED durable
  BY DEF Dispatch, CreateResource, StartAnchor, CreateMount, PrepareWorkspace, CreateMember,
     StartMember, Answer
<1>2. ASSUME NEW m \in Member, Launched(m) PROVE joined'[m] = joined[m]
  <2>1. at[Launch(m)] = "none"
    BY <1>2, Names DEF Launched, IInv, TypeOK, WorkerInv, Place
  <2>2. ~StartMember(m)
    BY <2>1 DEF StartMember, Answer
  <2>. QED
    BY <2>2 DEF Dispatch, CreateResource, StartAnchor, CreateMount, PrepareWorkspace,
       CreateMember, StartMember, IInv, TypeOK
<1>. QED
  BY <1>1, <1>2 DEF Unshown, durable

\* A commit short of the last stage shows nothing.
LEMMA EarlyCommit ==
    ASSUME IInv, NEW t \in Task, Commit(t), space' = space, stage[t] + 1 # Last[t[1]]
    PROVE  Unshown
BY DEF Commit, Owned, Unshown, engine, IInv, TypeOK

\* A commit of the last stage completes its own task and changes nothing else.
LEMMA LastCommit ==
    ASSUME IInv, NEW t \in Task, Commit(t), stage[t] + 1 = Last[t[1]]
    PROVE  /\ status[t] = "running" /\ status'[t] = "succeeded"
           /\ \A u \in Task \ {t} : status'[u] = status[u]
           /\ UNCHANGED <<peers, joined>>
BY DEF Commit, Owned, engine, IInv, TypeOK

\* The mapped state but for one of its parts.
SameLaunches ==
    \A m \in Member : (Launched(m)' <=> Launched(m)) /\ peers'[m] = peers[m] /\ joined'[m] = joined[m]
SameMounts ==
    \A m \in Member : status'[Storage(m)] = "succeeded" <=> status[Storage(m)] = "succeeded"

\* What is shown of launches and of mounts then is the same.
LEMMA SameShown ==
    /\ SameLaunches =>
         /\ {m \in Member : Launched(m)'} = {m \in Member : Launched(m)}
         /\ [m \in Member |-> IF Launched(m)' THEN peers'[m] ELSE {}]
              = [m \in Member |-> IF Launched(m) THEN peers[m] ELSE {}]
         /\ [m \in Member |-> IF Launched(m)' THEN joined'[m] ELSE 0]
              = [m \in Member |-> IF Launched(m) THEN joined[m] ELSE 0]
    /\ SameMounts =>
         {m \in Member : status'[Storage(m)] = "succeeded"}
           = {m \in Member : status[Storage(m)] = "succeeded"}
BY DEF SameLaunches, SameMounts

\* The end of the preparation founds the network.
LEMMA FoundStep ==
    ASSUME IInv, CommitPreparation
    PROVE  FormationStep
<1>1. Commit(Prepare) /\ space' = space /\ Prepare \in Task
  BY Names DEF CommitPreparation
<1>2. CASE stage[Prepare] + 1 # Last[Prepare[1]]
  BY <1>1, <1>2, EarlyCommit, UnshownStep
<1>3. CASE stage[Prepare] + 1 = Last[Prepare[1]]
  <2>1. /\ status'[Prepare] = "succeeded" /\ UNCHANGED <<peers, joined>>
        /\ \A u \in Task \ {Prepare} : status'[u] = status[u]
    BY <1>1, <1>3, LastCommit
  <2>2. SameLaunches /\ SameMounts
    BY <2>1, Names DEF SameLaunches, SameMounts, Launched
  <2>3. Formation!Found
    BY <1>1, <2>1, <2>2, SameShown DEF Formation!Found
  <2>. QED
    BY <2>3 DEF FormationStep, Formation!Next
<1>. QED
  BY <1>2, <1>3

\* The end of the anchor's start records its namespace, once.
LEMMA AnchorStep ==
    ASSUME IInv, CommitStart
    PROVE  FormationStep
<1>1. Commit(Start) /\ Start \in Task /\ status[Start] = "running" /\ stage[Start] \in 0 .. 2
  BY Names, Stages DEF CommitStart, Commit, Owned, Ready, IInv, WorkerInv
<1>2. CASE stage[Start] # 2
  <2>1. space' = space
    BY <1>2 DEF CommitStart
  <2>. QED
    BY <1>1, <1>2, <2>1, Stages, EarlyCommit, UnshownStep
<1>3. CASE stage[Start] = 2
  <2>1. /\ UNCHANGED <<peers, joined>>
        /\ \A u \in Task \ {Start} : status'[u] = status[u]
    BY <1>1, <1>3, Stages, LastCommit
  <2>2. SameLaunches /\ SameMounts
    BY <2>1, Names DEF SameLaunches, SameMounts, Launched
  <2>3. space' = seen /\ seen \in 1 .. MaxSpaces /\ space = 0
    <3>1. at[Start] = "commit"
      BY <1>1, <1>3, Stages DEF Commit, Ready
    <3>. QED
      BY <1>3, <3>1 DEF CommitStart, IInv, SeenInv, TypeOK
  <2>4. status[Prepare] = "succeeded" /\ status'[Prepare] = "succeeded"
    BY <1>1, <2>1, Names DEF IInv, JournalsValid, StartValid
  <2>5. Formation!Anchor(seen)
    BY <2>2, <2>3, <2>4, SameShown DEF Formation!Anchor
  <2>. QED
    BY <2>3, <2>5 DEF FormationStep, Formation!Next
<1>. QED
  BY <1>2, <1>3

\* The end of a storage task gives a member its mount.
LEMMA MountStep ==
    ASSUME IInv, NEW m \in Member, CommitStorage(m)
    PROVE  FormationStep
<1>1. Commit(Storage(m)) /\ space' = space /\ Storage(m) \in Task
  BY Names DEF CommitStorage
<1>2. CASE stage[Storage(m)] + 1 # Last[Storage(m)[1]]
  BY <1>1, <1>2, EarlyCommit, UnshownStep
<1>3. CASE stage[Storage(m)] + 1 = Last[Storage(m)[1]]
  <2>1. /\ status'[Storage(m)] = "succeeded" /\ UNCHANGED <<peers, joined>>
        /\ \A u \in Task \ {Storage(m)} : status'[u] = status[u]
    BY <1>1, <1>3, LastCommit
  <2>2. SameLaunches /\ status'[Prepare] = status[Prepare]
    BY <2>1, Names DEF SameLaunches, Launched
  <2>3. \A p \in Member : status'[Storage(p)] = "succeeded"
                            <=> status[Storage(p)] = "succeeded" \/ p = m
    BY <2>1, Names
  <2>4. {p \in Member : status'[Storage(p)] = "succeeded"}
          = {p \in Member : status[Storage(p)] = "succeeded"} \cup {m}
    BY <2>3
  <2>5. Formation!Mount(m)
    BY <1>1, <2>2, <2>4, SameShown DEF Formation!Mount
  <2>. QED
    BY <2>5 DEF FormationStep, Formation!Next
<1>. QED
  BY <1>2, <1>3

\* The members a running launch has recorded are exactly those done.
LEMMA KnowsExactly ==
    ASSUME IInv, NEW m \in Member, status[Launch(m)] = "running", stage[Launch(m)] = 6
    PROVE  peers[m] = {p \in Member : Launched(p)}
<1>1. LaunchBinding(m) /\ peers[m] \subseteq Member
  BY DEF IInv, TypeOK, JournalsValid, LaunchValid, None
<1>2. ASSUME NEW p \in Member, p \in peers[m] PROVE Launched(p)
  <2>1. stage[Launch(p)] = 7
    BY <1>1, <1>2 DEF LaunchBinding
  <2>2. status[Launch(p)] # "none"
    BY <2>1, Names DEF IInv, WorkerInv, None
  <2>. QED
    BY <2>1, <2>2 DEF IInv, JournalsValid, LaunchValid, Launched, None
<1>3. ASSUME NEW p \in Member, Launched(p) PROVE p \in peers[m]
  <2>1. p # m /\ stage[Launch(p)] = 7 /\ LaunchBinding(p)
    BY <1>3 DEF Launched, IInv, JournalsValid, LaunchValid, None
  <2>2. m \notin peers[p]
    BY <2>1 DEF LaunchBinding
  <2>. QED
    BY <1>3, <2>1, <2>2 DEF IInv, PeersInv, Launched, None
<1>. QED
  BY <1>1, <1>2, <1>3

\* The end of a launch joins its member to the network.
LEMMA JoinStep ==
    ASSUME IInv, NEW m \in Member, CommitLaunch(m)
    PROVE  FormationStep
<1>1. Commit(Launch(m)) /\ space' = space /\ Launch(m) \in Task
  BY Names DEF CommitLaunch
<1>2. CASE stage[Launch(m)] + 1 # Last[Launch(m)[1]]
  BY <1>1, <1>2, EarlyCommit, UnshownStep
<1>3. CASE stage[Launch(m)] + 1 = Last[Launch(m)[1]]
  <2>1. /\ status[Launch(m)] = "running" /\ status'[Launch(m)] = "succeeded"
        /\ UNCHANGED <<peers, joined>>
        /\ \A u \in Task \ {Launch(m)} : status'[u] = status[u]
    BY <1>1, <1>3, LastCommit
  <2>2. stage[Launch(m)] = 6 /\ at[Launch(m)] = "commit"
    <3>1. stage[Launch(m)] \in 0 .. 6 /\ Calls[Launch(m)[1]] = {1, 3, 5}
      BY <1>1, CommitRows, Stages
    <3>2. stage[Launch(m)] = 6
      BY <1>3, <3>1, Stages
    <3>. QED
      BY <1>1, <3>1, <3>2 DEF Commit, Ready
  <2>3. SameMounts /\ status'[Prepare] = status[Prepare]
    BY <2>1, Names DEF SameMounts
  <2>4. ~Launched(m) /\ Launched(m)'
    BY <2>1 DEF Launched
  <2>5. \A p \in Member : Launched(p)' <=> Launched(p) \/ p = m
    BY <2>1, Names DEF Launched
  <2>6. {p \in Member : Launched(p)'} = {p \in Member : Launched(p)} \cup {m}
    BY <2>5
  <2>7. peers[m] = {p \in Member : Launched(p)}
    BY <2>1, <2>2, KnowsExactly
  <2>8. [p \in Member |-> IF Launched(p)' THEN peers'[p] ELSE {}]
          = [[p \in Member |-> IF Launched(p) THEN peers[p] ELSE {}]
               EXCEPT ![m] = {p \in Member : Launched(p)}]
    BY <2>1, <2>4, <2>5, <2>7
  <2>9. joined[m] = space /\ space # 0
    BY <2>2 DEF IInv, SeenInv
  <2>10. [p \in Member |-> IF Launched(p)' THEN joined'[p] ELSE 0]
           = [[p \in Member |-> IF Launched(p) THEN joined[p] ELSE 0] EXCEPT ![m] = space]
    BY <2>1, <2>4, <2>5, <2>9
  <2>11. m \in {p \in Member : status[Storage(p)] = "succeeded"} \ {p \in Member : Launched(p)}
    <3>1. Prerequisites(m)
      BY <2>1 DEF IInv, JournalsValid, LaunchValid
    <3>. QED
      BY <2>4, <3>1 DEF Prerequisites
  <2>12. Formation!Join(m)
    BY <1>1, <2>3, <2>6, <2>8, <2>9, <2>10, <2>11, SameShown DEF Formation!Join
  <2>. QED
    BY <2>12 DEF FormationStep, Formation!Next
<1>. QED
  BY <1>2, <1>3

\* Every step of the four tasks and of the engine is promised, or shows nothing.
LEMMA NextForms == ASSUME IInv, [Next]_vars PROVE FormationStep
<1>1. CASE Controller
  BY <1>1, QuietUnshown, BeginUnshown, UnshownStep, FoundStep, AnchorStep, MountStep, JoinStep
     DEF Controller
<1>2. CASE Dispatch
  BY <1>2, DispatchUnshown, UnshownStep
<1>3. CASE \/ Requests \/ \E t \in Task : Acquire(t)
           \/ Failure \/ Crash \/ Restart \/ Outside
  BY <1>3, QuietUnshown, UnshownStep
<1>4. CASE UNCHANGED vars
  BY <1>4, UnshownStep DEF vars, durable, engine, Unshown
<1>. QED
  BY <1>1, <1>2, <1>3, <1>4 DEF Next, Worker

\* The first launch of a project, for any number of members and through any
\* failure, forms its network as NetworkFormation promises: who is reported
\* launched is in the anchor's recorded namespace and knows those before it.
THEOREM FormationKept == Spec => ImplementsFormation
<1>1. Init => Formation!Init
  BY Names DEF Init, Formation!Init, Launched
<1>2. IInv /\ [Next]_vars => [Formation!Next]_(Formation!formed)
  BY NextForms DEF FormationStep
<1>. QED
  BY <1>1, <1>2, Invariant, PTL DEF Spec, ImplementsFormation, Formation!Spec
=============================================================================
