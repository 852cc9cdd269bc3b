----------------------- MODULE MemberLifecycleProofs -----------------------
(* The invariant of MemberLifecycle is inductive, for every finite set of     *)
(* members and every bound on their containers.  Most steps change the row of *)
(* one job: what leaves the other journals valid is proved once per journal;  *)
(* only a resume that succeeds makes the chain of bindings longer.            *)
EXTENDS MemberLifecycle, TLAPS

-----------------------------------------------------------------------------
(* Jobs, stages and calls *)

\* Every job is of one of the three kinds, and no two kinds share a job.
LEMMA Jobs ==
    /\ \A c \in Container : Stop(c) \in Job /\ Retire(c) \in Job /\ Resume(c) \in Job
    /\ \A c \in Container : /\ Stop(c)[1] = "stop" /\ Stop(c)[2] = c
                            /\ Retire(c)[1] = "retire" /\ Retire(c)[2] = c
                            /\ Resume(c)[1] = "resume" /\ Resume(c)[2] = c
    /\ \A c, d \in Container : /\ Stop(c) # Retire(d) /\ Stop(c) # Resume(d)
                               /\ Retire(c) # Resume(d)
                               /\ Stop(c) = Stop(d) => c = d
                               /\ Retire(c) = Retire(d) => c = d
                               /\ Resume(c) = Resume(d) => c = d
    /\ \A j \in Job : j[2] \in Container /\ j \in {Stop(j[2]), Retire(j[2]), Resume(j[2])}
  BY DEF Stop, Retire, Resume, Job

\* The last stage and the dispatched stages of each kind.
LEMMA Stages ==
    /\ Last["stop"] = 3 /\ Calls["stop"] = {1}
    /\ Last["retire"] = 3 /\ Calls["retire"] = {1}
    /\ Last["resume"] = 5 /\ Calls["resume"] = {1, 3}
    /\ \A j \in Job : /\ Last[j[1]] \in 3 .. 5 /\ Calls[j[1]] \subseteq {1, 3}
                      /\ \A s \in Calls[j[1]] : s < Last[j[1]] /\ s + 1 \notin Calls[j[1]]
<1>1. /\ Last["stop"] = 3 /\ Calls["stop"] = {1}
      /\ Last["retire"] = 3 /\ Calls["retire"] = {1}
      /\ Last["resume"] = 5 /\ Calls["resume"] = {1, 3}
  BY DEF Last, Calls
<1>2. \A j \in Job : j[1] \in {"stop", "retire", "resume"}
  BY DEF Job
<1>. QED
  BY <1>1, <1>2

\* A container is a member and the number of its container.
LEMMA Containers ==
    /\ \A c \in Container : c[1] \in Member /\ c[2] \in 1 .. MaxGen /\ c = <<c[1], c[2]>>
    /\ \A m \in Member, g \in 1 .. MaxGen :
          <<m, g>> \in Container /\ <<m, g>>[1] = m /\ <<m, g>>[2] = g
  BY DEF Container

\* Bindings are functions to the containers' numbers.
LEMMA BindingsTyped ==
    ASSUME TypeOK, \A c \in Container : Exists(Resume(c)) => c[2] < MaxGen
    PROVE  Bindings \subseteq Binding /\ Initial \in Binding
<1>1. Initial \in Binding
  BY LifecycleAssumption DEF Initial, Binding
<1>2. \A c \in Done : After(c) \in Binding
  <2>. TAKE c \in Done
  <2>1. c \in Container /\ c[2] + 1 \in 1 .. MaxGen
    BY Containers, LifecycleAssumption DEF Done, Replaced, Exists
  <2>2. bind[c] \in Binding
    BY <2>1 DEF TypeOK
  <2>. QED
    BY <2>1, <2>2 DEF After, Binding
<1>. QED
  BY <1>1, <1>2 DEF Bindings

-----------------------------------------------------------------------------
(* What one journal says of the others *)

\* A container whose removal is on record ended cleanly after a Stop; a resume
\* needs the removal; a Stop is of a container of one binding of the chain.
LEMMA OnRecord ==
    ASSUME IInv, NEW c \in Container
    PROVE  /\ Exists(Resume(c)) => Retired(c)
           /\ Exists(Retire(c)) => CleanExit(c) /\ c \in exits
           /\ c \in exits => Observable(c)
           /\ Observable(c) => Exists(Stop(c))
           /\ Exists(Stop(c)) => bind[c] \in Bindings /\ c \in On(bind[c])
           /\ stage[Stop(c)] # None => Exists(Stop(c))
           /\ stage[Retire(c)] # None => Exists(Retire(c))
           /\ stage[Resume(c)] # None => Exists(Resume(c))
<1>1. /\ Exists(Resume(c)) => Retired(c)
      /\ Exists(Retire(c)) => CleanExit(c)
      /\ c \in exits => Observable(c)
      /\ Exists(Stop(c)) => bind[c] \in Bindings /\ c \in On(bind[c])
  BY DEF IInv, JournalsValid, ResumesValid, RetirementsValid, ExitsValid, StopsValid
<1>2. CleanExit(c) => c \in exits
  BY DEF CleanExit
<1>3. Observable(c) => Exists(Stop(c))
  BY DEF Observable, Exists
<1>4. \A j \in Job : stage[j] # None => Exists(j)
  BY DEF IInv, WorkerInv, Exists
<1>. QED
  BY <1>1, <1>2, <1>3, <1>4, Jobs

\* So nothing is on record of a container after the current one.
LEMMA NotYet ==
    ASSUME IInv, NEW c \in Container
    PROVE  /\ Exists(Stop(c)) => c[2] <= Current[c[1]] /\ bind[c][c[1]] = c[2]
           /\ Exists(Retire(c)) \/ Exists(Resume(c)) \/ Replaced(c)
              \/ c \in exits \/ Observable(c) \/ Stopped(c) => Exists(Stop(c))
           /\ Replaced(c) => Exists(Resume(c)) /\ c[2] < MaxGen
<1>1. Exists(Stop(c)) => c[2] <= Current[c[1]] /\ bind[c][c[1]] = c[2]
  <2>. SUFFICES ASSUME Exists(Stop(c)) PROVE c[2] <= Current[c[1]] /\ bind[c][c[1]] = c[2]
    OBVIOUS
  <2>1. bind[c] \in Bindings /\ c \in On(bind[c])
    BY OnRecord
  <2>2. PICK m \in Member : c = <<m, bind[c][m]>>
    BY <2>1 DEF On
  <2>3. c[1] = m /\ c[2] = bind[c][m]
    BY <2>2
  <2>. QED
    BY <2>1, <2>3 DEF IInv, ChainInv
<1>2. Replaced(c) => Exists(Resume(c))
  BY DEF Replaced, Exists
<1>3. Stopped(c) => Exists(Stop(c))
  BY OnRecord DEF Stopped, None
<1>4. Retired(c) => Exists(Retire(c))
  BY DEF Retired, Exists
<1>. QED
  BY <1>1, <1>2, <1>3, <1>4, OnRecord DEF IInv, ProcInv

\* A busy job is of the current container of its member.
LEMMA BusyCurrent ==
    ASSUME IInv, NEW j \in Job, Busy(j)
    PROVE  /\ j[2] \in Container /\ bind[j[2]] = Current /\ OthersStopped(j[2])
           /\ Exists(Stop(j[2])) /\ j[2][2] = Current[j[2][1]]
           /\ \A k \in Job \ {j} : ~Busy(k)
<1>1. /\ bind[j[2]] = Current /\ OthersStopped(j[2])
      /\ \A k \in Job \ {j} : ~Busy(k)
  BY DEF IInv, AloneInv
<1>2. j[2] \in Container /\ j \in {Stop(j[2]), Retire(j[2]), Resume(j[2])}
  BY Jobs
<1>3. Exists(j)
  BY DEF Busy, Live, Unresolved, Exists
<1>4. Exists(Stop(j[2]))
  BY <1>2, <1>3, NotYet
<1>. QED
  BY <1>1, <1>2, <1>4, NotYet

\* The engine works only for the busy job or an interrupted Stop.
LEMMA CallBusy ==
    ASSUME IInv, NEW j \in calls
    PROVE  j \in Job /\ stage[j] \in Calls[j[1]] /\ Exists(j) /\ (j[1] # "stop" => Busy(j))
  BY DEF IInv, TypeOK, WorkerInv, Busy, Unresolved, Exists

-----------------------------------------------------------------------------
(* What a step leaves alone *)

\* The chain is as it was if no resume succeeded and no link changed.
ChainSame == /\ Done' = Done /\ Bindings' = Bindings /\ Current' = Current
             /\ ChainInv' /\ Resolves'

\* It is then the same chain of valid links.
LEMMA ChainKept ==
    ASSUME IInv, \A c \in Container : Replaced(c)' <=> Replaced(c),
           \A c \in Done : bind'[c] = bind[c]
    PROVE  ChainSame
<1>1. Done' = Done
  BY DEF Done
<1>2. \A c \in Done : After(c)' = After(c)
  BY DEF After
<1>3. Bindings' = Bindings
  BY <1>1, <1>2 DEF Bindings
<1>4. Current' = Current
  <2>1. Current' = CHOOSE b \in Bindings' : \A c \in Done' : bind'[c] # b
    BY DEF Current
  <2>2. \A b : (\A c \in Done' : bind'[c] # b) <=> (\A c \in Done : bind[c] # b)
    BY <1>1
  <2>3. Current' = CHOOSE b \in Bindings : \A c \in Done : bind[c] # b
    BY <1>1, <1>3, <2>1, <2>2
  <2>. QED
    BY <2>3 DEF Current
<1>5. ChainInv'
  BY <1>1, <1>3, <1>4 DEF IInv, ChainInv
<1>6. Resolves'
  <2>1. Resolves
    BY DEF IInv, JournalsValid, ResumesValid, RetirementsValid, ExitsValid, StopsValid
  <2>. QED
    BY <1>1, <1>3, <2>1 DEF Resolves, On
<1>. QED
  BY <1>1, <1>3, <1>4, <1>5, <1>6 DEF ChainSame

\* No Stop was touched, and what was added to the receipts and the exits is
\* of the chain and of a Stop that ended.
LEMMA StopsKept ==
    ASSUME IInv, ChainSame,
           \A c \in Container : /\ status'[Stop(c)] = status[Stop(c)]
                                /\ stage'[Stop(c)] = stage[Stop(c)]
                                /\ bind'[c] = bind[c]
                                /\ Stopped(c) => code'[c] = code[c],
           ready \subseteq ready', \A r \in ready' : r[2] \in Bindings,
           \A c \in exits' : c \in Container /\ Observable(c)
    PROVE  ExitsValid'
<1>1. \A c \in Container : Replaced(c)' <=> Replaced(c)
  BY DEF ChainSame, Done
<1>2. ASSUME NEW c \in Container
      PROVE  /\ PendingStop(c)' <=> PendingStop(c)
             /\ Exists(Stop(c))' <=> Exists(Stop(c))
             /\ Stopped(c)' <=> Stopped(c)
             /\ Clean(c)' <=> Clean(c)
             /\ Observable(c)' <=> Observable(c)
  <2>1. /\ status'[Stop(c)] = status[Stop(c)] /\ stage'[Stop(c)] = stage[Stop(c)]
        /\ Stopped(c) => code'[c] = code[c]
    BY <1>2
  <2>2. Stopped(c)' <=> Stopped(c)
    BY <2>1 DEF Stopped
  <2>3. /\ Exists(Stop(c))' <=> Exists(Stop(c))
        /\ Observable(c)' <=> Observable(c)
    BY <2>1 DEF Exists, Observable
  <2>4. Clean(c)' <=> Clean(c)
    BY <2>1, <2>2 DEF Clean
  <2>5. Live(Stop(c))' <=> Live(Stop(c))
    BY <2>1 DEF Live
  <2>6. PendingStop(c)' <=> PendingStop(c)
    BY <1>1, <1>2, <2>1, <2>2, <2>5 DEF PendingStop
  <2>. QED
    BY <2>2, <2>3, <2>4, <2>6
<1>3. StopsValid
  BY DEF IInv, JournalsValid, ResumesValid, RetirementsValid, ExitsValid
<1>4. StopsValid'
  <2>1. Resolves' /\ \A r \in ready' : r[2] \in Bindings'
    BY DEF ChainSame
  <2>2. ASSUME NEW c \in Container, Exists(Stop(c))'
        PROVE  /\ bind'[c] \in Bindings' /\ c \in On(bind'[c]) /\ <<c[1], bind'[c]>> \in ready'
               /\ status'[Stop(c)] = "queued" => stage'[Stop(c)] = 0
               /\ status'[Stop(c)] = "succeeded" => Clean(c)'
               /\ status'[Stop(c)] = "failed" => Stopped(c)' /\ ~Clean(c)'
    <3>1. /\ Exists(Stop(c))
          /\ Clean(c)' <=> Clean(c)
          /\ Stopped(c)' <=> Stopped(c)
          /\ status'[Stop(c)] = status[Stop(c)] /\ stage'[Stop(c)] = stage[Stop(c)]
          /\ bind'[c] = bind[c] /\ Bindings' = Bindings
      BY <1>2, <2>2 DEF ChainSame
    <3>2. /\ bind[c] \in Bindings /\ c \in On(bind[c]) /\ <<c[1], bind[c]>> \in ready
          /\ status[Stop(c)] = "queued" => stage[Stop(c)] = 0
          /\ status[Stop(c)] = "succeeded" => Clean(c)
          /\ status[Stop(c)] = "failed" => Stopped(c) /\ ~Clean(c)
      BY <1>3, <2>2, <3>1 DEF StopsValid
    <3>. QED
      BY <3>1, <3>2
  <2>3. \A c, d \in Container : PendingStop(c)' /\ PendingStop(d)' => c = d
    BY <1>2, <1>3 DEF StopsValid
  <2>. QED
    BY <2>1, <2>2, <2>3 DEF StopsValid, On
<1>. QED
  BY <1>2, <1>4 DEF ExitsValid

\* No removal was touched, nor how a container that had left ended.
LEMMA RetiresKept ==
    ASSUME IInv, ExitsValid',
           \A c \in Container : /\ status'[Retire(c)] = status[Retire(c)]
                                /\ stage'[Retire(c)] = stage[Retire(c)],
           \A c \in exits : c \in exits' /\ code'[c] = code[c]
    PROVE  RetirementsValid'
<1>1. \A c \in Container : /\ CleanExit(c) => CleanExit(c)'
                           /\ Exists(Retire(c))' <=> Exists(Retire(c))
                           /\ Unresolved(Retire(c))' <=> Unresolved(Retire(c))
  BY DEF CleanExit, Exists, Unresolved
<1>2. RetirementsValid
  BY DEF IInv, JournalsValid, ResumesValid
<1>. QED
  BY <1>1, <1>2 DEF RetirementsValid

\* No resume was touched, nor a removal that is complete.
LEMMA ResumesKept ==
    ASSUME IInv, RetirementsValid',
           \A c \in Container : /\ status'[Resume(c)] = status[Resume(c)]
                                /\ stage'[Resume(c)] = stage[Resume(c)]
                                /\ Retired(c) => Retired(c)'
    PROVE  JournalsValid'
<1>1. \A c \in Container : /\ Exists(Resume(c))' <=> Exists(Resume(c))
                           /\ Unresolved(Resume(c))' <=> Unresolved(Resume(c))
  BY DEF Exists, Unresolved
<1>2. ResumesValid
  BY DEF IInv, JournalsValid
<1>. QED
  BY <1>1, <1>2 DEF ResumesValid, JournalsValid

\* The busy job stays the only one.
LEMMA AloneKept ==
    ASSUME IInv, ChainSame,
           \A j \in Job : Busy(j)' => Busy(j),
           \A c \in Container : /\ bind'[c] = bind[c]
                                /\ Exists(Stop(c))' => Exists(Stop(c))
                                /\ Stopped(c) => Stopped(c)'
    PROVE  AloneInv'
<1>1. \A c \in Container : Replaced(c)' <=> Replaced(c)
  BY DEF ChainSame, Done
<1>2. \A c \in Container : OthersStopped(c) => OthersStopped(c)'
  BY <1>1 DEF OthersStopped
<1>. SUFFICES ASSUME NEW j \in Job, Busy(j)'
              PROVE  /\ bind'[j[2]] = Current' /\ OthersStopped(j[2])'
                     /\ \A k \in Job \ {j} : ~Busy(k)'
  BY DEF AloneInv
<1>3. Busy(j) /\ j[2] \in Container
  BY Jobs
<1>4. bind[j[2]] = Current /\ OthersStopped(j[2]) /\ \A k \in Job \ {j} : ~Busy(k)
  BY <1>3 DEF IInv, AloneInv
<1>. QED
  BY <1>2, <1>3, <1>4 DEF ChainSame

\* What the rows say of the processes stays true if no process moved.
LEMMA ProcKept ==
    ASSUME IInv, ChainSame, proc' = proc,
           \A j \in Job : Exists(j) => Exists(j)',
           \A c \in Container :
               /\ stage'[Retire(c)] = 3 => stage[Retire(c)] = 3 \/ proc[c] = "removed"
               /\ c \in exits' \/ Stopped(c)' =>
                      c \in exits \/ Stopped(c) \/ proc[c] \in {"exited", "removed"}
               /\ Exists(Resume(c))' => Exists(Resume(c)) \/ c[2] < MaxGen
               /\ stage'[Resume(c)] = 5 =>
                      stage[Resume(c)] = 5 \/ proc[<<c[1], c[2] + 1>>] \notin {"absent", "created"}
    PROVE  ProcInv'
<1>1. \A c \in Container : Replaced(c)' <=> Replaced(c)
  BY DEF ChainSame, Done
<1>2. Current' = Current
  BY DEF ChainSame
<1>. SUFFICES ASSUME NEW c \in Container
     PROVE  /\ c[2] < Current[c[1]] => Replaced(c)
            /\ c[2] <= Current[c[1]] => proc[c] \notin {"absent", "created"}
            /\ c[2] > Current[c[1]] /\ proc[c] # "absent" =>
                   /\ c[2] = Current[c[1]] + 1
                   /\ status'[Resume(<<c[1], Current[c[1]]>>)] # "none"
            /\ proc[c] = "removed" => Exists(Retire(c))'
            /\ stage'[Retire(c)] = 3 => proc[c] = "removed"
            /\ c \in exits' \/ Stopped(c)' => proc[c] \in {"exited", "removed"}
            /\ Exists(Resume(c))' => c[2] < MaxGen
            /\ stage'[Resume(c)] = 5 =>
                   proc[<<c[1], c[2] + 1>>] \notin {"absent", "created"}
  BY <1>1, <1>2 DEF ProcInv, Exists
<1>3. Exists(Retire(c)) => Exists(Retire(c))'
  BY Jobs
<1>4. Exists(Resume(<<c[1], Current[c[1]]>>)) => status'[Resume(<<c[1], Current[c[1]]>>)] # "none"
  <2>1. c[1] \in Member /\ Current \in Binding
    BY Containers, BindingsTyped DEF IInv, ChainInv, ProcInv
  <2>2. <<c[1], Current[c[1]]>> \in Container
    BY <2>1, Containers DEF Binding
  <2>. QED
    BY <2>2, Jobs DEF Exists
<1>. QED
  BY <1>3, <1>4 DEF IInv, ProcInv

\* The pending observation stays valid if nothing it is of is taken back.
LEMMA ObsKept ==
    ASSUME IInv, obs' = obs,
           \A d \in Container : /\ Observable(d) => Observable(d)'
                                /\ Replaced(d) => Replaced(d)'
    PROVE  ObsInv'
<1>1. obs.kind # "none" => obs.of \in Container
  BY DEF IInv, TypeOK, Observation, Idle
<1>2. /\ obs.kind = "exit" => Observable(obs.of)
      /\ obs.kind = "resumed" => Replaced(obs.of)
  BY DEF IInv, ObsInv
<1>3. CASE obs.kind = "none"
  BY <1>3 DEF ObsInv
<1>4. CASE obs.kind # "none"
  <2>1. PICK d \in Container : d = obs.of
    BY <1>1, <1>4
  <2>2. /\ obs.kind = "exit" => Observable(d)'
        /\ obs.kind = "resumed" => Replaced(d)'
    BY <1>2, <2>1
  <2>. QED
    BY <2>1, <2>2 DEF ObsInv
<1>. QED
  BY <1>3, <1>4

\* A step that writes no row, nor how a container that was stopped ended.
LEMMA RowsKept ==
    ASSUME IInv, UNCHANGED <<status, stage, bind, exits, ready>>,
           \A c \in Container : c \in exits \/ Stopped(c) => code'[c] = code[c]
    PROVE  /\ JournalsValid' /\ ChainInv' /\ AloneInv' /\ ChainSame
           /\ \A d \in Container : /\ Observable(d) => Observable(d)'
                                   /\ Replaced(d) => Replaced(d)'
<1>1. \A d \in Container : /\ Replaced(d)' <=> Replaced(d)
                           /\ Observable(d)' <=> Observable(d)
                           /\ Stopped(d)' <=> Stopped(d)
                           /\ Retired(d)' <=> Retired(d)
  BY DEF Replaced, Observable, Stopped, Retired
<1>2. ChainSame
  BY <1>1, ChainKept
<1>3. ExitsValid'
  <2>1. \A r \in ready' : r[2] \in Bindings
    BY DEF IInv, JournalsValid, ResumesValid, RetirementsValid, ExitsValid, StopsValid
  <2>2. \A d \in exits' : d \in Container /\ Observable(d)
    BY OnRecord DEF IInv, TypeOK
  <2>. QED
    BY <1>2, <2>1, <2>2, StopsKept
<1>4. RetirementsValid'
  BY <1>3, RetiresKept DEF IInv, TypeOK
<1>5. JournalsValid'
  BY <1>1, <1>4, ResumesKept
<1>6. \A k \in Job : /\ Exists(k)' <=> Exists(k)
                     /\ Busy(k)' => Busy(k)
  BY DEF Exists, Busy, Live, Unresolved
<1>7. AloneInv'
  BY <1>1, <1>2, <1>6, Jobs, AloneKept
<1>. QED
  BY <1>1, <1>2, <1>5, <1>7 DEF ChainSame

\* A step that writes neither the store nor a process.
LEMMA DurableKept ==
    ASSUME IInv, UNCHANGED <<status, stage, bind, exits, ready, proc, code>>
    PROVE  /\ JournalsValid' /\ ChainInv' /\ AloneInv' /\ ProcInv'
           /\ \A d \in Container : /\ Observable(d) => Observable(d)'
                                   /\ Replaced(d) => Replaced(d)'
<1>1. /\ JournalsValid' /\ ChainInv' /\ AloneInv' /\ ChainSame
      /\ \A d \in Container : /\ Observable(d) => Observable(d)'
                              /\ Replaced(d) => Replaced(d)'
  BY RowsKept
<1>2. /\ \A k \in Job : Exists(k) => Exists(k)'
      /\ \A d \in Container : Stopped(d)' => Stopped(d)
  BY DEF Exists, Stopped
<1>3. ProcInv'
  BY <1>1, <1>2, Jobs, ProcKept DEF Exists
<1>. QED
  BY <1>1, <1>3

\* A state the rows allow a process to be in.
Allowed(e, v) ==
    /\ e[2] <= Current[e[1]] => v \notin {"absent", "created"}
    /\ e[2] > Current[e[1]] =>
           e[2] = Current[e[1]] + 1 /\ Exists(Resume(<<e[1], Current[e[1]]>>))
    /\ v = "removed" => Exists(Retire(e))
    /\ stage[Retire(e)] = 3 => v = "removed"
    /\ e \in exits \/ Stopped(e) => v \in {"exited", "removed"}
    /\ \A c \in Container : e = <<c[1], c[2] + 1>> /\ stage[Resume(c)] = 5 =>
           v \notin {"absent", "created"}

\* A process moves to one.
LEMMA ProcMoves ==
    ASSUME IInv, UNCHANGED <<status, stage, bind, exits, ready>>, ChainSame,
           NEW e \in Container, NEW v, proc' = [proc EXCEPT ![e] = v], Allowed(e, v)
    PROVE  ProcInv'
<1>1. \A d : Exists(d)' <=> Exists(d)
  BY DEF Exists
<1>2. \A d \in Container : /\ Replaced(d)' <=> Replaced(d)
                           /\ Stopped(d)' <=> Stopped(d)
  BY DEF Replaced, Stopped
<1>3. \A d \in Container : proc'[d] = IF d = e THEN v ELSE proc[d]
  BY DEF IInv, TypeOK
<1>. SUFFICES ASSUME NEW c \in Container
     PROVE  /\ c[2] < Current[c[1]] => Replaced(c)
            /\ c[2] <= Current[c[1]] => proc'[c] \notin {"absent", "created"}
            /\ c[2] > Current[c[1]] /\ proc'[c] # "absent" =>
                   /\ c[2] = Current[c[1]] + 1
                   /\ Exists(Resume(<<c[1], Current[c[1]]>>))
            /\ proc'[c] = "removed" => Exists(Retire(c))
            /\ stage[Retire(c)] = 3 => proc'[c] = "removed"
            /\ c \in exits \/ Stopped(c) => proc'[c] \in {"exited", "removed"}
            /\ Exists(Resume(c)) => c[2] < MaxGen
            /\ stage[Resume(c)] = 5 =>
                   proc'[<<c[1], c[2] + 1>>] \notin {"absent", "created"}
  BY <1>1, <1>2 DEF ProcInv, ChainSame, Exists
<1>4. /\ c[2] < Current[c[1]] => Replaced(c)
      /\ c[2] <= Current[c[1]] => proc[c] \notin {"absent", "created"}
      /\ c[2] > Current[c[1]] /\ proc[c] # "absent" =>
             /\ c[2] = Current[c[1]] + 1
             /\ Exists(Resume(<<c[1], Current[c[1]]>>))
      /\ proc[c] = "removed" => Exists(Retire(c))
      /\ stage[Retire(c)] = 3 => proc[c] = "removed"
      /\ c \in exits \/ Stopped(c) => proc[c] \in {"exited", "removed"}
      /\ Exists(Resume(c)) => c[2] < MaxGen
      /\ stage[Resume(c)] = 5 =>
             proc[<<c[1], c[2] + 1>>] \notin {"absent", "created"}
  BY DEF IInv, ProcInv
<1>5. stage[Resume(c)] = 5 => proc'[<<c[1], c[2] + 1>>] \notin {"absent", "created"}
  <2>. SUFFICES ASSUME stage[Resume(c)] = 5
                PROVE  proc'[<<c[1], c[2] + 1>>] \notin {"absent", "created"}
    OBVIOUS
  <2>1. c[1] \in Member /\ c[2] \in 1 .. MaxGen /\ c[2] < MaxGen
    BY <1>4, OnRecord, Containers DEF None
  <2>2. <<c[1], c[2] + 1>> \in Container
    BY <2>1, Containers, LifecycleAssumption
  <2>. QED
    BY <1>3, <1>4, <2>2 DEF Allowed
<1>. QED
  BY <1>3, <1>4, <1>5 DEF Allowed

\* One row is written and nothing of the engine.
Row(j, s, g, a) ==
    /\ status' = [status EXCEPT ![j] = s]
    /\ stage' = [stage EXCEPT ![j] = g]
    /\ at' = [at EXCEPT ![j] = a]
    /\ UNCHANGED <<mode, calls>>

\* Then the row's place and the engine's calls still agree.
LEMMA RowOwn ==
    ASSUME IInv, NEW j \in Job, NEW s \in {"queued", "running", "interrupted", "succeeded", "failed"},
           NEW g \in None .. 5, NEW a \in {"none", "gate", "work", "wait"}, Row(j, s, g, a),
           a # "none" => mode = "up" /\ s \in {"queued", "running"},
           a = "gate" => s = "queued",
           a \in {"work", "wait"} => s = "running" /\ g >= 0,
           a = "wait" => g \in Calls[j[1]],
           a = "work" => j \notin calls,
           s = "queued" => g <= 0,
           g <= Last[j[1]],
           j \in calls => g \in Calls[j[1]] /\ s \in {"running", "interrupted"}
    PROVE  /\ status' \in [Job -> {"none", "queued", "running", "interrupted", "succeeded", "failed"}]
           /\ stage' \in [Job -> None .. 5]
           /\ at' \in [Job -> {"none", "gate", "work", "wait"}]
           /\ WorkerInv'
           /\ status'[j] = s /\ stage'[j] = g /\ at'[j] = a
           /\ \A k \in Job \ {j} : /\ status'[k] = status[k] /\ stage'[k] = stage[k]
                                   /\ at'[k] = at[k]
<1>1. /\ status' \in [Job -> {"none", "queued", "running", "interrupted", "succeeded", "failed"}]
      /\ stage' \in [Job -> None .. 5]
      /\ at' \in [Job -> {"none", "gate", "work", "wait"}]
  BY DEF Row, IInv, TypeOK
<1>2. /\ status'[j] = s /\ stage'[j] = g /\ at'[j] = a
      /\ \A k \in Job \ {j} : /\ status'[k] = status[k] /\ stage'[k] = stage[k]
                              /\ at'[k] = at[k]
  BY DEF Row, IInv, TypeOK
<1>3. mode' = mode /\ calls' = calls
  BY DEF Row
<1>4. WorkerInv'
  <2>. SUFFICES ASSUME NEW k \in Job
       PROVE  /\ status'[k] = "none" => stage'[k] = None
              /\ at'[k] # "none" => mode' = "up" /\ Live(k)'
              /\ at'[k] = "gate" => status'[k] = "queued"
              /\ at'[k] \in {"work", "wait"} => status'[k] = "running" /\ stage'[k] >= 0
              /\ at'[k] = "wait" => stage'[k] \in Calls[k[1]]
              /\ at'[k] = "work" => k \notin calls'
              /\ status'[k] = "queued" => stage'[k] <= 0 /\ at'[k] \notin {"work", "wait"}
              /\ stage'[k] <= Last[k[1]]
              /\ k \in calls' => stage'[k] \in Calls[k[1]]
                                     /\ status'[k] \in {"running", "interrupted"}
    BY DEF WorkerInv
  <2>1. CASE k = j
    BY <1>2, <1>3, <2>1 DEF Live
  <2>2. CASE k # j
    BY <1>2, <1>3, <2>2 DEF IInv, WorkerInv, Live
  <2>. QED
    BY <2>1, <2>2
<1>. QED
  BY <1>1, <1>2, <1>4

\* The current container of every member is a container.
LEMMA CurrentTyped ==
    ASSUME IInv
    PROVE  /\ Current \in Binding /\ Current \in Bindings /\ Bindings \subseteq Binding
           /\ \A m \in Member : /\ <<m, Current[m]>> \in Container
                                /\ <<m, Current[m]>>[1] = m /\ <<m, Current[m]>>[2] = Current[m]
                                /\ <<m, Current[m]>> \in On(Current)
<1>1. Current \in Bindings /\ Bindings \subseteq Binding
  BY BindingsTyped DEF IInv, ChainInv, ProcInv
<1>2. \A m \in Member : Current[m] \in 1 .. MaxGen
  BY <1>1 DEF Binding
<1>. QED
  BY <1>1, <1>2, Containers DEF On

-----------------------------------------------------------------------------
(* The initial state *)

\* It holds at first.
LEMMA InitIInv == Init => IInv
<1>. SUFFICES ASSUME Init PROVE IInv
  OBVIOUS
<1>1. TypeOK
  <2>1. Initial \in Binding
    BY LifecycleAssumption DEF Initial, Binding
  <2>. QED
    BY <2>1 DEF Init, TypeOK, None, Observation
<1>2. \A j \in Job : status[j] = "none" /\ stage[j] = None /\ at[j] = "none"
  BY DEF Init
<1>3. \A c \in Container : /\ status[Stop(c)] = "none" /\ status[Retire(c)] = "none"
                           /\ status[Resume(c)] = "none" /\ stage[Stop(c)] = None
                           /\ stage[Retire(c)] = None /\ stage[Resume(c)] = None
  BY <1>2, Jobs
<1>4. Done = {} /\ Bindings = {Initial}
  BY <1>3 DEF Done, Replaced, Bindings
<1>5. Current = Initial
  BY <1>4 DEF Current
<1>6. JournalsValid
  <2>1. Resolves /\ \A r \in ready : r[2] \in Bindings
    BY <1>4 DEF Resolves, Init
  <2>2. \A c \in Container : ~PendingStop(c)
    BY <1>3 DEF PendingStop, Live
  <2>. QED
    BY <1>3, <2>1, <2>2 DEF JournalsValid, ResumesValid, RetirementsValid, ExitsValid,
       StopsValid, Exists, Unresolved, Init
<1>7. ChainInv
  BY <1>4, <1>5 DEF ChainInv, Initial
<1>8. WorkerInv
  BY <1>2, Stages DEF WorkerInv, Live, None, Init
<1>9. AloneInv
  BY <1>2 DEF AloneInv, Busy, Live, Unresolved
<1>10. ProcInv
  <2>. SUFFICES ASSUME NEW c \in Container
       PROVE  /\ c[2] < Current[c[1]] => Replaced(c)
              /\ c[2] <= Current[c[1]] => proc[c] \notin {"absent", "created"}
              /\ c[2] > Current[c[1]] => proc[c] = "absent"
              /\ proc[c] # "removed"
              /\ stage[Retire(c)] # 3 /\ c \notin exits /\ ~Stopped(c)
              /\ ~Exists(Resume(c)) /\ stage[Resume(c)] # 5
    BY DEF ProcInv
  <2>1. Current[c[1]] = 1 /\ c[2] \in Nat /\ c[2] >= 1
    BY <1>5, Containers DEF Initial
  <2>2. proc[c] = IF c[2] = 1 THEN "running" ELSE "absent"
    BY DEF Init
  <2>. QED
    BY <1>3, <2>1, <2>2 DEF Stopped, Exists, None, Init
<1>11. ObsInv
  BY DEF ObsInv, Init, Idle
<1>. QED
  BY <1>1, <1>6, <1>7, <1>8, <1>9, <1>10, <1>11 DEF IInv

-----------------------------------------------------------------------------
(* Admission *)

\* A job is accepted when none is busy, and nothing is on record of it.
LEMMA AcceptOwn ==
    ASSUME IInv, NEW j \in Job, NEW g \in {None, 0}, Accept(j, g)
    PROVE  /\ \A k \in Job : ~Busy(k) /\ ~Live(k)
           /\ status[j] = "none" /\ stage[j] = None
           /\ status' \in [Job -> {"none", "queued", "running", "interrupted", "succeeded", "failed"}]
           /\ stage' \in [Job -> None .. 5]
           /\ at' \in [Job -> {"none", "gate", "work", "wait"}]
           /\ WorkerInv' /\ ObsInv'
           /\ status'[j] = "queued" /\ stage'[j] = g
           /\ \A k \in Job \ {j} : status'[k] = status[k] /\ stage'[k] = stage[k]
<1>1. status[j] = "none" /\ mode = "up" /\ Row(j, "queued", g, "gate")
  BY DEF Accept, Row, engine
<1>2. stage[j] = None /\ j \notin calls
  BY <1>1 DEF IInv, WorkerInv
<1>3. g \in None .. 5 /\ g <= 0 /\ g <= Last[j[1]]
  BY Stages DEF None
<1>4. /\ status' \in [Job -> {"none", "queued", "running", "interrupted", "succeeded", "failed"}]
      /\ stage' \in [Job -> None .. 5]
      /\ at' \in [Job -> {"none", "gate", "work", "wait"}]
      /\ WorkerInv'
      /\ status'[j] = "queued" /\ stage'[j] = g
      /\ \A k \in Job \ {j} : status'[k] = status[k] /\ stage'[k] = stage[k]
  BY <1>1, <1>2, <1>3, RowOwn
<1>5. \A k \in Job : ~Busy(k) /\ ~Live(k)
  BY DEF Accept, Active, RetirementClear, Busy
<1>6. ObsInv'
  BY DEF Accept, Active, ObsInv, Idle
<1>. QED
  BY <1>1, <1>2, <1>4, <1>5, <1>6

\* Accepting a Stop.
LEMMA AcceptStopInv == ASSUME IInv, NEW m \in Member, AcceptStop(m) PROVE IInv'
<1>0. PICK c \in Container : c = <<m, Current[m]>>
  BY CurrentTyped
<1>1. c \in Container /\ c[1] = m /\ c[2] = Current[m] /\ c \in On(Current) /\ Current \in Bindings
      /\ Current \in Binding
  BY <1>0, CurrentTyped
<1>2. /\ Accept(Stop(c), 0) /\ <<m, Current>> \in ready /\ NoPendingStop
      /\ bind' = [bind EXCEPT ![c] = Current]
      /\ UNCHANGED <<before, exits, ready, mode, obs, calls, proc, code>>
  BY <1>0 DEF AcceptStop, Accept, engine
<1>3. /\ \A k \in Job : ~Busy(k) /\ ~Live(k)
      /\ status[Stop(c)] = "none" /\ stage[Stop(c)] = None
      /\ status' \in [Job -> {"none", "queued", "running", "interrupted", "succeeded", "failed"}]
      /\ stage' \in [Job -> None .. 5]
      /\ at' \in [Job -> {"none", "gate", "work", "wait"}]
      /\ WorkerInv' /\ ObsInv'
      /\ status'[Stop(c)] = "queued" /\ stage'[Stop(c)] = 0
      /\ \A k \in Job \ {Stop(c)} : status'[k] = status[k] /\ stage'[k] = stage[k]
  BY <1>1, <1>2, AcceptOwn, Jobs
<1>4. /\ \A d \in Container : /\ status'[Retire(d)] = status[Retire(d)]
                              /\ stage'[Retire(d)] = stage[Retire(d)]
                              /\ status'[Resume(d)] = status[Resume(d)]
                              /\ stage'[Resume(d)] = stage[Resume(d)]
                              /\ d # c => /\ status'[Stop(d)] = status[Stop(d)]
                                          /\ stage'[Stop(d)] = stage[Stop(d)]
                                          /\ bind'[d] = bind[d]
      /\ bind'[c] = Current
  <2>1. \A d \in Container : /\ Retire(d) \in Job \ {Stop(c)} /\ Resume(d) \in Job \ {Stop(c)}
                             /\ d # c => Stop(d) \in Job \ {Stop(c)}
    BY <1>1, Jobs
  <2>2. \A d \in Container : bind'[d] = IF d = c THEN Current ELSE bind[d]
    BY <1>2 DEF IInv, TypeOK
  <2>. QED
    BY <1>1, <1>3, <2>1, <2>2
<1>5. ~Exists(Stop(c)) /\ ~Replaced(c) /\ c \notin exits
  BY <1>1, <1>3, NotYet DEF Exists
<1>6. ChainSame
  <2>1. \A d \in Container : Replaced(d)' <=> Replaced(d)
    BY <1>4 DEF Replaced
  <2>2. \A d \in Done : bind'[d] = bind[d]
    BY <1>4, <1>5 DEF Done
  <2>. QED
    BY <2>1, <2>2, ChainKept
<1>7. TypeOK'
  <2>1. bind' \in [Container -> Binding]
    BY <1>1, <1>2 DEF IInv, TypeOK
  <2>2. /\ before' \in [Container -> SUBSET Member]
        /\ exits' \subseteq Container /\ ready' \subseteq Member \X Binding
        /\ mode' \in {"up", "down"}
        /\ obs' \in Observation /\ calls' \subseteq Job
        /\ proc' \in [Container -> {"absent", "created", "running", "exited", "removed"}]
        /\ code' \in [Container -> {"none", "clean", "unclean"}]
    BY <1>2 DEF IInv, TypeOK
  <2>. QED
    BY <1>3, <2>1, <2>2 DEF TypeOK
<1>8. StopsValid'
  <2>1. StopsValid
    BY DEF IInv, JournalsValid, ResumesValid, RetirementsValid, ExitsValid
  <2>2. Resolves' /\ \A r \in ready' : r[2] \in Bindings'
    BY <1>2, <1>6, <2>1 DEF ChainSame, StopsValid
  <2>3. ASSUME NEW d \in Container, status'[Stop(d)] # "none"
        PROVE  /\ bind'[d] \in Bindings' /\ d \in On(bind'[d]) /\ <<d[1], bind'[d]>> \in ready'
               /\ status'[Stop(d)] = "queued" => stage'[Stop(d)] = 0
               /\ status'[Stop(d)] = "succeeded" => Clean(d)'
               /\ status'[Stop(d)] = "failed" => Stopped(d)' /\ ~Clean(d)'
    <3>1. CASE d = c
      BY <1>1, <1>2, <1>3, <1>4, <1>6, <3>1 DEF ChainSame
    <3>2. CASE d # c
      <4>1. /\ status'[Stop(d)] = status[Stop(d)] /\ stage'[Stop(d)] = stage[Stop(d)]
            /\ bind'[d] = bind[d] /\ Bindings' = Bindings /\ code' = code /\ ready' = ready
        BY <1>2, <1>4, <1>6, <3>2 DEF ChainSame
      <4>2. /\ bind[d] \in Bindings /\ d \in On(bind[d]) /\ <<d[1], bind[d]>> \in ready
            /\ status[Stop(d)] = "queued" => stage[Stop(d)] = 0
            /\ status[Stop(d)] = "succeeded" => Clean(d)
            /\ status[Stop(d)] = "failed" => Stopped(d) /\ ~Clean(d)
        BY <2>1, <2>3, <4>1 DEF StopsValid, Exists
      <4>. QED
        BY <4>1, <4>2 DEF Clean, Stopped
    <3>. QED
      BY <3>1, <3>2
  <2>4. \A d \in Container : PendingStop(d)' => d = c
    <3>. SUFFICES ASSUME NEW d \in Container, d # c PROVE ~PendingStop(d)'
      OBVIOUS
    <3>1. status'[Stop(d)] = status[Stop(d)] /\ stage'[Stop(d)] = stage[Stop(d)]
          /\ status'[Resume(d)] = status[Resume(d)]
      BY <1>4
    <3>2. ~PendingStop(d)
      BY <1>2 DEF NoPendingStop
    <3>. QED
      BY <3>1, <3>2 DEF PendingStop, Live, Stopped, Replaced
  <2>. QED
    BY <2>2, <2>3, <2>4 DEF StopsValid, Exists, On
<1>9. ExitsValid'
  <2>1. \A d \in exits' : d \in Container /\ d # c /\ Observable(d)
    BY <1>2, <1>5, OnRecord DEF IInv, TypeOK
  <2>2. \A d \in exits' : Observable(d)'
    BY <1>4, <2>1 DEF Observable
  <2>. QED
    BY <1>8, <2>2 DEF ExitsValid
<1>10. RetirementsValid'
  BY <1>2, <1>4, <1>9, RetiresKept
<1>11. JournalsValid'
  <2>1. \A d \in Container : Retired(d) => Retired(d)'
    BY <1>4 DEF Retired
  <2>. QED
    BY <1>4, <1>10, <2>1, ResumesKept
<1>12. AloneInv'
  <2>1. \A k \in Job : Busy(k)' => k = Stop(c)
    BY <1>3 DEF Busy, Live, Unresolved
  <2>2. Stop(c)[2] = c
    BY <1>1, Jobs
  <2>3. OthersStopped(c)'
    <3>. SUFFICES ASSUME NEW d \in Container \ {c}, status'[Stop(d)] # "none"
                  PROVE  Stopped(d)' \/ Replaced(d)'
      BY DEF OthersStopped, Exists
    <3>1. /\ status'[Stop(d)] = status[Stop(d)] /\ stage'[Stop(d)] = stage[Stop(d)]
          /\ status'[Resume(d)] = status[Resume(d)]
      BY <1>4
    <3>2. status[Stop(d)] \in {"none", "queued", "running", "interrupted", "succeeded", "failed"}
      BY Jobs DEF IInv, TypeOK
    <3>3. ~PendingStop(d)
      BY <1>2 DEF NoPendingStop
    <3>4. status[Stop(d)] \in {"succeeded", "failed"} => Stopped(d)
      BY <3>1 DEF IInv, JournalsValid, ResumesValid, RetirementsValid, ExitsValid, StopsValid,
         Exists, Clean
    <3>5. Stopped(d) \/ Replaced(d)
      BY <3>1, <3>2, <3>3, <3>4 DEF PendingStop, Live
    <3>. QED
      BY <3>1, <3>5 DEF Stopped, Replaced
  <2>4. bind'[c] = Current'
    BY <1>4, <1>6 DEF ChainSame
  <2>. QED
    BY <2>1, <2>2, <2>3, <2>4 DEF AloneInv
<1>13. ProcInv'
  <2>1. \A k \in Job : Exists(k) => Exists(k)'
    BY <1>3 DEF Exists
  <2>2. \A d \in Container : Stopped(d)' => Stopped(d)
    BY <1>3, <1>4 DEF Stopped
  <2>3. \A d \in Container : Exists(Resume(d))' => Exists(Resume(d))
    BY <1>4 DEF Exists
  <2>4. proc' = proc /\ exits' = exits
    BY <1>2
  <2>. QED
    BY <1>4, <1>6, <2>1, <2>2, <2>3, <2>4, ProcKept
<1>14. ChainInv'
  BY <1>6 DEF ChainSame
<1>. QED
  BY <1>3, <1>7, <1>11, <1>12, <1>13, <1>14 DEF IInv

\* Accepting a removal or a resume.
LEMMA AcceptNextInv ==
    ASSUME IInv, NEW c \in Container, AcceptRetire(c) \/ AcceptResume(c)
    PROVE  IInv'
<1>1. PICK j \in {Retire(c), Resume(c)}, g \in {None, 0} :
          /\ Accept(j, g) /\ bind' = bind /\ bind[c] = Current /\ OthersStopped(c)
          /\ j = Retire(c) => CleanExit(c) /\ g = 0
          /\ j = Resume(c) => Retired(c) /\ c[2] < MaxGen /\ g = None
  BY Jobs DEF AcceptRetire, AcceptResume
<1>2. j \in Job /\ j[2] = c
  BY Jobs
<1>3. /\ UNCHANGED <<before, exits, ready, mode, obs, calls, proc, code, bind>>
      /\ RetirementClear({})
  BY <1>1 DEF Accept, engine
<1>4. /\ \A k \in Job : ~Busy(k) /\ ~Live(k)
      /\ status[j] = "none" /\ stage[j] = None
      /\ status' \in [Job -> {"none", "queued", "running", "interrupted", "succeeded", "failed"}]
      /\ stage' \in [Job -> None .. 5]
      /\ at' \in [Job -> {"none", "gate", "work", "wait"}]
      /\ WorkerInv' /\ ObsInv'
      /\ status'[j] = "queued" /\ stage'[j] = g
      /\ \A k \in Job \ {j} : status'[k] = status[k] /\ stage'[k] = stage[k]
  BY <1>1, <1>2, AcceptOwn
<1>5. \A d \in Container : /\ status'[Stop(d)] = status[Stop(d)]
                           /\ stage'[Stop(d)] = stage[Stop(d)]
                           /\ Retire(d) # j => /\ status'[Retire(d)] = status[Retire(d)]
                                               /\ stage'[Retire(d)] = stage[Retire(d)]
                           /\ Resume(d) # j => /\ status'[Resume(d)] = status[Resume(d)]
                                               /\ stage'[Resume(d)] = stage[Resume(d)]
  BY <1>2, <1>4, Jobs
<1>6. \A d \in Container : Replaced(d)' <=> Replaced(d)
  BY <1>4, <1>5, Jobs DEF Replaced
<1>7. ChainSame
  BY <1>3, <1>6, ChainKept
<1>8. TypeOK'
  <2>1. /\ bind' \in [Container -> Binding]
        /\ before' \in [Container -> SUBSET Member]
        /\ exits' \subseteq Container /\ ready' \subseteq Member \X Binding
        /\ mode' \in {"up", "down"}
        /\ obs' \in Observation /\ calls' \subseteq Job
        /\ proc' \in [Container -> {"absent", "created", "running", "exited", "removed"}]
        /\ code' \in [Container -> {"none", "clean", "unclean"}]
    BY <1>3 DEF IInv, TypeOK
  <2>. QED
    BY <1>4, <2>1 DEF TypeOK
<1>9. ExitsValid'
  <2>1. \A r \in ready' : r[2] \in Bindings
    BY <1>3 DEF IInv, JournalsValid, ResumesValid, RetirementsValid, ExitsValid, StopsValid
  <2>2. \A d \in exits' : d \in Container /\ Observable(d)
    BY <1>3, OnRecord DEF IInv, TypeOK
  <2>3. ready' = ready /\ bind' = bind /\ code' = code
    BY <1>3
  <2>. QED
    BY <1>5, <1>7, <2>1, <2>2, <2>3, StopsKept
<1>10. RetirementsValid'
  <2>1. CASE j = Resume(c)
    BY <1>3, <1>5, <1>9, <2>1, RetiresKept, Jobs
  <2>2. CASE j = Retire(c)
    <3>1. RetirementsValid
      BY DEF IInv, JournalsValid, ResumesValid
    <3>2. \A d \in Container : CleanExit(d)' <=> CleanExit(d)
      BY <1>3 DEF CleanExit
    <3>3. \A d \in Container \ {c} : Retire(d) # j
      BY <2>2, Jobs
    <3>4. \A d \in Container : Unresolved(Retire(d))' => d = c
      BY <1>3, <1>5, <3>3, Jobs DEF RetirementClear, Unresolved
    <3>5. ASSUME NEW d \in Container, Exists(Retire(d))'
          PROVE  /\ CleanExit(d)' /\ status'[Retire(d)] # "failed"
                 /\ status'[Retire(d)] = "queued" => stage'[Retire(d)] = 0
                 /\ status'[Retire(d)] = "succeeded" => stage'[Retire(d)] = 3
      <4>1. CASE d = c
        BY <1>1, <1>4, <2>2, <3>2, <4>1
      <4>2. CASE d # c
        BY <1>5, <3>1, <3>2, <3>3, <3>5, <4>2 DEF RetirementsValid, Exists
      <4>. QED
        BY <4>1, <4>2
    <3>. QED
      BY <1>9, <3>4, <3>5 DEF RetirementsValid
  <2>. QED
    BY <2>1, <2>2
<1>11. JournalsValid'
  <2>1. \A d \in Container : Retired(d) => Retired(d)'
    BY <1>4, <1>5 DEF Retired
  <2>2. CASE j = Retire(c)
    BY <1>5, <1>10, <2>1, <2>2, ResumesKept, Jobs
  <2>3. CASE j = Resume(c)
    <3>1. ResumesValid
      BY DEF IInv, JournalsValid
    <3>2. \A d \in Container \ {c} : Resume(d) # j
      BY <2>3, Jobs
    <3>3. \A d \in Container : Unresolved(Resume(d))' => d = c
      BY <1>3, <1>5, <3>2, Jobs DEF RetirementClear, Unresolved
    <3>4. ASSUME NEW d \in Container, Exists(Resume(d))'
          PROVE  /\ Retired(d)' /\ status'[Resume(d)] # "failed"
                 /\ status'[Resume(d)] = "queued" => stage'[Resume(d)] = None
                 /\ stage'[Resume(d)] = None => status'[Resume(d)] \in {"queued", "interrupted"}
                 /\ status'[Resume(d)] = "succeeded" => stage'[Resume(d)] = 5
      <4>1. CASE d = c
        BY <1>1, <1>4, <2>1, <2>3, <4>1, Jobs
      <4>2. CASE d # c
        BY <1>5, <2>1, <3>1, <3>2, <3>4, <4>2 DEF ResumesValid, Exists
      <4>. QED
        BY <4>1, <4>2
    <3>. QED
      BY <1>10, <3>3, <3>4 DEF ResumesValid, JournalsValid
  <2>. QED
    BY <2>2, <2>3
<1>12. AloneInv'
  <2>1. \A k \in Job : Busy(k)' => k = j
    BY <1>4 DEF Busy, Live, Unresolved
  <2>2. OthersStopped(c)'
    BY <1>1, <1>5, <1>6 DEF OthersStopped, Exists, Stopped
  <2>. QED
    BY <1>1, <1>2, <1>7, <2>1, <2>2 DEF AloneInv, ChainSame
<1>13. ProcInv'
  <2>1. \A k \in Job : Exists(k) => Exists(k)'
    BY <1>4 DEF Exists
  <2>2. \A d \in Container : Stopped(d)' => Stopped(d)
    BY <1>5 DEF Stopped
  <2>3. \A d \in Container : Exists(Resume(d))' => Exists(Resume(d)) \/ d[2] < MaxGen
    BY <1>1, <1>5, Jobs DEF Exists
  <2>4. proc' = proc /\ exits' = exits
    BY <1>3
  <2>5. \A d \in Container : /\ stage'[Retire(d)] = 3 => stage[Retire(d)] = 3
                             /\ stage'[Resume(d)] = 5 => stage[Resume(d)] = 5
    BY <1>4, <1>5 DEF None
  <2>. QED
    BY <1>7, <2>1, <2>2, <2>3, <2>4, <2>5, ProcKept
<1>14. ChainInv'
  BY <1>7 DEF ChainSame
<1>. QED
  BY <1>4, <1>8, <1>11, <1>12, <1>13, <1>14 DEF IInv

-----------------------------------------------------------------------------
(* A step of the live job, from its begin to its end, but the end of a resume *)

\* What the row of a job may become.
RowValid(j, s, g) ==
    /\ s \in {"running", "interrupted", "succeeded", "failed"}
    /\ g \in None .. Last[j[1]] /\ g >= stage[j]
    /\ j[1] = "stop" =>
        /\ s = "succeeded" => g = 3 /\ code[j[2]] = "clean"
        /\ s = "failed" => g = 3 /\ code[j[2]] # "clean"
        /\ g = 3 => stage[j] = 3 \/ proc[j[2]] \in {"exited", "removed"}
    /\ j[1] = "retire" =>
        /\ s # "failed" /\ (s = "succeeded" => g = 3)
        /\ g = 3 => stage[j] = 3 \/ proc[j[2]] = "removed"
    /\ j[1] = "resume" =>
        /\ s \in {"running", "interrupted"} /\ (g = None => s = "interrupted")
        /\ g = 5 => stage[j] = 5 \/ proc[<<j[2][1], j[2][2] + 1>>] \notin {"absent", "created"}

\* It leaves the journals valid and the chain as it was.
LEMMA RowStep ==
    ASSUME IInv, NEW j \in Job, Live(j), NEW s, NEW g, RowValid(j, s, g),
           status'[j] = s, stage'[j] = g,
           \A k \in Job \ {j} : status'[k] = status[k] /\ stage'[k] = stage[k],
           UNCHANGED <<bind, exits, ready, proc, code>>
    PROVE  /\ JournalsValid' /\ ChainInv' /\ AloneInv' /\ ProcInv'
           /\ \A d \in Container : /\ Observable(d) => Observable(d)'
                                   /\ Replaced(d) => Replaced(d)'
<1>1. PICK c \in Container : j[2] = c /\ j \in {Stop(c), Retire(c), Resume(c)}
  BY Jobs
<1>2. /\ j = Stop(c) => j[1] = "stop"
      /\ j = Retire(c) => j[1] = "retire"
      /\ j = Resume(c) => j[1] = "resume"
  BY Jobs
<1>3. \A d \in Container : /\ Stop(d) # j => /\ status'[Stop(d)] = status[Stop(d)]
                                             /\ stage'[Stop(d)] = stage[Stop(d)]
                           /\ Retire(d) # j => /\ status'[Retire(d)] = status[Retire(d)]
                                               /\ stage'[Retire(d)] = stage[Retire(d)]
                           /\ Resume(d) # j => /\ status'[Resume(d)] = status[Resume(d)]
                                               /\ stage'[Resume(d)] = stage[Resume(d)]
  BY Jobs
<1>4. \A d \in Container : Replaced(d)' <=> Replaced(d)
  <2>. SUFFICES ASSUME NEW d \in Container PROVE Replaced(d)' <=> Replaced(d)
    OBVIOUS
  <2>1. CASE Resume(d) = j
    <3>1. c = d /\ j[1] = "resume"
      BY <1>1, <2>1, Jobs
    <3>. QED
      BY <2>1, <3>1 DEF Replaced, RowValid, Live
  <2>2. CASE Resume(d) # j
    BY <1>3, <2>2 DEF Replaced
  <2>. QED
    BY <2>1, <2>2
<1>5. ChainSame
  BY <1>4, ChainKept
<1>6. \A d \in Container : /\ Stopped(d) => Stopped(d)'
                           /\ Observable(d) => Observable(d)'
                           /\ PendingStop(d)' => PendingStop(d)
                           /\ Clean(d) => Clean(d)'
  <2>. SUFFICES ASSUME NEW d \in Container
       PROVE  /\ Stopped(d) => Stopped(d)'
              /\ Observable(d) => Observable(d)'
              /\ PendingStop(d)' => PendingStop(d)
              /\ Clean(d) => Clean(d)'
    OBVIOUS
  <2>1. CASE Stop(d) = j
    <3>1. g \in None .. 3 /\ g >= stage[j] /\ status[j] \in {"queued", "running"}
      BY <2>1, Jobs, Stages DEF RowValid, Live
    <3>2. stage[j] = 3 => g = 3
      BY <3>1 DEF None
    <3>. QED
      BY <2>1, <3>1, <3>2 DEF Stopped, Observable, PendingStop, Live, Clean
  <2>2. CASE Stop(d) # j
    <3>1. status'[Stop(d)] = status[Stop(d)] /\ stage'[Stop(d)] = stage[Stop(d)]
      BY <1>3, <2>2
    <3>. QED
      BY <1>4, <3>1 DEF Stopped, Observable, PendingStop, Live, Clean
  <2>. QED
    BY <2>1, <2>2
<1>7. ExitsValid'
  <2>1. CASE j # Stop(c)
    <3>1. \A d \in Container : Stop(d) # j
      BY <1>1, <2>1, Jobs
    <3>2. \A r \in ready' : r[2] \in Bindings
      BY DEF IInv, JournalsValid, ResumesValid, RetirementsValid, ExitsValid, StopsValid
    <3>3. \A d \in exits' : d \in Container /\ Observable(d)
      BY OnRecord DEF IInv, TypeOK
    <3>. QED
      BY <1>3, <1>5, <3>1, <3>2, <3>3, StopsKept
  <2>2. CASE j = Stop(c)
    <3>1. StopsValid /\ ExitsValid
      BY DEF IInv, JournalsValid, ResumesValid, RetirementsValid, ExitsValid
    <3>2. Resolves' /\ \A r \in ready' : r[2] \in Bindings'
      BY <1>5, <3>1 DEF ChainSame, StopsValid
    <3>3. ASSUME NEW d \in Container, status'[Stop(d)] # "none"
          PROVE  /\ bind[d] \in Bindings /\ d \in On(bind[d]) /\ <<d[1], bind[d]>> \in ready
                 /\ status'[Stop(d)] = "queued" => stage'[Stop(d)] = 0
                 /\ status'[Stop(d)] = "succeeded" => Clean(d)'
                 /\ status'[Stop(d)] = "failed" => Stopped(d)' /\ ~Clean(d)'
      <4>1. CASE d = c
        <5>1. bind[d] \in Bindings /\ d \in On(bind[d]) /\ <<d[1], bind[d]>> \in ready
          BY <2>2, <3>1, <4>1 DEF StopsValid, Live, Exists
        <5>. QED
          BY <1>1, <1>2, <2>2, <4>1, <5>1 DEF RowValid, Clean, Stopped
      <4>2. CASE d # c
        <5>1. Stop(d) # j
          BY <2>2, <4>2, Jobs
        <5>2. status'[Stop(d)] = status[Stop(d)] /\ stage'[Stop(d)] = stage[Stop(d)] /\ code' = code
          BY <1>3, <5>1
        <5>3. /\ bind[d] \in Bindings /\ d \in On(bind[d]) /\ <<d[1], bind[d]>> \in ready
              /\ status[Stop(d)] = "queued" => stage[Stop(d)] = 0
              /\ status[Stop(d)] = "succeeded" => Clean(d)
              /\ status[Stop(d)] = "failed" => Stopped(d) /\ ~Clean(d)
          BY <3>1, <3>3, <5>2 DEF StopsValid, Exists
        <5>. QED
          BY <5>2, <5>3 DEF Clean, Stopped
      <4>. QED
        BY <4>1, <4>2
    <3>4. \A d, e \in Container : PendingStop(d)' /\ PendingStop(e)' => d = e
      BY <1>6, <3>1 DEF StopsValid
    <3>5. StopsValid'
      BY <1>5, <3>2, <3>3, <3>4 DEF StopsValid, Exists, On, ChainSame
    <3>6. \A d \in exits' : Observable(d)'
      BY <1>6, <3>1 DEF ExitsValid, IInv, TypeOK
    <3>. QED
      BY <3>5, <3>6 DEF ExitsValid
  <2>. QED
    BY <2>1, <2>2
<1>8. RetirementsValid'
  <2>1. CASE j # Retire(c)
    <3>1. \A d \in Container : Retire(d) # j
      BY <1>1, <2>1, Jobs
    <3>. QED
      BY <1>3, <1>7, <3>1, RetiresKept
  <2>2. CASE j = Retire(c)
    <3>1. RetirementsValid
      BY DEF IInv, JournalsValid, ResumesValid
    <3>2. \A d \in Container : CleanExit(d)' <=> CleanExit(d)
      BY DEF CleanExit
    <3>3. \A d \in Container \ {c} : Retire(d) # j
      BY <2>2, Jobs
    <3>4. \A d \in Container : Unresolved(Retire(d))' => Unresolved(Retire(d))
      BY <1>3, <2>2, <3>3 DEF Unresolved, Live
    <3>5. ASSUME NEW d \in Container, status'[Retire(d)] # "none"
          PROVE  /\ CleanExit(d)' /\ status'[Retire(d)] # "failed"
                 /\ status'[Retire(d)] = "queued" => stage'[Retire(d)] = 0
                 /\ status'[Retire(d)] = "succeeded" => stage'[Retire(d)] = 3
      <4>1. CASE d = c
        <5>1. CleanExit(d)'
          BY <2>2, <3>1, <3>2, <4>1 DEF RetirementsValid, Exists, Live
        <5>. QED
          BY <1>2, <2>2, <4>1, <5>1 DEF RowValid
      <4>2. CASE d # c
        BY <1>3, <3>1, <3>2, <3>3, <3>5, <4>2 DEF RetirementsValid, Exists
      <4>. QED
        BY <4>1, <4>2
    <3>. QED
      BY <1>7, <3>1, <3>4, <3>5 DEF RetirementsValid, Exists
  <2>. QED
    BY <2>1, <2>2
<1>9. JournalsValid'
  <2>1. \A d \in Container : Retired(d) => Retired(d)'
    <3>. SUFFICES ASSUME NEW d \in Container, Retired(d) PROVE Retired(d)'
      OBVIOUS
    <3>1. Retire(d) # j
      BY DEF Retired, Live
    <3>. QED
      BY <1>3, <3>1 DEF Retired
  <2>2. CASE j # Resume(c)
    <3>1. \A d \in Container : Resume(d) # j
      BY <1>1, <2>2, Jobs
    <3>. QED
      BY <1>3, <1>8, <2>1, <3>1, ResumesKept
  <2>3. CASE j = Resume(c)
    <3>1. ResumesValid
      BY DEF IInv, JournalsValid
    <3>2. \A d \in Container \ {c} : Resume(d) # j
      BY <2>3, Jobs
    <3>3. \A d \in Container : Unresolved(Resume(d))' => Unresolved(Resume(d))
      BY <1>3, <2>3, <3>2 DEF Unresolved, Live
    <3>4. ASSUME NEW d \in Container, status'[Resume(d)] # "none"
          PROVE  /\ Retired(d)' /\ status'[Resume(d)] # "failed"
                 /\ status'[Resume(d)] = "queued" => stage'[Resume(d)] = None
                 /\ stage'[Resume(d)] = None => status'[Resume(d)] \in {"queued", "interrupted"}
                 /\ status'[Resume(d)] = "succeeded" => stage'[Resume(d)] = 5
      <4>1. CASE d = c
        <5>1. Retired(d)'
          BY <2>1, <2>3, <3>1, <4>1 DEF ResumesValid, Exists, Live
        <5>. QED
          BY <1>2, <2>3, <4>1, <5>1 DEF RowValid
      <4>2. CASE d # c
        BY <1>3, <2>1, <3>1, <3>2, <3>4, <4>2 DEF ResumesValid, Exists
      <4>. QED
        BY <4>1, <4>2
    <3>. QED
      BY <1>8, <3>1, <3>3, <3>4 DEF ResumesValid, JournalsValid, Exists
  <2>. QED
    BY <2>2, <2>3
<1>10. \A k \in Job : /\ Exists(k)' <=> Exists(k)
                      /\ Busy(k)' => Busy(k)
  <2>. SUFFICES ASSUME NEW k \in Job PROVE (Exists(k)' <=> Exists(k)) /\ (Busy(k)' => Busy(k))
    OBVIOUS
  <2>1. CASE k = j
    BY <2>1 DEF RowValid, Live, Exists, Busy
  <2>2. CASE k # j
    BY <2>2 DEF Exists, Busy, Live, Unresolved
  <2>. QED
    BY <2>1, <2>2
<1>11. AloneInv'
  BY <1>5, <1>6, <1>10, Jobs, AloneKept
<1>12. ProcInv'
  <2>. SUFFICES ASSUME NEW d \in Container
       PROVE  /\ stage'[Retire(d)] = 3 => stage[Retire(d)] = 3 \/ proc[d] = "removed"
              /\ Stopped(d)' => Stopped(d) \/ proc[d] \in {"exited", "removed"}
              /\ stage'[Resume(d)] = 5 =>
                     stage[Resume(d)] = 5 \/ proc[<<d[1], d[2] + 1>>] \notin {"absent", "created"}
    BY <1>5, <1>10, Jobs, ProcKept
  <2>1. stage'[Retire(d)] = 3 => stage[Retire(d)] = 3 \/ proc[d] = "removed"
    <3>1. CASE Retire(d) = j
      BY <3>1, Jobs DEF RowValid
    <3>. QED
      BY <1>3, <3>1
  <2>2. Stopped(d)' => Stopped(d) \/ proc[d] \in {"exited", "removed"}
    <3>1. CASE Stop(d) = j
      BY <3>1, Jobs DEF RowValid, Stopped
    <3>. QED
      BY <1>3, <3>1 DEF Stopped
  <2>3. stage'[Resume(d)] = 5 =>
            stage[Resume(d)] = 5 \/ proc[<<d[1], d[2] + 1>>] \notin {"absent", "created"}
    <3>1. CASE Resume(d) = j
      BY <3>1, Jobs DEF RowValid
    <3>. QED
      BY <1>3, <3>1
  <2>. QED
    BY <2>1, <2>2, <2>3
<1>. QED
  BY <1>4, <1>5, <1>6, <1>9, <1>11, <1>12 DEF ChainSame

\* What is asked of the worker's own row.
RowPlaced(j, s, g, a) ==
    /\ a \in {"none", "gate", "work", "wait"}
    /\ a # "none" => mode = "up" /\ s \in {"queued", "running"}
    /\ a = "gate" => s = "queued"
    /\ a \in {"work", "wait"} => s = "running" /\ g >= 0
    /\ a = "wait" => g \in Calls[j[1]]
    /\ a = "work" => j \notin calls
    /\ s = "queued" => g <= 0
    /\ g <= Last[j[1]]
    /\ j \in calls => g \in Calls[j[1]] /\ s \in {"running", "interrupted"}

\* A valid row written by a worker keeps the invariant.
LEMMA WorkerStep ==
    ASSUME IInv, NEW j \in Job, Live(j), NEW s, NEW g, NEW a,
           Row(j, s, g, a), RowValid(j, s, g), RowPlaced(j, s, g, a),
           UNCHANGED <<bind, exits, ready, obs, proc, code>>,
           before' \in [Container -> SUBSET Member]
    PROVE  IInv'
<1>1. /\ s \in {"queued", "running", "interrupted", "succeeded", "failed"} /\ g \in None .. 5
      /\ a \in {"none", "gate", "work", "wait"}
  BY Stages DEF RowValid, RowPlaced, None
<1>2. /\ status' \in [Job -> {"none", "queued", "running", "interrupted", "succeeded", "failed"}]
      /\ stage' \in [Job -> None .. 5]
      /\ at' \in [Job -> {"none", "gate", "work", "wait"}]
      /\ WorkerInv'
      /\ status'[j] = s /\ stage'[j] = g
      /\ \A k \in Job \ {j} : status'[k] = status[k] /\ stage'[k] = stage[k]
  BY <1>1, RowOwn DEF RowPlaced
<1>3. /\ JournalsValid' /\ ChainInv' /\ AloneInv' /\ ProcInv'
      /\ \A d \in Container : /\ Observable(d) => Observable(d)'
                              /\ Replaced(d) => Replaced(d)'
  BY <1>2, RowStep
<1>4. TypeOK'
  <2>1. /\ bind' \in [Container -> Binding]
        /\ exits' \subseteq Container /\ ready' \subseteq Member \X Binding
        /\ mode' \in {"up", "down"}
        /\ obs' \in Observation /\ calls' \subseteq Job
        /\ proc' \in [Container -> {"absent", "created", "running", "exited", "removed"}]
        /\ code' \in [Container -> {"none", "clean", "unclean"}]
    BY DEF IInv, TypeOK, Row
  <2>. QED
    BY <1>2, <2>1 DEF TypeOK
<1>5. ObsInv'
  BY <1>3, ObsKept
<1>. QED
  BY <1>2, <1>3, <1>4, <1>5 DEF IInv

\* The worker takes the gate and begins.
LEMMA BeginInv ==
    ASSUME IInv, NEW c \in Container, BeginStop(c) \/ BeginRetire(c) \/ BeginResume(c)
    PROVE  IInv'
<1>1. PICK j \in {Stop(c), Retire(c), Resume(c)} : Begin(j, 0)
  BY DEF BeginStop, BeginRetire, BeginResume
<1>2. j \in Job /\ 0 <= Last[j[1]] /\ Last[j[1]] # 0
  BY <1>1, Jobs, Stages
<1>3. /\ at[j] = "gate" /\ status[j] = "queued" /\ Row(j, "running", 0, "work")
      /\ UNCHANGED <<bind, before, exits, ready, mode, obs, proc, code>>
  BY <1>1 DEF Begin, Row, engine
<1>4. mode = "up" /\ j \notin calls /\ stage[j] <= 0 /\ stage[j] \in None .. 5
  BY <1>2, <1>3 DEF IInv, WorkerInv, TypeOK
<1>5. RowValid(j, "running", 0) /\ RowPlaced(j, "running", 0, "work") /\ Live(j)
  BY <1>2, <1>3, <1>4, Stages DEF RowValid, RowPlaced, Live, None
<1>6. before' \in [Container -> SUBSET Member]
  BY <1>3 DEF IInv, TypeOK
<1>. QED
  BY <1>2, <1>3, <1>5, <1>6, WorkerStep

\* A journal's last stage stands for what was seen.
Shown(j) ==
    /\ j[1] = "stop" /\ stage[j] = 2 => proc[j[2]] \in {"exited", "removed"}
    /\ j[1] = "retire" /\ stage[j] = 2 => proc[j[2]] = "removed"
    /\ j[1] = "resume" /\ stage[j] = 4 =>
           proc[<<j[2][1], j[2][2] + 1>>] \notin {"absent", "created"}

\* A stage that is committed then keeps the invariant.
LEMMA AdvanceInv ==
    ASSUME IInv, NEW j \in Job, Advance(j), at' = [at EXCEPT ![j] = "work"],
           at[j] \in {"work", "wait"}, j \notin calls,
           before' \in [Container -> SUBSET Member], Shown(j)
    PROVE  IInv'
<1>1. /\ status[j] = "running" /\ stage[j] < Last[j[1]]
      /\ stage' = [stage EXCEPT ![j] = @ + 1]
      /\ UNCHANGED <<status, bind, exits, ready, mode, obs, calls, proc, code>>
  BY DEF Advance, engine
<1>2. /\ stage[j] \in 0 .. 5 /\ mode = "up" /\ Live(j)
  BY DEF IInv, WorkerInv, TypeOK, None
<1>3. Row(j, "running", stage[j] + 1, "work")
  BY <1>1 DEF IInv, TypeOK, Row
<1>4. RowValid(j, "running", stage[j] + 1)
  BY <1>1, <1>2, Stages DEF RowValid, Shown, None
<1>5. RowPlaced(j, "running", stage[j] + 1, "work")
  BY <1>1, <1>2, Stages DEF RowPlaced
<1>. QED
  BY <1>1, <1>2, <1>3, <1>4, <1>5, WorkerStep

\* Looking and committing.
LEMMA LookInv ==
    ASSUME IInv, NEW c \in Container, LookStop(c) \/ LookRetire(c) \/ LookResume(c)
    PROVE  IInv'
<1>1. c[1] \in Member /\ c[2] \in 1 .. MaxGen /\ c = <<c[1], c[2]>>
  BY Containers
<1>2. ASSUME NEW j \in Job, Look(j)
      PROVE  /\ Advance(j) /\ at' = [at EXCEPT ![j] = "work"] /\ at[j] = "work" /\ j \notin calls
             /\ stage[j] \notin Calls[j[1]] /\ status[j] = "running"
  BY <1>2 DEF Look, Advance, IInv, WorkerInv, TypeOK
<1>3. CASE LookStop(c)
  <2>1. Stop(c) \in Job /\ Stop(c)[1] = "stop" /\ Stop(c)[2] = c /\ Look(Stop(c)) /\ SeesStop(c)
    BY <1>3, Jobs DEF LookStop
  <2>2. before' \in [Container -> SUBSET Member]
    <3>1. \A S : {p \in Peers(c) : S} \subseteq Member
      BY DEF Peers
    <3>. QED
      BY <1>3, <3>1 DEF LookStop, IInv, TypeOK, Peers
  <2>3. Shown(Stop(c))
    <3>1. stage[Stop(c)] = 2 => proc[c] = "exited"
      BY <1>1, <2>1 DEF SeesStop, Sees
    <3>. QED
      BY <2>1, <3>1 DEF Shown
  <2>4. Advance(Stop(c)) /\ at' = [at EXCEPT ![Stop(c)] = "work"]
        /\ at[Stop(c)] = "work" /\ Stop(c) \notin calls
    BY <1>2, <2>1
  <2>. QED
    BY <2>1, <2>2, <2>3, <2>4, AdvanceInv
<1>4. CASE LookRetire(c)
  <2>1. /\ Retire(c) \in Job /\ Retire(c)[1] = "retire" /\ Retire(c)[2] = c
        /\ Look(Retire(c)) /\ SeesRetire(c) /\ before' = before
    BY <1>4, Jobs DEF LookRetire
  <2>2. stage[Retire(c)] = 2 => proc[c] = "removed"
    <3>1. Busy(Retire(c))
      BY <1>2, <2>1 DEF Busy, Live
    <3>2. c[2] = Current[c[1]] /\ Current[c[1]] \in Nat
      BY <2>1, <3>1, <1>1, BusyCurrent
    <3>3. proc[c] \notin {"absent", "created"}
      <4>1. c[2] <= Current[c[1]] => proc[c] \notin {"absent", "created"}
        BY DEF IInv, ProcInv
      <4>. QED
        BY <3>2, <4>1
    <3>4. Present(c[1]) = {} => proc[c] \in {"absent", "removed"}
      BY <1>1 DEF Present
    <3>. QED
      BY <2>1, <3>3, <3>4 DEF SeesRetire
  <2>3. before' \in [Container -> SUBSET Member] /\ Shown(Retire(c))
    BY <2>1, <2>2 DEF IInv, TypeOK, Shown
  <2>4. Advance(Retire(c)) /\ at' = [at EXCEPT ![Retire(c)] = "work"]
        /\ at[Retire(c)] = "work" /\ Retire(c) \notin calls
    BY <1>2, <2>1
  <2>. QED
    BY <2>1, <2>3, <2>4, AdvanceInv
<1>5. CASE LookResume(c)
  <2>1. /\ Resume(c) \in Job /\ Resume(c)[1] = "resume" /\ Resume(c)[2] = c
        /\ Look(Resume(c)) /\ SeesResume(c) /\ before' = before
    BY <1>5, Jobs DEF LookResume
  <2>2. stage[Resume(c)] = 4 => proc[<<c[1], c[2] + 1>>] = "running"
    BY <2>1 DEF SeesResume, Sees
  <2>3. before' \in [Container -> SUBSET Member] /\ Shown(Resume(c))
    BY <2>1, <2>2 DEF IInv, TypeOK, Shown
  <2>4. Advance(Resume(c)) /\ at' = [at EXCEPT ![Resume(c)] = "work"]
        /\ at[Resume(c)] = "work" /\ Resume(c) \notin calls
    BY <1>2, <2>1
  <2>. QED
    BY <2>1, <2>3, <2>4, AdvanceInv
<1>. QED
  BY <1>3, <1>4, <1>5

\* The reply to a call.
LEMMA ReplyInv == ASSUME IInv, NEW j \in Job, Reply(j) PROVE IInv'
<1>1. /\ at[j] = "wait" /\ j \notin calls /\ Advance(j)
      /\ at' = [at EXCEPT ![j] = "work"] /\ before' = before
  BY DEF Reply
<1>2. stage[j] \in {1, 3} /\ (j[1] # "resume" => stage[j] = 1)
  <2>1. stage[j] \in Calls[j[1]]
    BY <1>1 DEF IInv, WorkerInv
  <2>2. j[1] \in {"stop", "retire", "resume"}
    BY DEF Job
  <2>. QED
    BY <2>1, <2>2, Stages
<1>3. before' \in [Container -> SUBSET Member] /\ Shown(j)
  BY <1>1, <1>2 DEF IInv, TypeOK, Shown
<1>. QED
  BY <1>1, <1>3, AdvanceInv

\* What an interrupted job becomes.
LEMMA InterruptedRow ==
    ASSUME IInv, NEW j \in Job, Live(j)
    PROVE  /\ RowValid(j, Interrupted(j), stage[j])
           /\ RowPlaced(j, Interrupted(j), stage[j], "none")
<1>1. /\ stage[j] \in None .. 5 /\ stage[j] <= Last[j[1]]
      /\ j \in calls => stage[j] \in Calls[j[1]]
  BY DEF IInv, TypeOK, WorkerInv
<1>2. j[2] \in Container /\ code[j[2]] \in {"none", "clean", "unclean"}
  BY Jobs DEF IInv, TypeOK
<1>3. j[1] \in {"stop", "retire", "resume"}
  BY DEF Job
<1>4. CASE j[1] = "stop" /\ Stopped(j[2]) /\ ~Clean(j[2])
  <2>1. j = Stop(j[2]) /\ Last[j[1]] = 3 /\ Calls[j[1]] = {1}
    BY <1>4, Jobs, Stages
  <2>2. Interrupted(j) = "failed" /\ stage[j] = 3 /\ code[j[2]] # "clean"
    BY <1>4, <2>1 DEF Interrupted, Stopped, Clean
  <2>3. j \notin calls
    BY <1>1, <2>1, <2>2
  <2>. QED
    BY <1>2, <1>4, <2>1, <2>2, <2>3 DEF RowValid, RowPlaced, None
<1>5. CASE ~(j[1] = "stop" /\ Stopped(j[2]) /\ ~Clean(j[2]))
  <2>1. Interrupted(j) = "interrupted"
    BY <1>5 DEF Interrupted
  <2>2. /\ stage[j] >= stage[j]
        /\ j[1] = "resume" => Last[j[1]] = 5
        /\ j[1] # "resume" => Last[j[1]] = 3
    BY <1>1, <1>3, Stages DEF None
  <2>. QED
    BY <1>1, <2>1, <2>2 DEF RowValid, RowPlaced, None
<1>. QED
  BY <1>4, <1>5

\* A worker fails.
LEMMA InterruptInv == ASSUME IInv, NEW j \in Job, Interrupt(j) PROVE IInv'
<1>1. /\ Row(j, Interrupted(j), stage[j], "none")
      /\ UNCHANGED <<bind, before, exits, ready, obs, proc, code>>
  BY DEF Interrupt, Row, engine, IInv, TypeOK
<1>2. Live(j)
  BY DEF Interrupt, Taken, IInv, WorkerInv
<1>3. before' \in [Container -> SUBSET Member]
  BY <1>1 DEF IInv, TypeOK
<1>. QED
  BY <1>1, <1>2, <1>3, InterruptedRow, WorkerStep

\* A restart interrupts the live job, if there is one.
LEMMA RestartInv == ASSUME IInv, Restart PROVE IInv'
<1>1. /\ mode = "down" /\ mode' = "up" /\ status' = [k \in Job |-> Interrupted(k)]
      /\ UNCHANGED <<stage, bind, before, exits, ready, at, obs, calls, proc, code>>
  BY DEF Restart, engine
<1>2. \A k \in Job : /\ at[k] = "none"
                     /\ Live(k) => RowValid(k, Interrupted(k), stage[k])
                                /\ RowPlaced(k, Interrupted(k), stage[k], "none")
                     /\ ~Live(k) => status'[k] = status[k]
                     /\ status'[k] = Interrupted(k)
  BY <1>1, InterruptedRow DEF IInv, WorkerInv, Interrupted
<1>3. TypeOK'
  <2>1. \A k \in Job : Interrupted(k) \in {"none", "queued", "running", "interrupted", "succeeded", "failed"}
    BY DEF Interrupted, IInv, TypeOK
  <2>. QED
    BY <1>1, <2>1 DEF IInv, TypeOK
<1>4. WorkerInv'
  <2>. SUFFICES ASSUME NEW k \in Job
       PROVE  /\ status'[k] = "none" => stage[k] = None
              /\ at[k] = "none"
              /\ status'[k] # "queued"
              /\ stage[k] <= Last[k[1]]
              /\ k \in calls => stage[k] \in Calls[k[1]]
                                    /\ status'[k] \in {"running", "interrupted"}
    BY <1>1 DEF WorkerInv
  <2>1. CASE Live(k)
    BY <1>2, <2>1 DEF RowPlaced, RowValid
  <2>2. CASE ~Live(k)
    BY <1>2, <2>2 DEF IInv, WorkerInv, Live
  <2>. QED
    BY <2>1, <2>2
<1>5. CASE \E j \in Job : Live(j)
  <2>1. PICK j \in Job : Live(j)
    BY <1>5
  <2>2. \A k \in Job \ {j} : ~Live(k)
    BY <2>1, BusyCurrent DEF Busy
  <2>3. /\ status'[j] = Interrupted(j) /\ stage'[j] = stage[j]
        /\ \A k \in Job \ {j} : status'[k] = status[k] /\ stage'[k] = stage[k]
    BY <1>1, <1>2, <2>2
  <2>4. RowValid(j, Interrupted(j), stage[j])
    BY <1>2, <2>1
  <2>5. /\ JournalsValid' /\ ChainInv' /\ AloneInv' /\ ProcInv'
        /\ \A d \in Container : /\ Observable(d) => Observable(d)'
                                /\ Replaced(d) => Replaced(d)'
    BY <1>1, <2>1, <2>3, <2>4, RowStep
  <2>6. ObsInv'
    BY <1>1, <2>5, ObsKept
  <2>. QED
    BY <1>3, <1>4, <2>5, <2>6 DEF IInv
<1>6. CASE \A k \in Job : ~Live(k)
  <2>1. status' = status
    BY <1>1, <1>2, <1>6 DEF IInv, TypeOK
  <2>2. UNCHANGED <<status, stage, bind, before, exits, ready, at, obs, calls, proc, code>>
    BY <1>1, <2>1
  <2>3. /\ JournalsValid' /\ ChainInv' /\ AloneInv' /\ ProcInv'
        /\ \A d \in Container : /\ Observable(d) => Observable(d)'
                                /\ Replaced(d) => Replaced(d)'
    BY <2>2, DurableKept
  <2>4. ObsInv'
    BY <2>2, <2>3, ObsKept
  <2>. QED
    BY <1>3, <1>4, <2>3, <2>4 DEF IInv
<1>. QED
  BY <1>5, <1>6

-----------------------------------------------------------------------------
(* The end of a job *)

\* The end of a Stop or a removal.
LEMMA FinishInv ==
    ASSUME IInv, NEW j \in Job, Finish(j), j[1] # "resume"
    PROVE  IInv'
<1>1. /\ at[j] = "work" /\ status[j] = "running" /\ stage[j] = Last[j[1]]
      /\ j[1] = "stop" => Clean(j[2])
      /\ status' = [status EXCEPT ![j] = "succeeded"]
      /\ at' = [at EXCEPT ![j] = "none"]
      /\ UNCHANGED <<stage, bind, before, exits, ready, mode, obs, calls, proc, code>>
  BY DEF Finish, engine
<1>2. Row(j, "succeeded", stage[j], "none") /\ Live(j) /\ j \notin calls
  BY <1>1 DEF Row, Live, IInv, TypeOK, WorkerInv
<1>3. j[1] \in {"stop", "retire"} /\ Last[j[1]] = 3 /\ stage[j] = 3
  BY <1>1, Stages DEF Job
<1>4. RowValid(j, "succeeded", stage[j]) /\ RowPlaced(j, "succeeded", stage[j], "none")
  BY <1>1, <1>2, <1>3 DEF RowValid, RowPlaced, Clean, None
<1>5. before' \in [Container -> SUBSET Member]
  BY <1>1 DEF IInv, TypeOK
<1>. QED
  BY <1>1, <1>2, <1>4, <1>5, WorkerStep

\* The end of a resume adds the last link of the chain, and nobody is busy.
LEMMA ResumedInv ==
    ASSUME IInv, NEW c \in Container, Finish(Resume(c))
    PROVE  IInv'
<1>1. /\ at[Resume(c)] = "work" /\ status[Resume(c)] = "running" /\ stage[Resume(c)] = 5
      /\ status' = [status EXCEPT ![Resume(c)] = "succeeded"]
      /\ at' = [at EXCEPT ![Resume(c)] = "none"]
      /\ UNCHANGED <<stage, bind, before, exits, ready, mode, obs, calls, proc, code>>
  BY Jobs, Stages DEF Finish, engine
<1>2. Resume(c) \in Job /\ Resume(c)[1] = "resume" /\ Resume(c)[2] = c /\ Last["resume"] = 5
  BY Jobs, Stages
<1>3. /\ Live(Resume(c)) /\ Busy(Resume(c)) /\ Exists(Resume(c)) /\ ~Replaced(c)
      /\ Resume(c) \notin calls
  BY <1>1, <1>2 DEF Live, Busy, Exists, Replaced, IInv, WorkerInv
<1>4. /\ bind[c] = Current /\ c[2] = Current[c[1]] /\ \A k \in Job \ {Resume(c)} : ~Busy(k)
      /\ c[2] < MaxGen /\ Retired(c)
  BY <1>2, <1>3, BusyCurrent, OnRecord DEF IInv, ProcInv
<1>5. /\ c[1] \in Member /\ c[2] \in 1 .. MaxGen /\ c = <<c[1], c[2]>>
      /\ Current \in Binding /\ Current \in Bindings /\ Bindings \subseteq Binding
      /\ c \in On(Current)
  BY <1>4, Containers, CurrentTyped
<1>6. /\ status'[Resume(c)] = "succeeded"
      /\ \A k \in Job \ {Resume(c)} : status'[k] = status[k]
      /\ \A k \in Job : stage'[k] = stage[k]
  BY <1>1, <1>2 DEF IInv, TypeOK
<1>7. \A d \in Container : /\ status'[Stop(d)] = status[Stop(d)]
                           /\ status'[Retire(d)] = status[Retire(d)]
                           /\ d # c => status'[Resume(d)] = status[Resume(d)]
  BY <1>6, Jobs
<1>8. Done' = Done \cup {c} /\ c \notin Done
  BY <1>3, <1>6, <1>7 DEF Done, Replaced
<1>9. PICK n \in Binding : n = [Current EXCEPT ![c[1]] = c[2] + 1]
  <2>1. c[2] + 1 \in 1 .. MaxGen
    BY <1>4, <1>5, LifecycleAssumption
  <2>2. [Current EXCEPT ![c[1]] = c[2] + 1] \in Binding
    BY <1>5, <2>1 DEF Binding
  <2>. QED
    BY <2>2
<1>10. /\ \A d \in Done : After(d)' = After(d)
       /\ After(c)' = n
  BY <1>1, <1>4, <1>9 DEF After
<1>11. Bindings' = Bindings \cup {n}
  BY <1>8, <1>10 DEF Bindings
<1>12. /\ n[c[1]] = c[2] + 1
       /\ \A m \in Member \ {c[1]} : n[m] = Current[m]
       /\ \A m \in Member : Current[m] \in 1 .. MaxGen
  BY <1>5, <1>9 DEF Binding
<1>13. \A b \in Bindings : \A m \in Member : b[m] \in 1 .. MaxGen /\ b[m] <= Current[m]
  BY <1>5 DEF IInv, ChainInv, Binding
<1>14. n \notin Bindings
  BY <1>4, <1>5, <1>12, <1>13
<1>15. \A d \in Done : bind[d] \in Bindings /\ bind[d] # Current
  BY DEF IInv, ChainInv, JournalsValid, ResumesValid, RetirementsValid, ExitsValid,
     StopsValid, Resolves
<1>16. \A d \in Done' : bind'[d] \in Bindings /\ bind'[d] # n
  BY <1>1, <1>4, <1>5, <1>8, <1>14, <1>15
<1>17. \A b \in Bindings' \ {n} : \E d \in Done' : bind'[d] = b
  <2>1. \A b \in Bindings \ {Current} : \E d \in Done : bind[d] = b
    BY DEF IInv, ChainInv
  <2>. QED
    BY <1>1, <1>4, <1>8, <1>11, <2>1
<1>18. Current' = n
  <2>1. Current' = CHOOSE b \in Bindings' : \A d \in Done' : bind'[d] # b
    BY DEF Current
  <2>2. n \in Bindings' /\ \A d \in Done' : bind'[d] # n
    BY <1>11, <1>16
  <2>3. Current' \in Bindings' /\ \A d \in Done' : bind'[d] # Current'
    BY <2>1, <2>2
  <2>. QED
    BY <1>17, <2>3
<1>19. ChainInv'
  <2>1. \A b \in Bindings' : \A m \in Member : b[m] <= n[m]
    BY <1>4, <1>11, <1>12, <1>13
  <2>. QED
    BY <1>11, <1>16, <1>17, <1>18, <2>1 DEF ChainInv
<1>20. Resolves'
  <2>1. Resolves
    BY DEF IInv, JournalsValid, ResumesValid, RetirementsValid, ExitsValid, StopsValid
  <2>2. \A d \in Done' : d \in On(bind[d])
    BY <1>4, <1>5, <1>8, <2>1 DEF Resolves
  <2>3. \A d, e \in Done' : bind[d] = bind[e] => d = e
    BY <1>4, <1>8, <1>15, <2>1 DEF Resolves
  <2>. QED
    BY <1>1, <1>11, <1>16, <2>2, <2>3 DEF Resolves, On
<1>21. /\ \A d \in Container : /\ Replaced(d) => Replaced(d)'
                               /\ Replaced(d)' => Replaced(d) \/ d = c
                               /\ Stopped(d)' <=> Stopped(d)
                               /\ Observable(d)' <=> Observable(d)
                               /\ Clean(d)' <=> Clean(d)
                               /\ CleanExit(d)' <=> CleanExit(d)
                               /\ Retired(d)' <=> Retired(d)
       /\ Replaced(c)'
  BY <1>1, <1>6, <1>7 DEF Replaced, Stopped, Observable, Clean, CleanExit, Retired
<1>22. ExitsValid'
  <2>1. StopsValid /\ ExitsValid
    BY DEF IInv, JournalsValid, ResumesValid, RetirementsValid, ExitsValid
  <2>2. \A r \in ready' : r[2] \in Bindings'
    BY <1>1, <1>11, <2>1 DEF StopsValid
  <2>3. ASSUME NEW d \in Container, status'[Stop(d)] # "none"
        PROVE  /\ bind[d] \in Bindings' /\ d \in On(bind[d]) /\ <<d[1], bind[d]>> \in ready
               /\ status'[Stop(d)] = "queued" => stage'[Stop(d)] = 0
               /\ status'[Stop(d)] = "succeeded" => Clean(d)'
               /\ status'[Stop(d)] = "failed" => Stopped(d)' /\ ~Clean(d)'
    BY <1>1, <1>7, <1>11, <1>21, <2>1, <2>3 DEF StopsValid, Exists
  <2>4. \A d \in Container : PendingStop(d)' => PendingStop(d)
    BY <1>7, <1>21 DEF PendingStop, Live
  <2>5. \A d, e \in Container : PendingStop(d)' /\ PendingStop(e)' => d = e
    BY <2>1, <2>4 DEF StopsValid
  <2>6. StopsValid'
    BY <1>1, <1>20, <2>2, <2>3, <2>5 DEF StopsValid, Exists, On
  <2>. QED
    BY <1>1, <1>21, <2>1, <2>6 DEF ExitsValid, IInv, TypeOK
<1>23. RetirementsValid'
  BY <1>1, <1>7, <1>22, RetiresKept
<1>24. JournalsValid'
  <2>1. ResumesValid
    BY DEF IInv, JournalsValid
  <2>2. ASSUME NEW d \in Container, status'[Resume(d)] # "none"
        PROVE  /\ Retired(d)' /\ status'[Resume(d)] # "failed"
               /\ status'[Resume(d)] = "queued" => stage'[Resume(d)] = None
               /\ stage'[Resume(d)] = None => status'[Resume(d)] \in {"queued", "interrupted"}
               /\ status'[Resume(d)] = "succeeded" => stage'[Resume(d)] = 5
    <3>1. CASE d = c
      BY <1>1, <1>4, <1>6, <1>21, <3>1 DEF None
    <3>2. CASE d # c
      BY <1>1, <1>7, <1>21, <2>1, <2>2, <3>2 DEF ResumesValid, Exists
    <3>. QED
      BY <3>1, <3>2
  <2>3. \A d \in Container : ~Unresolved(Resume(d))'
    <3>. SUFFICES ASSUME NEW d \in Container PROVE ~Unresolved(Resume(d))'
      OBVIOUS
    <3>1. CASE d = c
      BY <1>6, <3>1 DEF Unresolved
    <3>2. CASE d # c
      <4>1. Resume(d) \in Job \ {Resume(c)} /\ Resume(d)[1] = "resume"
        BY <3>2, Jobs
      <4>2. ~Unresolved(Resume(d))
        BY <1>4, <4>1 DEF Busy
      <4>. QED
        BY <1>7, <3>2, <4>2 DEF Unresolved
    <3>. QED
      BY <3>1, <3>2
  <2>. QED
    BY <1>23, <2>2, <2>3 DEF ResumesValid, JournalsValid, Exists
<1>25. AloneInv'
  <2>. SUFFICES ASSUME NEW k \in Job PROVE ~Busy(k)'
    BY DEF AloneInv
  <2>1. CASE k = Resume(c)
    BY <1>6, <2>1 DEF Busy, Live, Unresolved
  <2>2. CASE k # Resume(c)
    BY <1>4, <1>6, <2>2 DEF Busy, Live, Unresolved
  <2>. QED
    BY <2>1, <2>2
<1>26. ProcInv'
  <2>. SUFFICES ASSUME NEW d \in Container
       PROVE  /\ d[2] < n[d[1]] => Replaced(d)'
              /\ d[2] <= n[d[1]] => proc[d] \notin {"absent", "created"}
              /\ d[2] > n[d[1]] /\ proc[d] # "absent" =>
                     /\ d[2] = n[d[1]] + 1
                     /\ Exists(Resume(<<d[1], n[d[1]]>>))'
              /\ proc[d] = "removed" => Exists(Retire(d))'
              /\ stage'[Retire(d)] = 3 => proc[d] = "removed"
              /\ d \in exits' \/ Stopped(d)' => proc[d] \in {"exited", "removed"}
              /\ Exists(Resume(d))' => d[2] < MaxGen
              /\ stage'[Resume(d)] = 5 => proc[<<d[1], d[2] + 1>>] \notin {"absent", "created"}
    BY <1>1, <1>18 DEF ProcInv
  <2>1. d[1] \in Member /\ d[2] \in 1 .. MaxGen /\ d = <<d[1], d[2]>>
    BY Containers
  <2>2. /\ d[2] < Current[d[1]] => Replaced(d)
        /\ d[2] <= Current[d[1]] => proc[d] \notin {"absent", "created"}
        /\ d[2] > Current[d[1]] /\ proc[d] # "absent" =>
               /\ d[2] = Current[d[1]] + 1
               /\ Exists(Resume(<<d[1], Current[d[1]]>>))
    BY DEF IInv, ProcInv
  <2>3. /\ proc[d] = "removed" => Exists(Retire(d))
        /\ stage[Retire(d)] = 3 => proc[d] = "removed"
        /\ d \in exits \/ Stopped(d) => proc[d] \in {"exited", "removed"}
        /\ Exists(Resume(d)) => d[2] < MaxGen
        /\ stage[Resume(d)] = 5 => proc[<<d[1], d[2] + 1>>] \notin {"absent", "created"}
    BY DEF IInv, ProcInv
  <2>4. \A k \in Job : Exists(k)' <=> Exists(k)
    BY <1>3, <1>6 DEF Exists
  <2>5. /\ d[2] < n[d[1]] => Replaced(d)'
        /\ d[2] <= n[d[1]] => proc[d] \notin {"absent", "created"}
    <3>1. CASE d[1] = c[1]
      <4>1. n[d[1]] = c[2] + 1 /\ Current[d[1]] = c[2]
        BY <1>4, <1>12, <3>1
      <4>2. d[2] = c[2] + 1 => proc[d] \notin {"absent", "created"}
        <5>1. stage[Resume(c)] = 5 => proc[<<c[1], c[2] + 1>>] \notin {"absent", "created"}
          BY DEF IInv, ProcInv
        <5>. QED
          BY <1>1, <2>1, <3>1, <5>1
      <4>3. d[2] = c[2] => Replaced(d)'
        BY <1>5, <1>21, <2>1, <3>1
      <4>. QED
        BY <1>5, <1>21, <2>1, <2>2, <4>1, <4>2, <4>3
    <3>2. CASE d[1] # c[1]
      BY <1>12, <1>21, <2>1, <2>2, <3>2
    <3>. QED
      BY <3>1, <3>2
  <2>6. d[2] > n[d[1]] /\ proc[d] # "absent" =>
                     /\ d[2] = n[d[1]] + 1
                     /\ Exists(Resume(<<d[1], n[d[1]]>>))'
    <3>1. CASE d[1] = c[1]
      BY <1>4, <1>5, <1>12, <2>1, <2>2, <3>1
    <3>2. CASE d[1] # c[1]
      <4>1. n[d[1]] = Current[d[1]]
        BY <1>12, <2>1, <3>2
      <4>2. Resume(<<d[1], n[d[1]]>>) \in Job
        BY <1>12, <2>1, <4>1, Containers, Jobs
      <4>3. Exists(Resume(<<d[1], n[d[1]]>>)) => Exists(Resume(<<d[1], n[d[1]]>>))'
        BY <1>6, <2>4, <4>2 DEF Exists
      <4>. QED
        BY <2>2, <4>1, <4>3
    <3>. QED
      BY <3>1, <3>2
  <2>7. /\ proc[d] = "removed" => Exists(Retire(d))'
        /\ stage'[Retire(d)] = 3 => proc[d] = "removed"
        /\ d \in exits' \/ Stopped(d)' => proc[d] \in {"exited", "removed"}
        /\ Exists(Resume(d))' => d[2] < MaxGen
        /\ stage'[Resume(d)] = 5 => proc[<<d[1], d[2] + 1>>] \notin {"absent", "created"}
    BY <1>1, <1>21, <2>3, <2>4, Jobs
  <2>. QED
    BY <2>5, <2>6, <2>7
<1>27. TypeOK' /\ WorkerInv'
  <2>1. 5 \in None .. 5 /\ "resume" # "stop"
    BY DEF None
  <2>2. Row(Resume(c), "succeeded", 5, "none")
    BY <1>1 DEF Row, IInv, TypeOK
  <2>3. /\ status' \in [Job -> {"none", "queued", "running", "interrupted", "succeeded", "failed"}]
        /\ stage' \in [Job -> None .. 5]
        /\ at' \in [Job -> {"none", "gate", "work", "wait"}]
        /\ WorkerInv'
    BY <1>2, <1>3, <2>1, <2>2, RowOwn
  <2>4. /\ bind' \in [Container -> Binding] /\ before' \in [Container -> SUBSET Member]
        /\ exits' \subseteq Container /\ ready' \subseteq Member \X Binding
        /\ mode' \in {"up", "down"}
        /\ obs' \in Observation /\ calls' \subseteq Job
        /\ proc' \in [Container -> {"absent", "created", "running", "exited", "removed"}]
        /\ code' \in [Container -> {"none", "clean", "unclean"}]
    BY <1>1 DEF IInv, TypeOK
  <2>. QED
    BY <2>3, <2>4 DEF TypeOK
<1>28. ObsInv'
  BY <1>1, <1>21, ObsKept
<1>. QED
  BY <1>19, <1>24, <1>25, <1>26, <1>27, <1>28 DEF IInv

-----------------------------------------------------------------------------
(* Steps that write no row *)

\* Asking the engine.
LEMMA IssueInv == ASSUME IInv, NEW j \in Job, Issue(j) PROVE IInv'
<1>1. /\ at[j] = "work" /\ stage[j] \in Calls[j[1]] /\ calls' = calls \cup {j}
      /\ at' = [at EXCEPT ![j] = "wait"]
      /\ UNCHANGED <<status, stage, bind, before, exits, ready, mode, obs, proc, code>>
  BY DEF Issue, durable
<1>2. status[j] = "running" /\ mode = "up"
  BY <1>1 DEF IInv, WorkerInv
<1>3. TypeOK'
  BY <1>1 DEF IInv, TypeOK
<1>4. WorkerInv'
  <2>. SUFFICES ASSUME NEW k \in Job
       PROVE  /\ status[k] = "none" => stage[k] = None
              /\ at'[k] # "none" => mode = "up" /\ status[k] \in {"queued", "running"}
              /\ at'[k] = "gate" => status[k] = "queued"
              /\ at'[k] \in {"work", "wait"} => status[k] = "running" /\ stage[k] >= 0
              /\ at'[k] = "wait" => stage[k] \in Calls[k[1]]
              /\ at'[k] = "work" => k \notin calls'
              /\ status[k] = "queued" => stage[k] <= 0 /\ at'[k] \notin {"work", "wait"}
              /\ stage[k] <= Last[k[1]]
              /\ k \in calls' => stage[k] \in Calls[k[1]]
                                     /\ status[k] \in {"running", "interrupted"}
    BY <1>1 DEF WorkerInv, Live
  <2>1. /\ status[k] = "none" => stage[k] = None
        /\ at[k] # "none" => mode = "up" /\ status[k] \in {"queued", "running"}
        /\ at[k] = "gate" => status[k] = "queued"
        /\ at[k] \in {"work", "wait"} => status[k] = "running" /\ stage[k] >= 0
        /\ at[k] = "wait" => stage[k] \in Calls[k[1]]
        /\ at[k] = "work" => k \notin calls
        /\ status[k] = "queued" => stage[k] <= 0 /\ at[k] \notin {"work", "wait"}
        /\ stage[k] <= Last[k[1]]
        /\ k \in calls => stage[k] \in Calls[k[1]]
                              /\ status[k] \in {"running", "interrupted"}
    BY DEF IInv, WorkerInv, Live
  <2>2. at'[k] = IF k = j THEN "wait" ELSE at[k]
    BY <1>1 DEF IInv, TypeOK
  <2>3. CASE k = j
    BY <1>1, <1>2, <2>1, <2>2, <2>3
  <2>4. CASE k # j
    BY <1>1, <2>1, <2>2, <2>4
  <2>. QED
    BY <2>3, <2>4
<1>5. /\ JournalsValid' /\ ChainInv' /\ AloneInv' /\ ProcInv'
      /\ \A d \in Container : /\ Observable(d) => Observable(d)'
                              /\ Replaced(d) => Replaced(d)'
  BY <1>1, DurableKept
<1>6. ObsInv'
  BY <1>1, <1>5, ObsKept
<1>. QED
  BY <1>3, <1>4, <1>5, <1>6 DEF IInv

\* Asking for an observation, giving one up, and the death of the service.
LEMMA QuietInv ==
    ASSUME IInv, UNCHANGED <<durable, engine>>,
           \/ mode' = mode /\ at' = at
           \/ mode' = "down" /\ at' = [j \in Job |-> "none"],
           obs' \in Observation,
           obs'.kind = "exit" => obs'.of \in Container /\ Observable(obs'.of),
           obs'.kind = "resumed" => obs'.of \in Container /\ Replaced(obs'.of)
    PROVE  IInv'
<1>1. UNCHANGED <<status, stage, bind, before, exits, ready, calls, proc, code>>
  BY DEF durable, engine
<1>2. TypeOK'
  BY <1>1 DEF IInv, TypeOK
<1>3. WorkerInv'
  <2>1. CASE mode' = mode /\ at' = at
    BY <1>1, <2>1 DEF IInv, WorkerInv, Live
  <2>2. CASE mode' = "down" /\ at' = [j \in Job |-> "none"]
    BY <1>1, <2>2 DEF IInv, WorkerInv, Live
  <2>. QED
    BY <2>1, <2>2
<1>4. /\ JournalsValid' /\ ChainInv' /\ AloneInv' /\ ProcInv'
      /\ \A d \in Container : /\ Observable(d) => Observable(d)'
                              /\ Replaced(d) => Replaced(d)'
  BY <1>1, DurableKept
<1>5. ObsInv'
  BY <1>1 DEF ObsInv, Observable, Replaced
<1>. QED
  BY <1>2, <1>3, <1>4, <1>5 DEF IInv

\* An observation is asked for.
LEMMA AskInv ==
    ASSUME IInv, NEW c \in Container,
           \/ Ask("initial", c) \/ AskResumed(c) \/ Ask("current", c) \/ AskExit(c)
    PROVE  IInv'
<1>1. PICK kind \in {"initial", "resumed", "current", "exit"} :
          /\ Ask(kind, c)
          /\ kind = "exit" => Observable(c)
          /\ kind = "resumed" => Replaced(c)
  BY DEF AskResumed, AskExit
<1>2. /\ obs' = [kind |-> kind, of |-> c] /\ mode' = mode /\ at' = at
      /\ UNCHANGED <<durable, engine>>
  BY <1>1 DEF Ask
<1>3. obs' \in Observation /\ obs'.kind = kind /\ obs'.of = c
  BY <1>2 DEF Observation
<1>. QED
  BY <1>1, <1>2, <1>3, QuietInv

\* An observation is given up, or the service dies.
LEMMA IdleInv == ASSUME IInv, GiveUp \/ Crash PROVE IInv'
<1>1. obs' = Idle /\ UNCHANGED <<durable, engine>>
      /\ \/ mode' = mode /\ at' = at
         \/ mode' = "down" /\ at' = [j \in Job |-> "none"]
  BY DEF GiveUp, Crash
<1>2. obs' \in Observation /\ obs'.kind = "none"
  BY <1>1 DEF Observation, Idle
<1>. QED
  BY <1>1, <1>2, QuietInv

\* An observation is completed.
LEMMA CompleteInv == ASSUME IInv, Complete PROVE IInv'
<1>1. /\ obs # Idle /\ obs' = Idle
      /\ UNCHANGED <<status, stage, bind, before, mode, at, calls, proc, code>>
  BY DEF Complete, engine
<1>2. PICK c \in Container : c = obs.of
  BY <1>1 DEF IInv, TypeOK, Observation
<1>3. \/ obs.kind = "initial" /\ ready' = ready \cup {<<c[1], Initial>>} /\ exits' = exits
      \/ obs.kind = "resumed" /\ ready' = ready \cup {<<c[1], After(c)>>} /\ exits' = exits
      \/ obs.kind = "current" /\ ready' = ready \cup {<<c[1], Current>>} /\ exits' = exits
      \/ /\ obs.kind = "exit" /\ ready' = ready /\ exits' = exits \cup {c}
         /\ Sees(c[1], c[2], "exited")
  BY <1>2 DEF Complete
<1>4. c[1] \in Member /\ c[2] \in 1 .. MaxGen /\ c = <<c[1], c[2]>>
  BY Containers
<1>5. obs.kind = "resumed" => After(c) \in Bindings
  BY <1>2 DEF IInv, ObsInv, Bindings, Done
<1>6. Initial \in Bindings /\ Current \in Bindings /\ Bindings \subseteq Binding
  BY CurrentTyped DEF Bindings
<1>7. /\ ready \subseteq ready' /\ ready' \subseteq Member \X Binding
      /\ \A r \in ready' : r[2] \in Bindings
  <2>1. ready \subseteq Member \X Binding /\ \A r \in ready : r[2] \in Bindings
    BY DEF IInv, TypeOK, JournalsValid, ResumesValid, RetirementsValid, ExitsValid, StopsValid
  <2>2. ready' = ready \/ \E b \in Bindings : ready' = ready \cup {<<c[1], b>>}
    BY <1>3, <1>5, <1>6
  <2>. QED
    BY <1>4, <1>6, <2>1, <2>2
<1>8. /\ exits \subseteq exits'
      /\ \A d \in exits' : /\ d \in Container /\ Observable(d)
                           /\ d \in exits \/ proc[d] \in {"exited", "removed"}
  <2>1. \A d \in exits : d \in Container /\ Observable(d)
    BY OnRecord DEF IInv, TypeOK
  <2>2. obs.kind = "exit" => Observable(c)
    BY <1>2 DEF IInv, ObsInv
  <2>3. Sees(c[1], c[2], "exited") => proc[c] = "exited"
    BY <1>4 DEF Sees
  <2>. QED
    BY <1>3, <2>1, <2>2, <2>3
<1>9. \A d \in Container : /\ Replaced(d)' <=> Replaced(d)
                           /\ Stopped(d)' <=> Stopped(d)
                           /\ Retired(d)' <=> Retired(d)
  BY <1>1 DEF Replaced, Stopped, Retired
<1>10. ChainSame
  BY <1>1, <1>9, ChainKept
<1>11. ExitsValid'
  BY <1>1, <1>7, <1>8, <1>10, StopsKept
<1>12. RetirementsValid'
  BY <1>1, <1>8, <1>11, RetiresKept
<1>13. JournalsValid'
  BY <1>1, <1>9, <1>12, ResumesKept
<1>14. \A k \in Job : /\ Exists(k)' <=> Exists(k)
                      /\ Busy(k)' => Busy(k)
  BY <1>1 DEF Exists, Busy, Live, Unresolved
<1>15. AloneInv'
  BY <1>1, <1>9, <1>10, <1>14, Jobs, AloneKept
<1>16. ProcInv'
  BY <1>1, <1>8, <1>9, <1>10, <1>14, Jobs, ProcKept
<1>17. TypeOK'
  <2>1. exits' \subseteq Container /\ obs' \in Observation
    BY <1>1, <1>8 DEF Observation
  <2>. QED
    BY <1>1, <1>7, <2>1 DEF IInv, TypeOK
<1>18. WorkerInv'
  BY <1>1 DEF IInv, WorkerInv, Live
<1>19. ObsInv' /\ ChainInv'
  BY <1>1, <1>10 DEF ObsInv, Idle, ChainSame
<1>. QED
  BY <1>13, <1>15, <1>16, <1>17, <1>18, <1>19 DEF IInv

-----------------------------------------------------------------------------
(* The engine and the processes *)

\* Nothing is on record of the container a resume brings.
LEMMA NextUnknown ==
    ASSUME IInv, NEW c \in Container, Busy(Resume(c))
    PROVE  /\ <<c[1], c[2] + 1>> \in Container /\ c[2] = Current[c[1]]
           /\ c[1] \in Member /\ c[2] \in 1 .. MaxGen /\ c = <<c[1], c[2]>>
           /\ LET n == <<c[1], c[2] + 1>> IN
              /\ ~Exists(Stop(n)) /\ ~Exists(Retire(n)) /\ ~Exists(Resume(n))
              /\ n \notin exits /\ ~Stopped(n) /\ stage[Retire(n)] # 3
              /\ n[1] = c[1] /\ n[2] = c[2] + 1
<1>1. c[1] \in Member /\ c[2] \in 1 .. MaxGen /\ c = <<c[1], c[2]>>
  BY Containers
<1>2. Resume(c) \in Job /\ Resume(c)[2] = c /\ Exists(Resume(c))
  BY Jobs DEF Busy, Live, Unresolved, Exists
<1>3. c[2] = Current[c[1]] /\ c[2] < MaxGen
  BY <1>2, BusyCurrent DEF IInv, ProcInv
<1>4. PICK n \in Container : n = <<c[1], c[2] + 1>> /\ n[1] = c[1] /\ n[2] = c[2] + 1
  <2>1. c[2] + 1 \in 1 .. MaxGen
    BY <1>1, <1>3, LifecycleAssumption
  <2>. QED
    BY <1>1, <2>1, Containers
<1>5. ~(n[2] <= Current[n[1]])
  BY <1>1, <1>3, <1>4
<1>6. ~Exists(Stop(n))
  BY <1>5, NotYet
<1>7. /\ ~Exists(Retire(n)) /\ ~Exists(Resume(n)) /\ n \notin exits /\ ~Stopped(n)
  BY <1>6, NotYet
<1>8. stage[Retire(n)] # 3
  BY <1>7, OnRecord DEF None
<1>. QED
  BY <1>1, <1>3, <1>4, <1>6, <1>7, <1>8

\* A call is carried out.
LEMMA LandInv == ASSUME IInv, NEW j \in Job, Land(j) PROVE IInv'
<1>1. /\ j \in calls /\ calls' = calls \ {j}
      /\ UNCHANGED <<status, stage, bind, before, exits, ready, mode, at, obs, code>>
  BY DEF Land, durable
<1>2. stage[j] \in Calls[j[1]] /\ Exists(j) /\ (j[1] # "stop" => Busy(j))
  BY <1>1, CallBusy
<1>3. /\ JournalsValid' /\ ChainInv' /\ AloneInv' /\ ChainSame
      /\ \A d \in Container : /\ Observable(d) => Observable(d)'
                              /\ Replaced(d) => Replaced(d)'
  BY <1>1, RowsKept
<1>4. PICK c \in Container : c = j[2] /\ j \in {Stop(c), Retire(c), Resume(c)}
  BY Jobs
<1>5. c[1] \in Member /\ c[2] \in 1 .. MaxGen /\ c = <<c[1], c[2]>>
  BY Containers
<1>6. /\ j[1] = "stop" => proc' = proc
      /\ j[1] = "retire" => proc' = [proc EXCEPT ![j[2]] = "removed"]
      /\ j[1] = "resume" /\ stage[j] = 1 =>
             proc' = [proc EXCEPT ![<<j[2][1], j[2][2] + 1>>] = "created"]
      /\ j[1] = "resume" /\ stage[j] # 1 =>
             proc' = [proc EXCEPT ![<<j[2][1], j[2][2] + 1>>] = "running"]
  BY DEF Land, Job
<1>7. ProcInv' /\ proc' \in [Container -> {"absent", "created", "running", "exited", "removed"}]
  <2>1. CASE j = Stop(c)
    <3>1. proc' = proc
      BY <1>6, <2>1, Jobs
    <3>2. /\ \A k \in Job : Exists(k) => Exists(k)'
          /\ \A d \in Container : Stopped(d)' => Stopped(d)
      BY <1>1 DEF Exists, Stopped
    <3>. QED
      BY <1>1, <1>3, <3>1, <3>2, Jobs, ProcKept DEF Exists, IInv, TypeOK
  <2>2. CASE j = Retire(c)
    <3>1. proc' = [proc EXCEPT ![c] = "removed"]
      BY <1>4, <1>6, <2>2, Jobs
    <3>2. Exists(Retire(c)) /\ c[2] = Current[c[1]]
      BY <1>2, <1>4, <2>2, Jobs, BusyCurrent
    <3>3. Allowed(c, "removed")
      BY <1>5, <3>2 DEF Allowed
    <3>4. ProcInv'
      BY <1>1, <1>3, <3>1, <3>3, ProcMoves
    <3>. QED
      BY <3>1, <3>4 DEF IInv, TypeOK
  <2>3. CASE j = Resume(c)
    <3>1. PICK n \in Container : /\ n = <<c[1], c[2] + 1>> /\ n[1] = c[1] /\ n[2] = c[2] + 1
                                 /\ ~Exists(Retire(n)) /\ n \notin exits /\ ~Stopped(n)
                                 /\ stage[Retire(n)] # 3
      BY <1>2, <2>3, Jobs, NextUnknown
    <3>2. PICK v \in {"created", "running"} :
              proc' = [proc EXCEPT ![n] = v] /\ (v = "created" => stage[Resume(c)] = 1)
      BY <1>4, <1>6, <2>3, <3>1, Jobs
    <3>3. /\ c[2] = Current[c[1]] /\ Exists(Resume(c))
      BY <1>2, <1>4, <2>3, Jobs, BusyCurrent
    <3>4. /\ ~(n[2] <= Current[n[1]]) /\ n[2] = Current[n[1]] + 1
          /\ Exists(Resume(<<n[1], Current[n[1]]>>))
      BY <1>5, <3>1, <3>3
    <3>5. \A d \in Container : n = <<d[1], d[2] + 1>> => d = c
      BY <1>5, <3>1, Containers
    <3>6. Allowed(n, v)
      BY <3>1, <3>2, <3>4, <3>5 DEF Allowed
    <3>7. ProcInv'
      BY <1>1, <1>3, <3>2, <3>6, ProcMoves
    <3>. QED
      BY <3>2, <3>7 DEF IInv, TypeOK
  <2>. QED
    BY <1>4, <2>1, <2>2, <2>3
<1>8. TypeOK'
  BY <1>1, <1>7 DEF IInv, TypeOK
<1>9. WorkerInv'
  BY <1>1 DEF IInv, WorkerInv, Live
<1>10. ObsInv'
  BY <1>1, <1>3, ObsKept
<1>. QED
  BY <1>3, <1>7, <1>8, <1>9, <1>10 DEF IInv

\* A process ends.
LEMMA ProcessEndsInv == ASSUME IInv, NEW c \in Container, ProcessEnds(c) PROVE IInv'
<1>1. /\ proc[c] = "running" /\ proc' = [proc EXCEPT ![c] = "exited"]
      /\ UNCHANGED <<status, stage, bind, before, exits, ready, mode, at, obs, calls>>
  BY DEF ProcessEnds, durable
<1>2. PICK how \in {"clean", "unclean"} : code' = [code EXCEPT ![c] = how]
  BY DEF ProcessEnds
<1>3. c \notin exits /\ ~Stopped(c) /\ stage[Retire(c)] # 3
  BY <1>1 DEF IInv, ProcInv
<1>4. \A d \in Container : d \in exits \/ Stopped(d) => code'[d] = code[d]
  BY <1>2, <1>3 DEF IInv, TypeOK
<1>5. /\ JournalsValid' /\ ChainInv' /\ AloneInv' /\ ChainSame
      /\ \A d \in Container : /\ Observable(d) => Observable(d)'
                              /\ Replaced(d) => Replaced(d)'
  BY <1>1, <1>4, RowsKept
<1>6. c[2] > Current[c[1]] => c[2] = Current[c[1]] + 1 /\ Exists(Resume(<<c[1], Current[c[1]]>>))
  BY <1>1 DEF IInv, ProcInv
<1>7. ProcInv'
  <2>1. Allowed(c, "exited")
    BY <1>3, <1>6 DEF Allowed
  <2>. QED
    BY <1>1, <1>5, <2>1, ProcMoves
<1>8. TypeOK'
  BY <1>1, <1>2 DEF IInv, TypeOK
<1>9. WorkerInv'
  BY <1>1 DEF IInv, WorkerInv, Live
<1>10. ObsInv'
  BY <1>1, <1>5, ObsKept
<1>. QED
  BY <1>5, <1>7, <1>8, <1>9, <1>10 DEF IInv

-----------------------------------------------------------------------------
(* Every step *)

\* A step that changes no variable.
LEMMA StutterInv == ASSUME IInv, UNCHANGED vars PROVE IInv'
<1>1. mode' = mode /\ at' = at /\ obs' = obs /\ UNCHANGED <<durable, engine>>
  BY DEF vars
<1>2. obs' \in Observation
  BY <1>1 DEF IInv, TypeOK
<1>3. obs.kind # "none" => obs.of \in Container
  BY DEF IInv, TypeOK, Observation, Idle
<1>4. /\ obs'.kind = "exit" => obs'.of \in Container /\ Observable(obs'.of)
      /\ obs'.kind = "resumed" => obs'.of \in Container /\ Replaced(obs'.of)
  BY <1>1, <1>3 DEF IInv, ObsInv
<1>. QED
  BY <1>1, <1>2, <1>4, QuietInv

\* The invariant is inductive.
LEMMA NextIInv == IInv /\ [Next]_vars => IInv'
<1>. SUFFICES ASSUME IInv, [Next]_vars PROVE IInv'
  OBVIOUS
<1>1. ASSUME NEW m \in Member, AcceptStop(m) PROVE IInv'
  BY <1>1, AcceptStopInv
<1>2. ASSUME NEW m \in Member, AskInitial(m) \/ AskCurrent(m) PROVE IInv'
  <2>1. <<m, 1>> \in Container /\ <<m, Current[m]>> \in Container
    BY CurrentTyped, Containers, LifecycleAssumption
  <2>2. PICK c \in Container : Ask("initial", c) \/ Ask("current", c)
    BY <1>2, <2>1 DEF AskInitial, AskCurrent
  <2>. QED
    BY <2>2, AskInv
<1>3. ASSUME NEW c \in Container, AcceptRetire(c) \/ AcceptResume(c) PROVE IInv'
  BY <1>3, AcceptNextInv
<1>4. ASSUME NEW c \in Container, AskResumed(c) \/ AskExit(c) PROVE IInv'
  BY <1>4, AskInv
<1>5. ASSUME NEW c \in Container, BeginStop(c) \/ BeginRetire(c) \/ BeginResume(c) PROVE IInv'
  BY <1>5, BeginInv
<1>6. ASSUME NEW c \in Container, LookStop(c) \/ LookRetire(c) \/ LookResume(c) PROVE IInv'
  BY <1>6, LookInv
<1>7. ASSUME NEW c \in Container, SignalStop(c) \/ RemoveStopped(c) \/ CreateOrStart(c)
      PROVE  IInv'
  <2>1. PICK j \in Job : Issue(j)
    BY <1>7, Jobs DEF SignalStop, RemoveStopped, CreateOrStart
  <2>. QED
    BY <2>1, IssueInv
<1>8. ASSUME NEW j \in Job, Reply(j) PROVE IInv'
  BY <1>8, ReplyInv
<1>9. ASSUME NEW j \in Job, Finish(j) PROVE IInv'
  <2>1. CASE j[1] # "resume"
    BY <1>9, <2>1, FinishInv
  <2>2. CASE j[1] = "resume"
    <3>1. PICK c \in Container : j = Resume(c)
      BY <2>2, Jobs
    <3>. QED
      BY <1>9, <3>1, ResumedInv
  <2>. QED
    BY <2>1, <2>2
<1>10. ASSUME NEW j \in Job, Interrupt(j) PROVE IInv'
  BY <1>10, InterruptInv
<1>11. CASE Complete
  BY <1>11, CompleteInv
<1>12. CASE GiveUp \/ Crash
  BY <1>12, IdleInv
<1>13. CASE Restart
  BY <1>13, RestartInv
<1>14. ASSUME NEW j \in Job, Land(j) PROVE IInv'
  BY <1>14, LandInv
<1>15. ASSUME NEW c \in Container, ProcessEnds(c) PROVE IInv'
  BY <1>15, ProcessEndsInv
<1>16. CASE UNCHANGED vars
  BY <1>16, StutterInv
<1>. QED
  BY <1>1, <1>2, <1>3, <1>4, <1>5, <1>6, <1>7, <1>8, <1>9, <1>10, <1>11, <1>12, <1>13, <1>14,
     <1>15, <1>16 DEF Next, Requests, Worker, Outside

\* Every reachable state satisfies the invariant.
THEOREM Inductive == Spec => []IInv
<1>1. Init => IInv
  BY InitIInv
<1>2. IInv /\ [Next]_vars => IInv'
  BY NextIInv
<1>. QED
  BY <1>1, <1>2, PTL DEF Spec

-----------------------------------------------------------------------------
(* What it gives *)

\* The state of the store, the service and the engine has its shape.
THEOREM TypeCorrect == Spec => []TypeOK
<1>1. IInv => TypeOK
  BY DEF IInv
<1>. QED
  BY <1>1, Inductive, PTL

\* Whatever is interrupted, lost or restarted, the store recognizes its rows.
THEOREM AlwaysRecognized == Spec => []JournalsValid
<1>1. IInv => JournalsValid
  BY DEF IInv
<1>. QED
  BY <1>1, Inductive, PTL

\* A pier is handed on only after its last process ended cleanly and is gone.
THEOREM HandedOverClean == Spec => []CleanHandover
<1>1. IInv => CleanHandover
  <2>. SUFFICES ASSUME IInv, NEW c \in Container, proc[c] # "absent", NEW g \in 1 .. c[2] - 1
       PROVE  proc[<<c[1], g>>] = "removed" /\ code[<<c[1], g>>] = "clean"
    BY DEF CleanHandover
  <2>1. c[1] \in Member /\ c[2] \in 1 .. MaxGen /\ Current[c[1]] \in 1 .. MaxGen
    BY Containers, CurrentTyped DEF Binding
  <2>2. PICK d \in Container : d = <<c[1], g>> /\ d[1] = c[1] /\ d[2] = g
    <3>1. g \in 1 .. MaxGen
      BY <2>1, LifecycleAssumption
    <3>. QED
      BY <2>1, <3>1, Containers
  <2>3. \/ c[2] <= Current[c[1]]
        \/ c[2] = Current[c[1]] + 1 /\ Exists(Resume(<<c[1], Current[c[1]]>>))
    <3>1. c[2] > Current[c[1]] /\ proc[c] # "absent" =>
              c[2] = Current[c[1]] + 1 /\ Exists(Resume(<<c[1], Current[c[1]]>>))
      BY DEF IInv, ProcInv
    <3>. QED
      BY <2>1, <3>1
  <2>4. d[2] < Current[d[1]] => Replaced(d)
    BY DEF IInv, ProcInv
  <2>5. Exists(Resume(d))
    <3>1. CASE g < Current[c[1]]
      BY <2>2, <2>4, <3>1 DEF Replaced, Exists
    <3>2. CASE g >= Current[c[1]]
      <4>1. g = Current[c[1]] /\ Exists(Resume(<<c[1], Current[c[1]]>>))
        BY <2>1, <2>3, <3>2
      <4>. QED
        BY <2>2, <4>1
    <3>. QED
      BY <2>1, <3>1, <3>2
  <2>6. Retired(d) /\ Exists(Retire(d)) /\ CleanExit(d)
    BY <2>5, NotYet, OnRecord DEF Retired, Exists
  <2>7. proc[d] = "removed"
    BY <2>6 DEF IInv, ProcInv, Retired
  <2>. QED
    BY <2>2, <2>6, <2>7 DEF CleanExit
<1>. QED
  BY <1>1, Inductive, PTL

\* A step asks the engine only as the busy job's worker.
LEMMA Asked ==
    ASSUME IInv, [Next]_vars, NEW j \in calls' \ calls
    PROVE  j \in Job /\ Issue(j)
<1>1. CASE \E c \in Container : SignalStop(c) \/ RemoveStopped(c) \/ CreateOrStart(c)
  <2>1. PICK k \in Job : Issue(k)
    BY <1>1, Jobs DEF SignalStop, RemoveStopped, CreateOrStart
  <2>2. calls' = calls \cup {k}
    BY <2>1 DEF Issue
  <2>. QED
    BY <2>1, <2>2
<1>2. CASE UNCHANGED calls
  BY <1>2
<1>3. CASE \E k \in Job : Land(k)
  BY <1>3 DEF Land
<1>4. ASSUME ~(\E c \in Container : SignalStop(c) \/ RemoveStopped(c) \/ CreateOrStart(c)),
             ~(\E k \in Job : Land(k))
      PROVE  UNCHANGED calls
  <2>1. CASE Requests
    BY <2>1 DEF Requests, AcceptStop, AcceptRetire, AcceptResume, Accept, AskInitial, AskCurrent,
       AskResumed, AskExit, Ask, engine
  <2>2. CASE Worker
    <3>1. CASE \E c \in Container : BeginStop(c) \/ BeginRetire(c) \/ BeginResume(c)
      BY <3>1 DEF BeginStop, BeginRetire, BeginResume, Begin, engine
    <3>2. CASE \E c \in Container : LookStop(c) \/ LookRetire(c) \/ LookResume(c)
      BY <3>2 DEF LookStop, LookRetire, LookResume, Look, Advance, engine
    <3>3. CASE \E k \in Job : Reply(k) \/ Finish(k) \/ Interrupt(k)
      BY <3>3 DEF Reply, Advance, Finish, Interrupt, engine
    <3>4. CASE Complete \/ GiveUp
      BY <3>4 DEF Complete, GiveUp, engine
    <3>. QED
      BY <1>4, <2>2, <3>1, <3>2, <3>3, <3>4 DEF Worker
  <2>3. CASE Crash \/ Restart
    BY <2>3 DEF Crash, Restart, engine
  <2>4. CASE Outside
    BY <1>4, <2>4 DEF Outside, ProcessEnds
  <2>5. CASE UNCHANGED vars
    BY <2>5 DEF vars, engine
  <2>. QED
    BY <2>1, <2>2, <2>3, <2>4, <2>5 DEF Next
<1>. QED
  BY <1>1, <1>2, <1>3, <1>4

\* While a call's outcome is unknown nothing else is asked of the engine.
THEOREM FencedByUncertain == Spec => UncertainFences
<1>1. IInv /\ [Next]_vars =>
          [\A j \in calls' \ calls : \A k \in Job \ {j} :
              Uncertain(k) => (k[1] = "stop" /\ k[2] = j[2])]_vars
  <2>. SUFFICES ASSUME IInv, [Next]_vars, NEW j \in calls' \ calls, NEW k \in Job \ {j}, Uncertain(k)
       PROVE  k[1] = "stop" /\ k[2] = j[2]
    OBVIOUS
  <2>1. j \in Job /\ at[j] = "work"
    BY Asked DEF Issue
  <2>2. Busy(j)
    BY <2>1 DEF IInv, WorkerInv, Busy
  <2>3. OthersStopped(j[2]) /\ ~Busy(k)
    BY <2>1, <2>2, BusyCurrent
  <2>4. k[2] \in Container /\ k \in {Stop(k[2]), Retire(k[2]), Resume(k[2])}
    BY Jobs
  <2>5. stage[k] >= 1 /\ stage[k] < Last[k[1]] /\ ~Replaced(k[2]) /\ stage[k] \in None .. 5
    BY DEF Uncertain, IInv, TypeOK
  <2>6. Exists(k)
    BY <2>5 DEF IInv, WorkerInv, Exists, None
  <2>7. k[1] = "stop"
    <3>1. k # Retire(k[2])
      <4>. SUFFICES ASSUME k = Retire(k[2]) PROVE FALSE
        OBVIOUS
      <4>1. k[1] = "retire" /\ stage[k] # 3
        BY <2>4, <2>5, Jobs, Stages
      <4>2. status[k] = "succeeded"
        BY <2>3, <2>6, <4>1 DEF Busy, Unresolved, Exists
      <4>. QED
        BY <2>4, <2>6, <4>1, <4>2 DEF IInv, JournalsValid, ResumesValid, RetirementsValid
    <3>2. k # Resume(k[2])
      <4>. SUFFICES ASSUME k = Resume(k[2]) PROVE FALSE
        OBVIOUS
      <4>1. k[1] = "resume"
        BY <2>4, Jobs
      <4>2. status[k] = "succeeded"
        BY <2>3, <2>6, <4>1 DEF Busy, Unresolved, Exists
      <4>. QED
        BY <2>5, <4>2 DEF Replaced
    <3>. QED
      BY <2>4, <3>1, <3>2, Jobs
  <2>8. k[2] = j[2]
    <3>. SUFFICES ASSUME k[2] # j[2] PROVE FALSE
      OBVIOUS
    <3>1. k = Stop(k[2]) /\ Last[k[1]] = 3
      BY <2>4, <2>7, Jobs, Stages
    <3>2. Stopped(k[2]) \/ Replaced(k[2])
      BY <2>3, <2>4, <2>6, <3>1 DEF OthersStopped
    <3>. QED
      BY <2>5, <3>1, <3>2 DEF Stopped
  <2>. QED
    BY <2>7, <2>8
<1>. QED
  BY <1>1, Inductive, PTL DEF Spec, UncertainFences

-----------------------------------------------------------------------------
(* One container of a pier after the other *)

\* A step that asks the engine for nothing, and in which it does nothing.
Apart ==
    /\ ~(\E c \in Container : SignalStop(c) \/ RemoveStopped(c) \/ CreateOrStart(c))
    /\ ~(\E k \in Job : Land(k)) /\ ~(\E c \in Container : ProcessEnds(c))

\* It leaves the engine alone, and the stage of every job whose call is due.
LEMMA ApartKeeps ==
    ASSUME IInv, [Next]_vars, Apart
    PROVE  UNCHANGED engine /\ \A j \in calls : stage'[j] = stage[j]
<1>1. \A j \in calls : j \in Job /\ status[j] \in {"running", "interrupted"} /\ at[j] # "work"
  BY DEF IInv, TypeOK, WorkerInv
<1>2. stage \in [Job -> None .. 5]
  BY DEF IInv, TypeOK
<1>3. CASE Requests
  <2>1. CASE UNCHANGED <<stage, engine>>
    BY <2>1
  <2>2. CASE \E j \in Job, g \in {0, None} : Accept(j, g)
    BY <1>1, <1>2, <2>2 DEF Accept
  <2>. QED
    BY <1>3, <2>1, <2>2, Jobs, CurrentTyped, Containers
       DEF Requests, AcceptStop, AcceptRetire, AcceptResume, AskInitial, AskCurrent, AskResumed,
       AskExit, Ask, durable, Binding
<1>4. CASE Worker
  <2>1. CASE \E c \in Container : BeginStop(c) \/ BeginRetire(c) \/ BeginResume(c)
    <3>1. PICK j \in Job : Begin(j, 0)
      BY <2>1, Jobs DEF BeginStop, BeginRetire, BeginResume
    <3>. QED
      BY <1>1, <1>2, <3>1 DEF Begin
  <2>2. CASE \E c \in Container : LookStop(c) \/ LookRetire(c) \/ LookResume(c)
    <3>1. PICK j \in Job : Look(j)
      BY <2>2, Jobs DEF LookStop, LookRetire, LookResume
    <3>. QED
      BY <1>1, <1>2, <3>1 DEF Look, Advance
  <2>3. CASE \E j \in Job : Reply(j)
    BY <1>1, <1>2, <2>3 DEF Reply, Advance
  <2>4. CASE \E j \in Job : Finish(j) \/ Interrupt(j)
    BY <2>4 DEF Finish, Interrupt
  <2>5. CASE Complete \/ GiveUp
    BY <2>5 DEF Complete, GiveUp, durable
  <2>. QED
    BY <1>4, <2>1, <2>2, <2>3, <2>4, <2>5 DEF Worker, Apart
<1>5. CASE Crash \/ Restart
  BY <1>5 DEF Crash, Restart, durable
<1>6. CASE UNCHANGED vars
  BY <1>6 DEF vars, durable
<1>. QED
  BY <1>3, <1>4, <1>5, <1>6 DEF Next, Outside, Apart

\* What CallsDue says of one container.
Due(c) ==
    Resume(c) \in calls =>
        /\ stage[Resume(c)] = 1 => proc[<<c[1], c[2] + 1>>] = "absent"
        /\ stage[Resume(c)] = 3 => proc[<<c[1], c[2] + 1>>] = "created"

\* A resume looks at its pier before it asks.
LEMMA AskedDue ==
    ASSUME IInv, CallsDue, NEW c \in Container,
           SignalStop(c) \/ RemoveStopped(c) \/ CreateOrStart(c), NEW d \in Container
    PROVE  Due(d)'
<1>1. UNCHANGED <<stage, proc>>
  BY DEF SignalStop, RemoveStopped, CreateOrStart, Issue, durable
<1>2. CASE Resume(d) \in calls
  BY <1>1, <1>2 DEF CallsDue, Due
<1>3. CASE Resume(d) \in calls' /\ Resume(d) \notin calls
  <2>1. CreateOrStart(c) /\ d = c
    BY <1>3, Jobs DEF SignalStop, RemoveStopped, CreateOrStart, Issue
  <2>2. Busy(Resume(c)) /\ SeesResume(c)
    BY <2>1, Jobs DEF CreateOrStart, Issue, IInv, WorkerInv, Busy
  <2>3. PICK n \in Container : /\ n = <<c[1], c[2] + 1>> /\ n[1] = c[1] /\ n[2] = c[2] + 1
                               /\ ~Exists(Retire(n))
    BY <2>2, NextUnknown
  <2>4. n[2] \in 1 .. MaxGen /\ proc[n] # "removed"
    BY <2>3, Containers DEF IInv, ProcInv
  <2>5. ASSUME stage[Resume(c)] = 1 PROVE proc[n] = "absent"
    <3>1. Present(c[1]) = {}
      BY <2>2, <2>5 DEF SeesResume
    <3>. QED
      BY <2>3, <2>4, <3>1 DEF Present
  <2>6. ASSUME stage[Resume(c)] = 3 PROVE proc[n] = "created"
    BY <2>2, <2>3, <2>6 DEF SeesResume, Sees
  <2>. QED
    BY <1>1, <2>1, <2>3, <2>5, <2>6 DEF Due
<1>. QED
  BY <1>2, <1>3 DEF Due

\* While the call of a resume is due nothing else happens to the next container.
LEMMA DueKept ==
    ASSUME IInv, CallsDue, NEW d \in Container,
           (\E j \in Job : Land(j)) \/ (\E c \in Container : ProcessEnds(c))
    PROVE  Due(d)'
<1>1. calls' \subseteq calls /\ UNCHANGED stage
  BY DEF Land, ProcessEnds, durable
<1>2. SUFFICES ASSUME Resume(d) \in calls' PROVE Due(d)'
  BY DEF Due
<1>3. Resume(d) \in calls /\ Busy(Resume(d)) /\ Resume(d) \in Job
      /\ stage[Resume(d)] \in {1, 3} /\ Due(d)
  BY <1>1, <1>2, CallBusy, Jobs, Stages DEF CallsDue, Due
<1>4. PICK n \in Container : n = <<d[1], d[2] + 1>>
  BY <1>3, NextUnknown
<1>5. proc[n] \in {"absent", "created"}
  BY <1>3, <1>4 DEF Due
<1>6. proc'[n] = proc[n]
  <2>1. CASE \E j \in Job : Land(j)
    <3>1. PICK j \in Job : Land(j) /\ j \in calls /\ j # Resume(d)
      BY <1>2, <2>1 DEF Land
    <3>2. j[1] = "stop"
      BY <1>3, <3>1, CallBusy, BusyCurrent
    <3>. QED
      BY <3>1, <3>2 DEF Land
  <2>2. CASE \E c \in Container : ProcessEnds(c)
    BY <1>5, <2>2 DEF ProcessEnds, IInv, TypeOK
  <2>. QED
    BY <2>1, <2>2
<1>. QED
  BY <1>1, <1>3, <1>4, <1>6 DEF Due

\* However late it lands, a resume's call finds what it was asked for.
THEOREM LateCallsDue == Spec => []CallsDue
<1>1. Init => CallsDue
  BY DEF Init, CallsDue
<1>2. IInv /\ CallsDue /\ [Next]_vars => CallsDue'
  <2>. SUFFICES ASSUME IInv, CallsDue, [Next]_vars, NEW d \in Container PROVE Due(d)'
    BY DEF CallsDue, Due
  <2>1. CASE \E c \in Container : SignalStop(c) \/ RemoveStopped(c) \/ CreateOrStart(c)
    BY <2>1, AskedDue
  <2>2. CASE (\E j \in Job : Land(j)) \/ (\E c \in Container : ProcessEnds(c))
    BY <2>2, DueKept
  <2>3. CASE Apart
    <3>1. UNCHANGED <<calls, proc>> /\ \A j \in calls : stage'[j] = stage[j]
      BY <2>3, ApartKeeps DEF engine
    <3>. QED
      BY <3>1 DEF CallsDue, Due
  <2>. QED
    BY <2>1, <2>2, <2>3 DEF Apart
<1>. QED
  BY <1>1, <1>2, Inductive, PTL DEF Spec

\* A step of the succession, or one it does not show.
SuccessionStep == [Succession!Next]_([c \in Container |-> Life(c)])

\* What changes one container shows that container's change only.
LEMMA OneLife ==
    ASSUME NEW c \in Container, \A d \in Container \ {c} : proc'[d] = proc[d] /\ code'[d] = code[d]
    PROVE  [d \in Container |-> Life(d)'] =
               [[d \in Container |-> Life(d)] EXCEPT ![c] = Life(c)']
<1>1. \A d \in Container \ {c} : Life(d)' = Life(d)
  BY DEF Life
<1>. QED
  BY <1>1

\* A change that the succession allows of one container is one of its steps.
LEMMA LifeChanges ==
    ASSUME NEW c \in Container, \A d \in Container \ {c} : proc'[d] = proc[d] /\ code'[d] = code[d],
           \/ /\ c[2] > 1 /\ \E p \in Container : p = <<c[1], c[2] - 1>> /\ Life(p) = "removed"
              /\ Life(c) = "absent" /\ Life(c)' = "created"
           \/ Life(c) = "created" /\ Life(c)' = "running"
           \/ Life(c) = "running" /\ Life(c)' \in {"clean", "unclean"}
           \/ Life(c) = "clean" /\ Life(c)' = "removed"
    PROVE  SuccessionStep
<1> DEFINE life == [d \in Container |-> Life(d)]
<1>1. [d \in Container |-> Life(d)'] = [life EXCEPT ![c] = Life(c)'] /\ life[c] = Life(c)
  BY OneLife
<1>2. CASE /\ c[2] > 1 /\ \E p \in Container : p = <<c[1], c[2] - 1>> /\ Life(p) = "removed"
           /\ Life(c) = "absent" /\ Life(c)' = "created"
  <2>1. Succession!Create(c)
    BY <1>1, <1>2 DEF Succession!Create, Succession!Becomes
  <2>. QED
    BY <2>1 DEF SuccessionStep, Succession!Next, Succession!Container, Container
<1>3. CASE Life(c) = "created" /\ Life(c)' = "running"
  <2>1. Succession!Start(c)
    BY <1>1, <1>3 DEF Succession!Start, Succession!Becomes
  <2>. QED
    BY <2>1 DEF SuccessionStep, Succession!Next, Succession!Container, Container
<1>4. CASE Life(c) = "running" /\ Life(c)' \in {"clean", "unclean"}
  <2>1. Succession!End(c)
    BY <1>1, <1>4 DEF Succession!End, Succession!Becomes
  <2>. QED
    BY <2>1 DEF SuccessionStep, Succession!Next, Succession!Container, Container
<1>5. CASE Life(c) = "clean" /\ Life(c)' = "removed"
  <2>1. Succession!Remove(c)
    BY <1>1, <1>5 DEF Succession!Remove, Succession!Becomes
  <2>. QED
    BY <2>1 DEF SuccessionStep, Succession!Next, Succession!Container, Container
<1>. QED
  BY <1>2, <1>3, <1>4, <1>5

\* A step in which the engine does nothing shows nothing.
LEMMA LifeStutters ==
    ASSUME UNCHANGED <<proc, code>>
    PROVE  SuccessionStep
BY DEF SuccessionStep, Life

\* A removal lands on a container that ended cleanly, or is gone.
LEMMA RemovalShown ==
    ASSUME IInv, NEW c \in Container, Land(Retire(c))
    PROVE  SuccessionStep
<1>1. Retire(c) \in calls /\ proc' = [proc EXCEPT ![c] = "removed"] /\ code' = code
  BY Jobs DEF Land
<1>2. Exists(Retire(c))
  BY <1>1, CallBusy
<1>3. c \in exits /\ code[c] = "clean"
  BY <1>2, OnRecord DEF CleanExit
<1>4. proc[c] \in {"exited", "removed"}
  BY <1>3 DEF IInv, ProcInv
<1>5. CASE proc[c] = "removed"
  <2>1. proc' = proc
    BY <1>1, <1>5 DEF IInv, TypeOK
  <2>. QED
    BY <1>1, <2>1, LifeStutters
<1>6. CASE proc[c] = "exited"
  <2>1. proc'[c] = "removed" /\ \A d \in Container \ {c} : proc'[d] = proc[d] /\ code'[d] = code[d]
    BY <1>1 DEF IInv, TypeOK
  <2>2. Life(c) = "clean" /\ Life(c)' = "removed"
    BY <1>3, <1>6, <2>1 DEF Life
  <2>. QED
    BY <2>1, <2>2, LifeChanges
<1>. QED
  BY <1>4, <1>5, <1>6

\* A resume's call lands on the next container of a pier that was removed.
LEMMA ResumeShown ==
    ASSUME IInv, CallsDue, NEW c \in Container, Land(Resume(c))
    PROVE  SuccessionStep
<1>1. Resume(c) \in calls /\ Busy(Resume(c)) /\ Exists(Resume(c)) /\ stage[Resume(c)] \in {1, 3}
  <2>1. Resume(c) \in calls
    BY DEF Land
  <2>. QED
    BY <2>1, CallBusy, Jobs, Stages
<1>2. PICK n \in Container : n = <<c[1], c[2] + 1>> /\ n[1] = c[1] /\ n[2] = c[2] + 1
  BY <1>1, NextUnknown
<1>3. c[2] \in 1 .. MaxGen /\ c = <<n[1], n[2] - 1>> /\ n[2] > 1
  BY <1>2, Containers
<1>4. /\ proc' = [proc EXCEPT ![n] = IF stage[Resume(c)] = 1 THEN "created" ELSE "running"]
      /\ code' = code
  BY <1>2, Jobs DEF Land
<1>5. /\ proc'[n] = IF stage[Resume(c)] = 1 THEN "created" ELSE "running"
      /\ \A d \in Container \ {n} : proc'[d] = proc[d] /\ code'[d] = code[d]
  BY <1>4 DEF IInv, TypeOK
<1>6. CASE stage[Resume(c)] = 1
  <2>1. proc[n] = "absent"
    BY <1>1, <1>2, <1>6 DEF CallsDue
  <2>2. Retired(c)
    BY <1>1, OnRecord
  <2>3. proc[c] = "removed"
    BY <2>2 DEF Retired, IInv, ProcInv
  <2>4. Life(n) = "absent" /\ Life(n)' = "created" /\ Life(c) = "removed"
    BY <1>5, <1>6, <2>1, <2>3 DEF Life
  <2>. QED
    BY <1>3, <1>5, <2>4, LifeChanges
<1>7. CASE stage[Resume(c)] = 3
  <2>1. proc[n] = "created"
    BY <1>1, <1>2, <1>7 DEF CallsDue
  <2>2. Life(n) = "created" /\ Life(n)' = "running"
    BY <1>5, <1>7, <2>1 DEF Life
  <2>. QED
    BY <1>5, <2>2, LifeChanges
<1>. QED
  BY <1>1, <1>6, <1>7

\* A process ends cleanly or not.
LEMMA EndShown ==
    ASSUME IInv, NEW c \in Container, ProcessEnds(c)
    PROVE  SuccessionStep
<1>1. PICK how \in {"clean", "unclean"} : code' = [code EXCEPT ![c] = how]
  BY DEF ProcessEnds
<1>2. /\ proc[c] = "running" /\ proc'[c] = "exited" /\ code'[c] = how
      /\ \A d \in Container \ {c} : proc'[d] = proc[d] /\ code'[d] = code[d]
  BY <1>1 DEF ProcessEnds, IInv, TypeOK
<1>3. Life(c) = "running" /\ Life(c)' = how
  BY <1>2 DEF Life
<1>. QED
  BY <1>2, <1>3, LifeChanges

\* Through every interruption, lost answer, late call and restart a pier goes
\* from container to container as its owner is promised.
THEOREM SuccessionKept == Spec => ImplementsSuccession
<1>1. Init => Succession!Init
  BY DEF Init, Succession!Init, Succession!Container, Container, Life
<1>2. IInv /\ CallsDue /\ [Next]_vars => [Succession!Next]_([c \in Container |-> Life(c)])
  <2>. SUFFICES ASSUME IInv, CallsDue, [Next]_vars PROVE SuccessionStep
    BY DEF SuccessionStep
  <2>1. CASE \E c \in Container : SignalStop(c) \/ RemoveStopped(c) \/ CreateOrStart(c)
    BY <2>1, LifeStutters DEF SignalStop, RemoveStopped, CreateOrStart, Issue
  <2>2. CASE \E j \in Job : Land(j)
    <3>1. PICK c \in Container : Land(Stop(c)) \/ Land(Retire(c)) \/ Land(Resume(c))
      BY <2>2, Jobs
    <3>2. CASE Land(Stop(c))
      BY <3>2, Jobs, LifeStutters DEF Land
    <3>. QED
      BY <3>1, <3>2, RemovalShown, ResumeShown
  <2>3. CASE \E c \in Container : ProcessEnds(c)
    BY <2>3, EndShown
  <2>4. CASE Apart
    BY <2>4, ApartKeeps, LifeStutters DEF engine
  <2>. QED
    BY <2>1, <2>2, <2>3, <2>4 DEF Apart
<1>. QED
  BY <1>1, <1>2, Inductive, LateCallsDue, PTL DEF Spec, ImplementsSuccession, Succession!Spec
=============================================================================
