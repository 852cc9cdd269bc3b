------------------------- MODULE HostHandoffProofs -------------------------
(***************************************************************************)
(* Theorems about HostHandoff, for any hosts, places, transfers,           *)
(* coordinators and bounds, and for fake ships and livenet identities      *)
(* alike.  IInv is inductive: the lemmas below show one action or one      *)
(* group of actions each, and the theorems at the end collect them.        *)
(***************************************************************************)
EXTENDS HostHandoff, TLAPS

\* The constants.
LEMMA Constants == /\ Home \in Place
                   /\ Host \in [Place -> Runner]
                   /\ NoTransfer \notin Transfer
                   /\ MaxVersion \in Nat \ {0} /\ MaxFaults \in Nat
BY HomeAssumption, HostAssumption, NoTransferAssumption, BoundsAssumption

\* The first state satisfies the invariant.
LEMMA InitIInv == Init => IInv
<1> SUFFICES ASSUME Init PROVE IInv
  OBVIOUS
<1> USE Constants DEF Init
<1>1. TypeOK
  BY DEF TypeOK, Job, Call, Outgoing, Incoming
<1>2. HalvesAgree
  BY DEF HalvesAgree, Startable, Fenced
<1>3. OpAgrees
  BY DEF OpAgrees
<1>4. PierAgrees
  BY DEF PierAgrees
<1>5. ClientKnows
  BY DEF ClientKnows
<1>6. OneCarrier
  BY DEF OneCarrier, Carries, Startable, Fenced
<1> QED
  BY <1>1, <1>2, <1>3, <1>4, <1>5, <1>6 DEF IInv

-----------------------------------------------------------------------------
(* Steps that leave records, files and offers alone *)

\* Calls that only move a coordinator, and attempts that only begin or end:
\* what the records, the piers and the offers say of each other is unchanged.
LEMMA QuietStep ==
    ASSUME IInv, UNCHANGED <<dir, state, id>>, UNCHANGED files,
           UNCHANGED offer, UNCHANGED latest
    PROVE  HalvesAgree' /\ PierAgrees' /\ OneCarrier'
<1> USE DEF IInv, files, offer
<1>1. HalvesAgree'
  BY DEF HalvesAgree, Startable, Fenced
<1>2. PierAgrees'
  BY DEF PierAgrees, Landed, Receives
<1>3. OneCarrier'
  BY DEF OneCarrier, Carries, Startable, Fenced
<1> QED
  BY <1>1, <1>2, <1>3

\* A coordinator that changes its own pc and job keeps what others know.
LEMMA ClientMoves ==
    ASSUME IInv, UNCHANGED <<dir, state, id>>, UNCHANGED offer,
           NEW c \in Coordinator, NEW call \in Call, NEW j \in Job,
           pc' = [pc EXCEPT ![c] = call], job' = [job EXCEPT ![c] = j],
           call \notin {"idle", "prepare"} =>
              /\ j.id \in used
              /\ source[j.id] = j.from /\ destination[j.id] = j.to,
           call \notin {"idle", "prepare", "source"} =>
              state[j.from] # "preparing",
           call \in {"commit", "moved", "activate"} => Landed(j.id),
           call # "idle" /\ j.commitment =>
              call # "prepare" /\ state[j.from] = "moved"
    PROVE  /\ ClientKnows'
           /\ pc' \in [Coordinator -> Call] /\ job' \in [Coordinator -> Job]
<1> USE DEF IInv, offer
<1>1. pc' \in [Coordinator -> Call] /\ job' \in [Coordinator -> Job]
  BY DEF TypeOK
<1>2. ASSUME NEW d \in Coordinator
      PROVE  /\ d = c => pc'[d] = call /\ job'[d] = j
             /\ d # c => pc'[d] = pc[d] /\ job'[d] = job[d]
  BY <1>2 DEF TypeOK
<1>3. \A t : Landed(t) => Landed(t)'
  BY DEF Landed, Receives
<1>4. ClientKnows'
  BY <1>2, <1>3 DEF ClientKnows
<1> QED
  BY <1>1, <1>4
\* The same for a call that changes nothing but its coordinator.
LEMMA ClientOnly ==
    ASSUME IInv, OnlyClient,
           NEW c \in Coordinator, NEW call \in Call, NEW j \in Job,
           pc' = [pc EXCEPT ![c] = call], job' = [job EXCEPT ![c] = j],
           call \notin {"idle", "prepare"} =>
              /\ j.id \in used
              /\ source[j.id] = j.from /\ destination[j.id] = j.to,
           call \notin {"idle", "prepare", "source"} =>
              state[j.from] # "preparing",
           call \in {"commit", "moved", "activate"} => Landed(j.id),
           call # "idle" /\ j.commitment =>
              call # "prepare" /\ state[j.from] = "moved"
    PROVE  IInv'
<1> USE DEF OnlyClient, record
<1>1. HalvesAgree' /\ PierAgrees' /\ OneCarrier'
  BY QuietStep
<1>2. /\ ClientKnows'
      /\ pc' \in [Coordinator -> Call] /\ job' \in [Coordinator -> Job]
  BY ClientMoves
<1>3. TypeOK'
  BY <1>2 DEF IInv, TypeOK, files, offer
<1>4. OpAgrees'
  BY DEF IInv, OpAgrees, Landed, Receives, offer
<1> QED
  BY <1>1, <1>2, <1>3, <1>4 DEF IInv

\* What a coordinator in the middle of a move knows.
LEMMA Known ==
    ASSUME IInv, NEW c \in Coordinator
    PROVE  /\ job[c] \in Job /\ pc[c] \in Call
           /\ job' = job => job' = [job EXCEPT ![c] = job[c]]
           /\ pc[c] \notin {"idle", "prepare"} =>
                 /\ job[c].id \in used
                 /\ source[job[c].id] = job[c].from
                 /\ destination[job[c].id] = job[c].to
                 /\ dir[job[c].from] = "out" /\ id[job[c].from] = job[c].id
                 /\ state[job[c].from] \in Outgoing
           /\ pc[c] \notin {"idle", "prepare", "source"} =>
                 state[job[c].from] # "preparing"
           /\ pc[c] \in {"commit", "moved", "activate"} => Landed(job[c].id)
           /\ pc[c] # "idle" /\ job[c].commitment =>
                 pc[c] # "prepare" /\ state[job[c].from] = "moved"
<1>1. job[c] \in Job /\ pc[c] \in Call
  BY DEF IInv, TypeOK
<1>2. job' = job => job' = [job EXCEPT ![c] = job[c]]
  BY DEF IInv, TypeOK
<1>3. job[c].from \in Place
  BY <1>1 DEF Job
<1> QED
  BY <1>1, <1>2, <1>3 DEF IInv, ClientKnows, HalvesAgree

\* A refused or finished call.
LEMMA AbortInv ==
    ASSUME IInv, NEW c \in Coordinator, Abort(c), OnlyClient
    PROVE  IInv'
<1>1. job[c] \in Job /\ job' = [job EXCEPT ![c] = job[c]]
  BY Known DEF Abort
<1>2. pc' = [pc EXCEPT ![c] = "idle"] /\ "idle" \in Call
  BY DEF Abort, Call
<1> QED
  BY <1>1, <1>2, ClientOnly

\* A call after which the coordinator goes on with the same transfer.
LEMMA ContinueInv ==
    ASSUME IInv, NEW c \in Coordinator, NEW call \in Call,
           Continue(c, call), OnlyClient,
           pc[c] \notin {"idle", "prepare", "source"},
           call \notin {"idle", "prepare", "source"},
           call \in {"commit", "moved", "activate"} => Landed(job[c].id)
    PROVE  IInv'
<1>1. job[c] \in Job /\ job' = [job EXCEPT ![c] = job[c]]
  BY Known DEF Continue
<1>2. pc' = [pc EXCEPT ![c] = call]
  BY DEF Continue
<1>3. /\ job[c].id \in used
      /\ source[job[c].id] = job[c].from /\ destination[job[c].id] = job[c].to
      /\ state[job[c].from] # "preparing"
      /\ job[c].commitment => state[job[c].from] = "moved"
  BY Known
<1> QED
  BY <1>1, <1>2, <1>3, ClientOnly

LEMMA BeginInv ==
    ASSUME IInv, NEW c \in Coordinator, NEW p \in Place, NEW q \in Place,
           Begin(c, p, q)
    PROVE  IInv'
<1> DEFINE j == [from |-> p, to |-> q, id |-> NoTransfer, commitment |-> FALSE]
<1>1. j \in Job /\ "prepare" \in Call
  BY DEF Job, Call
<1>2. pc' = [pc EXCEPT ![c] = "prepare"] /\ job' = [job EXCEPT ![c] = j]
  BY DEF Begin
<1>3. OnlyClient
  BY DEF Begin
<1>4. ~j.commitment
  OBVIOUS
<1> HIDE DEF j
<1> QED
  BY <1>1, <1>2, <1>3, <1>4, ClientOnly

LEMMA WaitSourceInv ==
    ASSUME IInv, NEW c \in Coordinator, WaitSource(c)
    PROVE  IInv'
<1> DEFINE p == job[c].from
           j == [job[c] EXCEPT !.commitment = state[p] = "moved"]
<1>1. CASE /\ state[p] \in {"ready", "moved"}
           /\ pc' = [pc EXCEPT ![c] = "reserve"]
           /\ job' = [job EXCEPT ![c].commitment = state[p] = "moved"]
  <2>1. job[c] \in Job
    BY Known
  <2>2. /\ j \in Job /\ j.from = p /\ j.to = job[c].to /\ j.id = job[c].id
        /\ j.commitment <=> state[p] = "moved"
    BY <2>1 DEF Job
  <2>3. job' = [job EXCEPT ![c] = j]
    BY <1>1
  <2>4. pc[c] = "source" /\ OnlyClient /\ "reserve" \in Call
    BY DEF WaitSource, Call
  <2>5. j.id \in used /\ source[j.id] = j.from /\ destination[j.id] = j.to
    BY <2>2, <2>4, Known
  <2>6. /\ state[j.from] # "preparing"
        /\ j.commitment => state[j.from] = "moved"
    BY <1>1, <2>2
  <2>7. pc' = [pc EXCEPT ![c] = "reserve"]
    BY <1>1
  <2> HIDE DEF j, p
  <2> QED
    BY <2>2, <2>3, <2>4, <2>5, <2>6, <2>7, ClientOnly
<1>2. CASE Abort(c)
  BY <1>2, AbortInv DEF WaitSource
<1> QED
  BY <1>1, <1>2 DEF WaitSource

LEMMA WaitMovedInv ==
    ASSUME IInv, NEW c \in Coordinator, WaitMoved(c)
    PROVE  IInv'
<1> DEFINE p == job[c].from
           j == [job[c] EXCEPT !.commitment = TRUE]
<1>1. CASE /\ state[p] = "moved"
           /\ pc' = [pc EXCEPT ![c] = "activate"]
           /\ job' = [job EXCEPT ![c].commitment = TRUE]
  <2>1. job[c] \in Job
    BY Known
  <2>2. j \in Job /\ j.from = p /\ j.to = job[c].to /\ j.id = job[c].id
    BY <2>1 DEF Job
  <2>3. job' = [job EXCEPT ![c] = j]
    BY <1>1
  <2>4. pc[c] = "moved" /\ OnlyClient /\ "activate" \in Call
    BY DEF WaitMoved, Call
  <2>5. /\ j.id \in used /\ source[j.id] = j.from /\ destination[j.id] = j.to
        /\ Landed(j.id)
    BY <2>2, <2>4, Known
  <2>6. state[j.from] = "moved"
    BY <1>1, <2>2
  <2> HIDE DEF j, p
  <2> QED
    BY <1>1, <2>2, <2>3, <2>4, <2>5, <2>6, ClientOnly
<1>2. CASE Abort(c)
  BY <1>2, AbortInv DEF WaitMoved
<1> QED
  BY <1>1, <1>2 DEF WaitMoved

LEMMA ReserveAgainInv ==
    ASSUME IInv, NEW c \in Coordinator, ReserveAgain(c)
    PROVE  IInv'
<1>1. CASE Abort(c)
  BY <1>1, AbortInv DEF ReserveAgain
<1>2. CASE Continue(c, "inspect")
  BY <1>2, ContinueInv DEF ReserveAgain, Call
<1> QED
  BY <1>1, <1>2 DEF ReserveAgain

LEMMA InspectInv ==
    ASSUME IInv, NEW c \in Coordinator, Inspect(c)
    PROVE  IInv'
<1>1. CASE Abort(c)
  BY <1>1, AbortInv DEF Inspect
<1>2. ASSUME NEW call \in {"relay", "retry", "receive"}, Continue(c, call)
      PROVE  IInv'
  BY <1>2, ContinueInv DEF Inspect, Call
<1> QED
  BY <1>1, <1>2 DEF Inspect

LEMMA RelayInv ==
    ASSUME IInv, NEW c \in Coordinator, Relay(c)
    PROVE  IInv'
<1>1. CASE Abort(c)
  BY <1>1, AbortInv DEF Relay
<1>2. CASE Continue(c, "put")
  BY <1>2, ContinueInv DEF Relay, Call
<1> QED
  BY <1>1, <1>2 DEF Relay

LEMMA WaitReceivedInv ==
    ASSUME IInv, NEW c \in Coordinator, WaitReceived(c)
    PROVE  IInv'
<1>1. CASE Abort(c)
  BY <1>1, AbortInv DEF WaitReceived
<1>2. ASSUME NEW call \in {"activate", "commit"}, Continue(c, call),
             Receives(job[c].to, job[c].id), Verified(job[c].to)
      PROVE  IInv'
  <2>1. pc[c] = "receive" /\ OnlyClient /\ call \in Call
    BY <1>2 DEF WaitReceived, Call
  <2>2. destination[job[c].id] = job[c].to
    BY <2>1, Known
  <2>3. Landed(job[c].id)
    BY <1>2, <2>2 DEF Landed, Verified
  <2> QED
    BY <1>2, <2>1, <2>3, ContinueInv
<1> QED
  BY <1>1, <1>2 DEF WaitReceived

LEMMA PrepareRefusedInv ==
    ASSUME IInv, NEW c \in Coordinator, PrepareRefused(c)
    PROVE  IInv'
BY AbortInv DEF PrepareRefused
-----------------------------------------------------------------------------
(* Steps that change a record *)

\* What no step takes back: a fenced source and its transfer, a commitment, a
\* verified receipt and an offer.
Forward ==
    /\ used \subseteq used'
    /\ \A t \in used : source'[t] = source[t] /\ destination'[t] = destination[t]
    /\ \A p \in Place : dir[p] = "out" =>
          /\ dir'[p] = "out" /\ id'[p] = id[p]
          /\ state[p] # "preparing" => state'[p] # "preparing"
          /\ state[p] = "moved" => state'[p] = "moved"
    /\ \A p \in Place :
          dir[p] = "in" /\ state[p] \in {"received", "complete"} =>
             \/ dir'[p] = "out"
             \/ /\ dir'[p] = "in" /\ id'[p] = id[p]
                /\ state'[p] \in {"received", "complete"}

LEMMA LandedStays ==
    ASSUME IInv, Forward, NEW t \in used, Landed(t)
    PROVE  Landed(t)'
<1>1. t \in Transfer /\ destination[t] \in Place /\ destination'[t] = destination[t]
  BY DEF IInv, TypeOK, Forward
<1> QED
  BY <1>1 DEF Landed, Receives, Forward

\* What is true of a coordinator that is at a call, remembering j.
KnownAt(call, j) ==
    /\ call \notin {"idle", "prepare"} =>
          /\ j.id \in used
          /\ source[j.id] = j.from /\ destination[j.id] = j.to
    /\ call \notin {"idle", "prepare", "source"} => state[j.from] # "preparing"
    /\ call \in {"commit", "moved", "activate"} => Landed(j.id)
    /\ call # "idle" /\ j.commitment =>
          call # "prepare" /\ state[j.from] = "moved"

\* What a coordinator that does not act knows stays true.
LEMMA KnowledgeStays ==
    ASSUME IInv, Forward, NEW c \in Coordinator,
           NEW call, call = pc[c], NEW j, j = job[c]
    PROVE  KnownAt(call, j)'
<1>1. j.from \in Place
  BY Known DEF Job
<1>2. call \notin {"idle", "prepare"} =>
         /\ j.id \in used
         /\ source[j.id] = j.from /\ destination[j.id] = j.to
         /\ dir[j.from] = "out"
  BY Known
<1>3. call \in {"commit", "moved", "activate"} => Landed(j.id)'
  <2>1. call \in {"commit", "moved", "activate"} => Landed(j.id)
    BY Known
  <2> QED
    BY <1>2, <2>1, LandedStays
<1>4. call \notin {"idle", "prepare", "source"} => state'[j.from] # "preparing"
  <2>1. call \notin {"idle", "prepare", "source"} => state[j.from] # "preparing"
    BY Known
  <2> QED
    BY <1>1, <1>2, <2>1 DEF Forward
<1>5. call # "idle" /\ j.commitment =>
         call # "prepare" /\ state'[j.from] = "moved"
  <2>1. call # "idle" /\ j.commitment =>
           call # "prepare" /\ state[j.from] = "moved" /\ dir[j.from] = "out"
    <3>1. call # "idle" /\ j.commitment =>
             call # "prepare" /\ state[j.from] = "moved"
      BY Known
    <3> QED
      BY <3>1, <1>2, Known
  <2> QED
    BY <1>1, <2>1 DEF Forward
<1>6. call \notin {"idle", "prepare"} =>
         /\ j.id \in used'
         /\ source'[j.id] = j.from /\ destination'[j.id] = j.to
  BY <1>2 DEF Forward
<1> QED
  BY <1>3, <1>4, <1>5, <1>6 DEF KnownAt

LEMMA KnownEverywhere ==
    ASSUME \A d \in Coordinator : \A call, j :
              call = pc'[d] /\ j = job'[d] => KnownAt(call, j)'
    PROVE  ClientKnows'
<1> SUFFICES ASSUME NEW d \in Coordinator
             PROVE  KnownAt(pc[d], job[d])'
  BY DEF ClientKnows, KnownAt, Landed, Receives
<1> QED
  BY DEF KnownAt, Landed, Receives

LEMMA ClientStays ==
    ASSUME IInv, Forward, UNCHANGED client
    PROVE  ClientKnows'
<1>1. pc' = pc /\ job' = job
  BY DEF client
<1>2. \A d \in Coordinator : \A call, j :
              call = pc'[d] /\ j = job'[d] => KnownAt(call, j)'
  BY <1>1, KnowledgeStays
<1> QED
  BY <1>2, KnownEverywhere

\* A call that changes the records as well.
LEMMA ClientForward ==
    ASSUME IInv, Forward,
           NEW c \in Coordinator, NEW call \in Call, NEW j \in Job,
           pc' = [pc EXCEPT ![c] = call], job' = [job EXCEPT ![c] = j],
           KnownAt(call, j)'
    PROVE  /\ ClientKnows'
           /\ pc' \in [Coordinator -> Call] /\ job' \in [Coordinator -> Job]
<1>1. pc' \in [Coordinator -> Call] /\ job' \in [Coordinator -> Job]
  BY DEF IInv, TypeOK
<1>2. pc'[c] = call /\ job'[c] = j
  BY DEF IInv, TypeOK
<1>3. ASSUME NEW d \in Coordinator, d # c
      PROVE  pc'[d] = pc[d] /\ job'[d] = job[d]
  BY <1>3 DEF IInv, TypeOK
<1>4. \A d \in Coordinator : \A call2, j2 :
              call2 = pc'[d] /\ j2 = job'[d] => KnownAt(call2, j2)'
  BY <1>2, <1>3, KnowledgeStays
<1> QED
  BY <1>1, <1>4, KnownEverywhere

\* The same when the coordinator only goes on, or stops.
LEMMA ContinueForward ==
    ASSUME IInv, Forward, NEW c \in Coordinator, NEW call \in Call,
           pc' = [pc EXCEPT ![c] = call], job' = job,
           call = "idle" \/ /\ pc[c] \notin {"idle", "prepare", "source"}
                            /\ call \notin {"idle", "prepare", "source"},
           call \in {"commit", "moved", "activate"} => Landed(job[c].id)
    PROVE  /\ ClientKnows'
           /\ pc' \in [Coordinator -> Call] /\ job' \in [Coordinator -> Job]
<1>1. PICK j \in Job : j = job[c] /\ job' = [job EXCEPT ![c] = j]
  BY Known
<1>2. call # "idle" =>
         /\ j.id \in used /\ j.from \in Place
         /\ source[j.id] = j.from /\ destination[j.id] = j.to
         /\ dir[j.from] = "out" /\ state[j.from] # "preparing"
         /\ j.commitment => state[j.from] = "moved"
  BY <1>1, Known DEF Job
<1>3. call # "idle" =>
         /\ j.id \in used'
         /\ source'[j.id] = j.from /\ destination'[j.id] = j.to
         /\ state'[j.from] # "preparing"
         /\ j.commitment => state'[j.from] = "moved"
  BY <1>2 DEF Forward
<1>4. call \in {"commit", "moved", "activate"} => Landed(j.id)'
  BY <1>1, <1>2, LandedStays
<1>5. KnownAt(call, j)'
  BY <1>3, <1>4 DEF KnownAt
<1> QED
  BY <1>1, <1>5, ClientForward

\* Steps that touch no phase are forward.
LEMMA QuietForward ==
    ASSUME UNCHANGED <<dir, state, id>>, UNCHANGED offer
    PROVE  Forward
BY DEF Forward, offer

-----------------------------------------------------------------------------
(* Attempts that begin or end, and nothing else *)

\* An active operation still works on its phase when the records are the same.
LEMMA OpsStay ==
    ASSUME IInv, UNCHANGED <<dir, state, id>>, UNCHANGED offer,
           NEW p \in Place, op'[p] \in {"none", op[p]}
    PROVE  /\ op'[p] = "prepare" => dir'[p] = "out" /\ state'[p] = "preparing"
           /\ op'[p] = "receive" => dir'[p] = "in" /\ state'[p] = "receiving"
           /\ op'[p] = "commit" => /\ dir'[p] = "out" /\ state'[p] = "ready"
                                   /\ Landed(id[p])'
BY DEF IInv, OpAgrees, Landed, Receives, offer

LEMMA GiveUpInv ==
    ASSUME IInv, NEW c \in Coordinator, GiveUp(c)
    PROVE  IInv'
<1> USE DEF record
<1>1. HalvesAgree' /\ PierAgrees' /\ OneCarrier'
  BY QuietStep DEF GiveUp
<1>2. /\ ClientKnows'
      /\ pc' \in [Coordinator -> Call] /\ job' \in [Coordinator -> Job]
  BY QuietForward, ContinueForward DEF GiveUp, Abort, Call
<1>3. TypeOK'
  BY <1>2, Constants DEF IInv, TypeOK, GiveUp, Fault, files, offer
<1>4. OpAgrees'
  BY DEF IInv, OpAgrees, Landed, Receives, GiveUp, offer
<1> QED
  BY <1>1, <1>2, <1>3, <1>4 DEF IInv

LEMMA FailInv ==
    ASSUME IInv, NEW p \in Place, Fail(p)
    PROVE  IInv'
<1>1. HalvesAgree' /\ PierAgrees' /\ OneCarrier'
  BY QuietStep DEF Fail
<1>2. ClientKnows'
  BY QuietForward, ClientStays DEF Fail
<1>3. TypeOK'
  BY Constants DEF IInv, TypeOK, Fail, Fault, files, offer, client
<1>4. OpAgrees'
  BY DEF IInv, TypeOK, OpAgrees, Landed, Receives, Fail, offer
<1> QED
  BY <1>1, <1>2, <1>3, <1>4 DEF IInv

LEMMA CrashInv ==
    ASSUME IInv, NEW n \in Runner, Crash(n)
    PROVE  IInv'
<1>1. HalvesAgree' /\ PierAgrees' /\ OneCarrier'
  BY QuietStep DEF Crash
<1>2. ClientKnows'
  BY QuietForward, ClientStays DEF Crash
<1>3. op' \in [Place -> {"none", "prepare", "receive", "commit"}]
  BY DEF IInv, TypeOK, Crash
<1>4. error' \in [Place -> BOOLEAN]
  BY DEF IInv, TypeOK, Crash
<1>5. TypeOK'
  BY <1>3, <1>4, Constants DEF IInv, TypeOK, Crash, Fault, files, offer, client
<1>6. OpAgrees'
  <2>1. ASSUME NEW p \in Place PROVE op'[p] \in {"none", op[p]}
    BY DEF Crash
  <2> QED
    BY <2>1 DEF IInv, OpAgrees, Landed, Receives, Crash, offer
<1> QED
  BY <1>1, <1>2, <1>5, <1>6 DEF IInv

LEMMA PrepareAgainInv ==
    ASSUME IInv, NEW c \in Coordinator, PrepareAgain(c)
    PROVE  IInv'
<1> DEFINE p == job[c].from
<1>1. HalvesAgree' /\ PierAgrees' /\ OneCarrier'
  BY QuietStep DEF PrepareAgain
<1>2. job[c] \in Job /\ p \in Place /\ id[p] \in used /\ used \subseteq Transfer
  <2>1. job[c] \in Job
    BY Known
  <2>2. p \in Place
    BY <2>1 DEF Job
  <2> QED
    BY <2>1, <2>2 DEF PrepareAgain, IInv, HalvesAgree, TypeOK
<1>3. PICK j \in Job : /\ j = [job[c] EXCEPT !.id = id[p]]
                     /\ j.from = p /\ j.to = job[c].to /\ j.id = id[p]
                     /\ j.commitment = job[c].commitment
  <2> DEFINE k == [job[c] EXCEPT !.id = id[p]]
  <2>1. /\ k \in Job /\ k.from = p /\ k.to = job[c].to /\ k.id = id[p]
        /\ k.commitment = job[c].commitment
    BY <1>2 DEF Job
  <2> QED
    BY <2>1
<1>4. ~j.commitment
  BY <1>3, Known DEF PrepareAgain
<1>5. /\ pc' = [pc EXCEPT ![c] = "source"] /\ job' = [job EXCEPT ![c] = j]
      /\ "source" \in Call
  BY <1>3 DEF PrepareAgain, Call
<1>6. source[id[p]] = p /\ destination[id[p]] = job[c].to
  BY <1>2 DEF PrepareAgain, SameDestination, IInv, HalvesAgree
<1>7. KnownAt("source", j)'
  BY <1>2, <1>3, <1>4, <1>6 DEF KnownAt, PrepareAgain, offer
<1>8. Forward
  BY QuietForward DEF PrepareAgain
<1>9. /\ ClientKnows'
      /\ pc' \in [Coordinator -> Call] /\ job' \in [Coordinator -> Job]
  BY <1>5, <1>7, <1>8, ClientForward
<1>10. TypeOK'
  BY <1>2, <1>9 DEF IInv, TypeOK, PrepareAgain, Dispatch, files, offer
<1>11. OpAgrees'
  BY <1>2 DEF IInv, TypeOK, OpAgrees, Landed, Receives, PrepareAgain, Dispatch,
              offer
<1> QED
  BY <1>1, <1>9, <1>10, <1>11 DEF IInv

LEMMA RetryInv ==
    ASSUME IInv, NEW c \in Coordinator, Retry(c)
    PROVE  IInv'
<1> DEFINE q == job[c].to
<1>1. HalvesAgree' /\ PierAgrees' /\ OneCarrier'
  BY QuietStep DEF Retry
<1>2. q \in Place
  BY Known DEF Job
<1>3. PICK call \in {"idle", "receive"} :
         pc' = [pc EXCEPT ![c] = call] /\ job' = job
  BY DEF Retry, Continue, Abort
<1>4. /\ ClientKnows'
      /\ pc' \in [Coordinator -> Call] /\ job' \in [Coordinator -> Job]
  <2>1. Forward
    BY QuietForward DEF Retry
  <2> QED
    BY <1>3, <2>1, ContinueForward DEF Retry, Call
<1>5. TypeOK'
  BY <1>2, <1>4 DEF IInv, TypeOK, Retry, Dispatch, files, offer
<1>6. OpAgrees'
  BY <1>2 DEF IInv, TypeOK, OpAgrees, Landed, Receives, Retry, Dispatch, offer
<1> QED
  BY <1>1, <1>4, <1>5, <1>6 DEF IInv

LEMMA CommitInv ==
    ASSUME IInv, NEW c \in Coordinator, Commit(c)
    PROVE  IInv'
<1> DEFINE p == job[c].from
<1>1. HalvesAgree' /\ PierAgrees' /\ OneCarrier'
  BY QuietStep DEF Commit
<1>2. p \in Place
  BY Known DEF Job
<1>3. Landed(job[c].id) /\ id[p] = job[c].id /\ dir[p] = "out"
  BY Known DEF Commit
<1>4. PICK call \in {"idle", "moved"} :
         pc' = [pc EXCEPT ![c] = call] /\ job' = job
  BY DEF Commit, Continue, Abort
<1>5. /\ ClientKnows'
      /\ pc' \in [Coordinator -> Call] /\ job' \in [Coordinator -> Job]
  <2>1. Forward
    BY QuietForward DEF Commit
  <2> QED
    BY <1>3, <1>4, <2>1, ContinueForward DEF Commit, Call
<1>6. TypeOK'
  BY <1>2, <1>5 DEF IInv, TypeOK, Commit, Dispatch, files, offer
<1>7. OpAgrees'
  BY <1>2, <1>3 DEF IInv, TypeOK, OpAgrees, Landed, Receives, Commit, Dispatch,
              offer
<1> QED
  BY <1>1, <1>5, <1>6, <1>7 DEF IInv

-----------------------------------------------------------------------------
(* Workers *)

\* What the end of an attempt leaves in its place.
LEMMA FinishTypes ==
    ASSUME IInv, NEW p \in Place, NEW phase \in Outgoing \cup Incoming,
           Finish(p, phase)
    PROVE  /\ state' \in [Place -> Outgoing \cup Incoming \cup {"none"}]
           /\ op' \in [Place -> {"none", "prepare", "receive", "commit"}]
           /\ error' \in [Place -> BOOLEAN]
           /\ faults' \in 0 .. MaxFaults
           /\ state'[p] = phase /\ op'[p] = "none"
           /\ \A q \in Place : q # p =>
                 state'[q] = state[q] /\ op'[q] = op[q]
<1> USE DEF IInv, TypeOK, Finish
<1>1. state' \in [Place -> Outgoing \cup Incoming \cup {"none"}]
  OBVIOUS
<1>2. op' \in [Place -> {"none", "prepare", "receive", "commit"}]
  OBVIOUS
<1>3. error' \in [Place -> BOOLEAN]
  <2>1. CASE UNCHANGED error
    BY <2>1
  <2>2. CASE error' = [error EXCEPT ![p] = TRUE]
    BY <2>2
  <2> QED
    BY <2>1, <2>2
<1>5. faults' \in 0 .. MaxFaults
  <2>1. faults' = faults \/ Fault
    OBVIOUS
  <2> QED
    BY <2>1, Constants DEF Fault
<1>4. /\ state'[p] = phase /\ op'[p] = "none"
      /\ \A q \in Place : q # p => state'[q] = state[q] /\ op'[q] = op[q]
  OBVIOUS
<1> QED
  BY <1>1, <1>2, <1>3, <1>4, <1>5

LEMMA ReceiptsStay ==
    ASSUME IInv, Forward, NEW p \in Place, dir[p] = "out", Landed(id[p])
    PROVE  Landed(id[p])'
<1>1. id[p] \in used /\ id'[p] = id[p]
  BY DEF IInv, HalvesAgree, Forward
<1>2. PICK t \in used : t = id[p] /\ t = id'[p]
  BY <1>1
<1>3. Landed(t)'
  BY <1>2, LandedStays
<1> QED
  BY <1>2, <1>3 DEF Landed, Receives

LEMMA FinishPrepareInv ==
    ASSUME IInv, NEW p \in Place, FinishPrepare(p)
    PROVE  IInv' /\ Forward
<1>1. /\ state' \in [Place -> Outgoing \cup Incoming \cup {"none"}]
      /\ op' \in [Place -> {"none", "prepare", "receive", "commit"}]
      /\ error' \in [Place -> BOOLEAN]
      /\ faults' \in 0 .. MaxFaults
      /\ state'[p] = "ready" /\ op'[p] = "none"
      /\ \A q \in Place : q # p => state'[q] = state[q] /\ op'[q] = op[q]
  BY FinishTypes DEF FinishPrepare, Outgoing
<1>2. dir[p] = "out" /\ state[p] = "preparing" /\ digest[id[p]] = content[p]
  BY DEF IInv, OpAgrees, FinishPrepare
<1>3. UNCHANGED <<dir, id>> /\ UNCHANGED files /\ UNCHANGED offer
      /\ UNCHANGED client /\ UNCHANGED latest
  BY DEF FinishPrepare
<1>4. Forward
  BY <1>1, <1>2, <1>3 DEF Forward, offer
<1>5. ClientKnows'
  BY <1>3, <1>4, ClientStays
<1>6. TypeOK'
  BY <1>1, <1>3 DEF IInv, TypeOK, files, offer, client
<1>7. \A q \in Place : dir[q] \in {"in", "out"} => source[id[q]] \in Place
  BY DEF IInv, TypeOK, HalvesAgree
<1>8. HalvesAgree'
  BY <1>1, <1>2, <1>3, <1>7 DEF IInv, HalvesAgree, Startable, Fenced, Outgoing,
                             Incoming, offer, files
<1>9. OpAgrees'
  BY <1>1, <1>2, <1>3, <1>4, ReceiptsStay DEF IInv, OpAgrees
<1>10. PierAgrees'
  BY <1>1, <1>2, <1>3, <1>4, ReceiptsStay DEF IInv, PierAgrees, offer, files
<1>11. OneCarrier'
  BY <1>1, <1>2, <1>3, <1>7 DEF IInv, OneCarrier, Carries, Startable, Fenced,
                             offer, files
<1> QED
  BY <1>4, <1>5, <1>6, <1>8, <1>9, <1>10, <1>11 DEF IInv

LEMMA FinishReceiveInv ==
    ASSUME IInv, NEW p \in Place, FinishReceive(p)
    PROVE  IInv' /\ Forward
<1>1. /\ state' \in [Place -> Outgoing \cup Incoming \cup {"none"}]
      /\ op' \in [Place -> {"none", "prepare", "receive", "commit"}]
      /\ error' \in [Place -> BOOLEAN]
      /\ faults' \in 0 .. MaxFaults
      /\ state'[p] = "received" /\ op'[p] = "none"
      /\ \A q \in Place : q # p => state'[q] = state[q] /\ op'[q] = op[q]
  BY FinishTypes DEF FinishReceive, Incoming
<1>2. /\ dir[p] = "in" /\ state[p] = "receiving" /\ pier[p] = "mounted"
      /\ content[p] = digest[id[p]]
  BY DEF IInv, OpAgrees, FinishReceive
<1>3. UNCHANGED <<dir, id>> /\ UNCHANGED files /\ UNCHANGED offer
      /\ UNCHANGED client /\ UNCHANGED latest
  BY DEF FinishReceive
<1>4. Forward
  BY <1>1, <1>2, <1>3 DEF Forward, offer
<1>5. ClientKnows'
  BY <1>3, <1>4, ClientStays
<1>6. TypeOK'
  BY <1>1, <1>3 DEF IInv, TypeOK, files, offer, client
<1>7. \A q \in Place : dir[q] \in {"in", "out"} => source[id[q]] \in Place
  BY DEF IInv, TypeOK, HalvesAgree
<1>8. HalvesAgree'
  BY <1>1, <1>2, <1>3, <1>7 DEF IInv, HalvesAgree, Startable, Fenced, Outgoing,
                             Incoming, offer, files
<1>9. OpAgrees'
  BY <1>1, <1>2, <1>3, <1>4, ReceiptsStay DEF IInv, OpAgrees
<1>10. PierAgrees'
  BY <1>1, <1>2, <1>3, <1>4, ReceiptsStay DEF IInv, PierAgrees, offer, files
<1>11. state[source[id[p]]] # "moved"
  \* A committed source proves a verified receipt, and this one was not.
  <2>1. /\ id[p] \in used /\ destination[id[p]] = p
        /\ dir[source[id[p]]] = "out" /\ id[source[id[p]]] = id[p]
    BY <1>2 DEF IInv, HalvesAgree
  <2>2. ~Landed(id[p])
    BY <1>2, <2>1 DEF Landed
  <2> QED
    BY <1>2, <1>7, <2>1, <2>2 DEF IInv, PierAgrees
<1>12. OneCarrier'
  BY <1>1, <1>2, <1>3, <1>7, <1>11 DEF IInv, OneCarrier, Carries, Startable,
                             Fenced, offer, files
<1> QED
  BY <1>4, <1>5, <1>6, <1>8, <1>9, <1>10, <1>12 DEF IInv

LEMMA FinishCommitInv ==
    ASSUME IInv, NEW p \in Place, FinishCommit(p)
    PROVE  IInv' /\ Forward
<1>1. /\ state' \in [Place -> Outgoing \cup Incoming \cup {"none"}]
      /\ op' \in [Place -> {"none", "prepare", "receive", "commit"}]
      /\ error' \in [Place -> BOOLEAN]
      /\ faults' \in 0 .. MaxFaults
      /\ state'[p] = "moved" /\ op'[p] = "none"
      /\ \A q \in Place : q # p => state'[q] = state[q] /\ op'[q] = op[q]
  BY FinishTypes DEF FinishCommit, Outgoing
<1>2. /\ dir[p] = "out" /\ state[p] = "ready" /\ pier[p] = "archived"
      /\ Landed(id[p]) /\ id[p] \in used /\ source[id[p]] = p
      /\ digest[id[p]] = content[p]
  BY DEF IInv, OpAgrees, HalvesAgree, PierAgrees, FinishCommit
<1>3. UNCHANGED <<dir, id>> /\ UNCHANGED files /\ UNCHANGED offer
      /\ UNCHANGED client /\ UNCHANGED latest
  BY DEF FinishCommit
<1>4. Forward
  BY <1>1, <1>2, <1>3 DEF Forward, offer
<1>5. ClientKnows'
  BY <1>3, <1>4, ClientStays
<1>6. TypeOK'
  BY <1>1, <1>3 DEF IInv, TypeOK, files, offer, client
<1>7. \A q \in Place : dir[q] \in {"in", "out"} => source[id[q]] \in Place
  BY DEF IInv, TypeOK, HalvesAgree
<1>8. HalvesAgree'
  BY <1>1, <1>2, <1>3, <1>7 DEF IInv, HalvesAgree, Startable, Fenced, Outgoing,
                             Incoming, offer, files
<1>9. OpAgrees'
  BY <1>1, <1>2, <1>3, <1>4, ReceiptsStay DEF IInv, OpAgrees
<1>10. PierAgrees'
  BY <1>1, <1>2, <1>3, <1>4, ReceiptsStay DEF IInv, PierAgrees, offer, files
<1>11. OneCarrier'
  \* The destination takes over the content the source carried.
  <2>1. Carries(p) /\ content[p] = latest /\ \A q \in Place : Carries(q) => q = p
    BY <1>2 DEF IInv, OneCarrier, Carries
  <2>2. ASSUME NEW q \in Place, Carries(q)'
        PROVE  /\ dir[q] = "in" /\ state[q] = "received"
               /\ source[id[q]] = p
    BY <2>1, <2>2, <1>1, <1>2, <1>3, <1>7
       DEF Carries, Startable, Fenced, offer
  <2>3. ASSUME NEW q \in Place, dir[q] = "in", source[id[q]] = p
        PROVE  id[q] = id[p] /\ q = destination[id[p]]
    BY <2>3 DEF IInv, HalvesAgree
  <2>4. ASSUME NEW q \in Place, Carries(q)'
        PROVE  content'[q] = latest' /\ q = destination[id[p]]
    <3>1. dir[q] = "in" /\ state[q] = "received" /\ source[id[q]] = p
      BY <2>2, <2>4
    <3>2. id[q] = id[p] /\ q = destination[id[p]]
      BY <2>3, <3>1
    <3>3. content[q] = digest[id[q]]
      BY <3>1 DEF IInv, PierAgrees
    <3> QED
      BY <3>2, <3>3, <2>1, <1>2, <1>3 DEF files
  <2> QED
    BY <2>4 DEF OneCarrier
<1> QED
  BY <1>4, <1>5, <1>6, <1>8, <1>9, <1>10, <1>11 DEF IInv

LEMMA ExportInv ==
    ASSUME IInv, NEW p \in Place, Export(p)
    PROVE  IInv' /\ Forward
<1>1. UNCHANGED <<dir, state, id, error, op>> /\ UNCHANGED files
      /\ UNCHANGED <<used, source, destination>>
      /\ UNCHANGED client /\ UNCHANGED latest /\ UNCHANGED faults
  BY DEF Export, record
<1>2. /\ dir[p] = "out" /\ state[p] = "preparing"
      /\ id[p] \in Transfer /\ source[id[p]] = p
  BY DEF IInv, TypeOK, OpAgrees, HalvesAgree, Export
<1>3. /\ digest' \in [Transfer -> Nat]
      /\ \A t \in Transfer : t # id[p] => digest'[t] = digest[t]
  BY <1>2 DEF IInv, TypeOK, Export
<1>4. Forward
  BY <1>1 DEF Forward
<1>5. ClientKnows'
  BY <1>1, <1>4, ClientStays
<1>6. TypeOK'
  BY <1>1, <1>3 DEF IInv, TypeOK, files, client
<1>7. HalvesAgree'
  BY <1>1 DEF IInv, HalvesAgree, Startable, Fenced, files
<1>8. OpAgrees'
  BY <1>1, <1>4, ReceiptsStay DEF IInv, OpAgrees
<1>9. ASSUME NEW q \in Place, dir[q] \in {"out", "in"},
             dir[q] = "out" => state[q] # "preparing"
      PROVE  digest'[id[q]] = digest[id[q]]
  <2>1. id[q] \in Transfer
    BY <1>9 DEF IInv, TypeOK, HalvesAgree
  <2>2. id[q] # id[p]
    BY <1>2, <1>9 DEF IInv, HalvesAgree
  <2> QED
    BY <1>3, <2>1, <2>2
<1>10. PierAgrees'
  BY <1>1, <1>4, <1>9, ReceiptsStay DEF IInv, PierAgrees, files
<1>11. OneCarrier'
  BY <1>1 DEF IInv, OneCarrier, Carries, Startable, Fenced, files
<1> QED
  BY <1>4, <1>5, <1>6, <1>7, <1>8, <1>10, <1>11 DEF IInv

LEMMA StageInv ==
    ASSUME IInv, NEW p \in Place, Stage(p)
    PROVE  IInv' /\ Forward
<1>1. UNCHANGED <<dir, state, id, error, op, running>> /\ UNCHANGED offer
      /\ UNCHANGED client /\ UNCHANGED latest /\ UNCHANGED faults
  BY DEF Stage, record
<1>2. /\ dir[p] = "in" /\ state[p] = "receiving" /\ id[p] \in Transfer
  BY DEF IInv, TypeOK, OpAgrees, HalvesAgree, Stage
<1>3. /\ pier' \in [Place -> {"none", "staged", "mounted", "archived"}]
      /\ content' \in [Place -> Nat]
      /\ pier'[p] = "staged" /\ content'[p] = digest[id[p]]
      /\ \A q \in Place : q # p =>
            pier'[q] = pier[q] /\ content'[q] = content[q]
  BY <1>2 DEF IInv, TypeOK, Stage
<1>4. Forward
  BY <1>1 DEF Forward, offer
<1>5. ClientKnows'
  BY <1>1, <1>4, ClientStays
<1>6. TypeOK'
  BY <1>1, <1>3 DEF IInv, TypeOK, offer, client
<1>7. HalvesAgree'
  BY <1>1 DEF IInv, HalvesAgree, Startable, Fenced, offer
<1>8. OpAgrees'
  BY <1>1, <1>4, ReceiptsStay DEF IInv, OpAgrees
<1>9. PierAgrees'
  BY <1>1, <1>2, <1>3, <1>4, ReceiptsStay DEF IInv, PierAgrees, offer
<1>10. OneCarrier'
  BY <1>1, <1>2, <1>3 DEF IInv, OneCarrier, Carries, Startable, Fenced, offer
<1> QED
  BY <1>4, <1>5, <1>6, <1>7, <1>8, <1>9, <1>10 DEF IInv

\* Renaming the pier into its mount, or out of it.
LEMMA RenameInv ==
    ASSUME IInv, NEW p \in Place, NEW where \in {"mounted", "archived"},
           pier' = [pier EXCEPT ![p] = where],
           UNCHANGED <<record, content, running, offer, client, latest, faults>>,
           where = "mounted" => op[p] = "receive" /\ pier[p] = "staged",
           where = "archived" => op[p] = "commit"
    PROVE  IInv' /\ Forward
<1>1. UNCHANGED <<dir, state, id, error, op, content, running>>
      /\ UNCHANGED offer /\ UNCHANGED client /\ UNCHANGED latest
      /\ UNCHANGED faults
  BY DEF record
<1>2. /\ where = "mounted" => dir[p] = "in" /\ state[p] = "receiving"
      /\ where = "archived" =>
            dir[p] = "out" /\ state[p] = "ready" /\ Landed(id[p])
  BY DEF IInv, OpAgrees
<1>3. /\ pier' \in [Place -> {"none", "staged", "mounted", "archived"}]
      /\ pier'[p] = where
      /\ \A q \in Place : q # p => pier'[q] = pier[q]
  BY DEF IInv, TypeOK
<1>4. Forward
  BY <1>1 DEF Forward, offer
<1>5. ClientKnows'
  BY <1>1, <1>4, ClientStays
<1>6. TypeOK'
  BY <1>1, <1>3 DEF IInv, TypeOK, offer, client
<1>7. HalvesAgree'
  BY <1>1 DEF IInv, HalvesAgree, Startable, Fenced, offer
<1>8. OpAgrees'
  BY <1>1, <1>4, ReceiptsStay DEF IInv, OpAgrees
<1>9. PierAgrees'
  BY <1>1, <1>2, <1>3, <1>4, ReceiptsStay DEF IInv, PierAgrees, offer
<1>10. OneCarrier'
  BY <1>1 DEF IInv, OneCarrier, Carries, Startable, Fenced, offer
<1> QED
  BY <1>4, <1>5, <1>6, <1>7, <1>8, <1>9, <1>10 DEF IInv

LEMMA PublishInv ==
    ASSUME IInv, NEW p \in Place, Publish(p)
    PROVE  IInv' /\ Forward
BY RenameInv DEF Publish

LEMMA ArchiveInv ==
    ASSUME IInv, NEW p \in Place, Archive(p)
    PROVE  IInv' /\ Forward
BY RenameInv DEF Archive

-----------------------------------------------------------------------------
(* The ship, its coordinators, and the records they open *)

LEMMA StartInv ==
    ASSUME IInv, NEW p \in Place, Start(p)
    PROVE  IInv' /\ Forward
<1>1. UNCHANGED record /\ UNCHANGED <<dir, state, id, error, op, pier>>
      /\ UNCHANGED offer /\ UNCHANGED client /\ UNCHANGED faults
  BY DEF Start, record
<1>2. /\ dir[p] # "absent" /\ ~Fenced(p)
      /\ Carries(p) /\ \A q \in Place : Carries(q) => q = p
  BY DEF IInv, OneCarrier, Carries, Startable, Start
<1>3. /\ latest' = latest + 1 /\ content'[p] = latest'
      /\ latest' \in Nat /\ content' \in [Place -> Nat]
      /\ running' \in [Place -> BOOLEAN] /\ running'[p]
      /\ \A q \in Place : q # p =>
            content'[q] = content[q] /\ running'[q] = running[q]
  BY DEF IInv, TypeOK, Start
<1>4. Forward
  BY <1>1 DEF Forward, offer
<1>5. ClientKnows'
  BY <1>1, <1>4, ClientStays
<1>6. TypeOK'
  BY <1>1, <1>3 DEF IInv, TypeOK, offer, client
<1>7. HalvesAgree'
  BY <1>1, <1>2, <1>3 DEF IInv, HalvesAgree, Startable, Fenced, offer
<1>8. OpAgrees'
  BY <1>1, <1>4, ReceiptsStay DEF IInv, OpAgrees
<1>9. PierAgrees'
  BY <1>1, <1>2, <1>3, <1>4, ReceiptsStay DEF IInv, PierAgrees, Fenced, offer
<1>10. OneCarrier'
  BY <1>1, <1>2, <1>3 DEF IInv, OneCarrier, Carries, Startable, Fenced, offer
<1> QED
  BY <1>4, <1>5, <1>6, <1>7, <1>8, <1>9, <1>10 DEF IInv

LEMMA StopInv ==
    ASSUME IInv, NEW p \in Place, Stop(p)
    PROVE  IInv' /\ Forward
<1>1. UNCHANGED <<dir, state, id, error, op, pier, content>>
      /\ UNCHANGED offer /\ UNCHANGED client /\ UNCHANGED latest
      /\ UNCHANGED faults
  BY DEF Stop, record
<1>2. /\ running' \in [Place -> BOOLEAN] /\ ~running'[p]
      /\ \A q \in Place : q # p => running'[q] = running[q]
  BY DEF IInv, TypeOK, Stop
<1>3. Forward
  BY <1>1 DEF Forward, offer
<1>4. ClientKnows'
  BY <1>1, <1>3, ClientStays
<1>5. TypeOK'
  BY <1>1, <1>2 DEF IInv, TypeOK, offer, client
<1>6. HalvesAgree'
  BY <1>1, <1>2 DEF IInv, HalvesAgree, Startable, Fenced, offer
<1>7. OpAgrees'
  BY <1>1, <1>3, ReceiptsStay DEF IInv, OpAgrees
<1>8. PierAgrees'
  BY <1>1, <1>3, ReceiptsStay DEF IInv, PierAgrees, offer
<1>9. OneCarrier'
  BY <1>1 DEF IInv, OneCarrier, Carries, Startable, Fenced, offer
<1> QED
  BY <1>3, <1>4, <1>5, <1>6, <1>7, <1>8, <1>9 DEF IInv

LEMMA PrepareFreshInv ==
    ASSUME IInv, NEW c \in Coordinator, NEW t \in Transfer, PrepareFresh(c, t)
    PROVE  IInv' /\ Forward
<1> DEFINE p == job[c].from
<1>1. /\ job[c] \in Job /\ p \in Place /\ job[c].to \in Place
      /\ ~job[c].commitment
  <2>1. job[c] \in Job /\ ~job[c].commitment
    BY Known DEF PrepareFresh
  <2> QED
    BY <2>1 DEF Job
<1>2. /\ Startable(p) /\ dir[p] \in {"none", "in"} /\ t \notin used
      /\ dir[p] = "in" => state[p] = "complete"
  BY <1>1 DEF IInv, TypeOK, PrepareFresh, Startable, Fenced
<1>3. /\ UNCHANGED files /\ UNCHANGED digest /\ UNCHANGED latest
      /\ UNCHANGED faults
  BY DEF PrepareFresh
<1>4. /\ dir' \in [Place -> {"absent", "none", "out", "in"}]
      /\ state' \in [Place -> Outgoing \cup Incoming \cup {"none"}]
      /\ id' \in [Place -> Transfer \cup {NoTransfer}]
      /\ error' \in [Place -> BOOLEAN]
      /\ op' \in [Place -> {"none", "prepare", "receive", "commit"}]
  BY <1>1 DEF IInv, TypeOK, PrepareFresh, Dispatch, Outgoing
<1>5. /\ used' \subseteq Transfer /\ used' = used \cup {t}
      /\ source' \in [Transfer -> Place] /\ destination' \in [Transfer -> Place]
  BY <1>1 DEF IInv, TypeOK, PrepareFresh
<1>6. /\ dir'[p] = "out" /\ state'[p] = "preparing" /\ id'[p] = t
      /\ op'[p] = "prepare"
  BY <1>1 DEF IInv, TypeOK, PrepareFresh, Dispatch
<1>7. \A q \in Place : q # p => /\ dir'[q] = dir[q] /\ state'[q] = state[q]
                                /\ id'[q] = id[q] /\ op'[q] = op[q]
  BY <1>1 DEF IInv, TypeOK, PrepareFresh, Dispatch
<1>8. /\ source'[t] = p /\ destination'[t] = job[c].to
      /\ \A u \in Transfer : u # t =>
            source'[u] = source[u] /\ destination'[u] = destination[u]
  BY DEF IInv, TypeOK, PrepareFresh
<1>9. Forward
  BY <1>1, <1>2, <1>5, <1>6, <1>7, <1>8 DEF Forward, IInv, TypeOK
<1>10. PICK j \in Job : /\ j = [job[c] EXCEPT !.id = t]
                        /\ j.from = p /\ j.to = job[c].to /\ j.id = t
                        /\ ~j.commitment
  <2> DEFINE k == [job[c] EXCEPT !.id = t]
  <2>1. /\ k \in Job /\ k.from = p /\ k.to = job[c].to /\ k.id = t
        /\ ~k.commitment
    BY <1>1 DEF Job
  <2> QED
    BY <2>1
<1>11. /\ pc' = [pc EXCEPT ![c] = "source"] /\ job' = [job EXCEPT ![c] = j]
       /\ "source" \in Call
  BY <1>10 DEF PrepareFresh, Call
<1>12. KnownAt("source", j)'
  BY <1>5, <1>8, <1>10 DEF KnownAt
<1>13. /\ ClientKnows'
       /\ pc' \in [Coordinator -> Call] /\ job' \in [Coordinator -> Job]
  BY <1>9, <1>11, <1>12, ClientForward
<1>14. TypeOK'
  BY <1>3, <1>4, <1>5, <1>13 DEF IInv, TypeOK, files
\* The ship was at home in p, so no transfer had left from there.
<1>15. /\ \A u \in used : source[u] # p /\ u # t /\ source[u] \in Place
                          /\ source'[u] = source[u]
                          /\ destination'[u] = destination[u]
       /\ \A q \in Place : dir[q] \in {"in", "out"} => id[q] \in used
  BY <1>2, <1>8 DEF IInv, TypeOK, HalvesAgree
<1>16. HalvesAgree'
  <2>1. \A u \in used' : dir'[source'[u]] = "out" /\ id'[source'[u]] = u
    BY <1>5, <1>6, <1>7, <1>8, <1>15 DEF IInv, HalvesAgree
  <2>2. ASSUME NEW q \in Place, q # p
        PROVE  /\ dir'[q] = "out" => /\ id'[q] \in used' /\ source'[id'[q]] = q
                                     /\ state'[q] \in Outgoing
               /\ dir'[q] = "in" => /\ id'[q] \in used'
                                    /\ destination'[id'[q]] = q
                                    /\ state'[q] \in Incoming
                                    /\ state'[source'[id'[q]]] # "preparing"
               /\ dir'[q] = "in" /\ state'[q] = "complete" =>
                     state'[source'[id'[q]]] = "moved"
               /\ dir'[q] = "absent" => ~running'[q]
               /\ running'[q] => Startable(q)'
    BY <2>2, <1>3, <1>5, <1>7, <1>15
       DEF IInv, HalvesAgree, Startable, Fenced, files
  <2>3. ~running'[p]
    BY <1>3 DEF PrepareFresh, files
  <2> QED
    BY <2>1, <2>2, <2>3, <1>5, <1>6, <1>8 DEF HalvesAgree, Outgoing
<1>17. OpAgrees'
  BY <1>6, <1>7, <1>9, ReceiptsStay DEF IInv, OpAgrees
<1>18. PierAgrees'
  BY <1>2, <1>3, <1>6, <1>7, <1>9, ReceiptsStay DEF IInv, PierAgrees, files
<1>19. OneCarrier'
  <2>1. Carries(p) /\ content[p] = latest /\ \A q \in Place : Carries(q) => q = p
    BY <1>1, <1>2 DEF IInv, OneCarrier, Carries
  <2>2. ASSUME NEW q \in Place, q # p, Carries(q)' PROVE Carries(q)
    BY <2>2, <1>7, <1>15 DEF Carries, Startable, Fenced
  <2> QED
    BY <2>1, <2>2, <1>3 DEF OneCarrier, files
<1> QED
  BY <1>9, <1>13, <1>14, <1>16, <1>17, <1>18, <1>19 DEF IInv

LEMMA ReserveFreshInv ==
    ASSUME IInv, NEW c \in Coordinator, ReserveFresh(c)
    PROVE  IInv' /\ Forward
<1> DEFINE q == job[c].to
           t == job[c].id
<1>1. q \in Place /\ t \in used /\ t \in Transfer
  BY Known DEF ReserveFresh, Job, IInv, TypeOK
<1>2. /\ destination[t] = q /\ source[t] \in Place /\ dir[source[t]] = "out"
      /\ state[source[t]] # "preparing"
  BY <1>1, Known DEF ReserveFresh, Job, IInv, TypeOK
<1>3. dir[q] = "absent" /\ source[t] # q
  BY <1>1, <1>2 DEF ReserveFresh, Collides
<1>4. /\ UNCHANGED files /\ UNCHANGED offer /\ UNCHANGED latest
      /\ UNCHANGED faults /\ UNCHANGED <<error, op>>
  BY DEF ReserveFresh
<1>5. /\ dir' \in [Place -> {"absent", "none", "out", "in"}]
      /\ state' \in [Place -> Outgoing \cup Incoming \cup {"none"}]
      /\ id' \in [Place -> Transfer \cup {NoTransfer}]
  BY <1>1 DEF IInv, TypeOK, ReserveFresh, Incoming
<1>6. dir'[q] = "in" /\ state'[q] = "reserved" /\ id'[q] = t
  BY <1>1 DEF IInv, TypeOK, ReserveFresh
<1>7. \A r \in Place : r # q => /\ dir'[r] = dir[r] /\ state'[r] = state[r]
                                /\ id'[r] = id[r]
  BY <1>1 DEF IInv, TypeOK, ReserveFresh
<1>8. Forward
  BY <1>3, <1>4, <1>7 DEF Forward, offer
<1>9. /\ ClientKnows'
      /\ pc' \in [Coordinator -> Call] /\ job' \in [Coordinator -> Job]
  BY <1>8, ContinueForward DEF ReserveFresh, Continue, Call
<1>10. TypeOK'
  BY <1>4, <1>5, <1>9 DEF IInv, TypeOK, files, offer
<1>11. /\ \A r \in Place : dir[r] \in {"in", "out"} =>
              /\ id[r] \in used /\ source[id[r]] # q /\ source[id[r]] \in Place
       /\ op[q] = "none" /\ ~running[q] /\ pier[q] = "none"
       /\ \A u \in used : source[u] # q /\ source[u] \in Place
  BY <1>1, <1>3 DEF IInv, TypeOK, HalvesAgree, OpAgrees, PierAgrees
<1>12. HalvesAgree'
  <2>1. \A u \in used' : dir'[source'[u]] = "out" /\ id'[source'[u]] = u
    BY <1>4, <1>7, <1>11 DEF IInv, HalvesAgree, offer
  <2>2. ASSUME NEW r \in Place, r # q
        PROVE  /\ dir'[r] = "out" => /\ id'[r] \in used' /\ source'[id'[r]] = r
                                     /\ state'[r] \in Outgoing
               /\ dir'[r] = "in" => /\ id'[r] \in used'
                                    /\ destination'[id'[r]] = r
                                    /\ state'[r] \in Incoming
                                    /\ state'[source'[id'[r]]] # "preparing"
               /\ dir'[r] = "in" /\ state'[r] = "complete" =>
                     state'[source'[id'[r]]] = "moved"
               /\ dir'[r] = "absent" => ~running'[r]
               /\ running'[r] => Startable(r)'
    BY <2>2, <1>4, <1>7, <1>11
       DEF IInv, HalvesAgree, Startable, Fenced, files, offer
  <2>3. /\ id'[q] \in used' /\ destination'[id'[q]] = q /\ state'[q] \in Incoming
        /\ state'[source'[id'[q]]] # "preparing"
        /\ ~running'[q] /\ dir'[q] = "in" /\ state'[q] # "complete"
    BY <1>1, <1>2, <1>3, <1>4, <1>6, <1>7, <1>11 DEF Incoming, files, offer
  <2> QED
    BY <2>1, <2>2, <2>3 DEF HalvesAgree
<1>13. OpAgrees'
  BY <1>4, <1>6, <1>7, <1>8, <1>11, ReceiptsStay DEF IInv, OpAgrees
<1>14. PierAgrees'
  BY <1>4, <1>6, <1>7, <1>8, <1>11, ReceiptsStay
     DEF IInv, PierAgrees, files, offer
<1>15. OneCarrier'
  <2>1. ASSUME NEW r \in Place, Carries(r)' PROVE Carries(r)
    BY <2>1, <1>4, <1>6, <1>7, <1>11 DEF Carries, Startable, Fenced, offer
  <2> QED
    BY <2>1, <1>4 DEF IInv, OneCarrier, files
<1> QED
  BY <1>8, <1>9, <1>10, <1>12, <1>13, <1>14, <1>15 DEF IInv

LEMMA PutInv ==
    ASSUME IInv, NEW c \in Coordinator, Put(c)
    PROVE  IInv' /\ (Forward \/ UNCHANGED <<dir, state, id>>)
<1> DEFINE q == job[c].to
<1>1. CASE Awaits(q, job[c].id)
  <2>1. q \in Place
    BY Known DEF Job
  <2>2. dir[q] = "in" /\ state[q] = "reserved" /\ op[q] = "none"
    BY <1>1 DEF Awaits, Receives
  <2>3. /\ UNCHANGED <<dir, id>> /\ UNCHANGED files /\ UNCHANGED offer
        /\ UNCHANGED latest /\ UNCHANGED faults
    BY DEF Put
  <2>4. /\ state' \in [Place -> Outgoing \cup Incoming \cup {"none"}]
        /\ op' \in [Place -> {"none", "prepare", "receive", "commit"}]
        /\ error' \in [Place -> BOOLEAN]
        /\ state'[q] = "receiving" /\ op'[q] = "receive"
        /\ \A r \in Place : r # q => state'[r] = state[r] /\ op'[r] = op[r]
    <3>1. /\ state' = [state EXCEPT ![q] = "receiving"]
          /\ op' = [op EXCEPT ![q] = "receive"]
          /\ error' = [error EXCEPT ![q] = FALSE]
      BY <1>1 DEF Put, Dispatch
    <3>2. /\ state \in [Place -> Outgoing \cup Incoming \cup {"none"}]
          /\ op \in [Place -> {"none", "prepare", "receive", "commit"}]
          /\ error \in [Place -> BOOLEAN]
      BY DEF IInv, TypeOK
    <3>3. "receiving" \in Incoming
      BY DEF Incoming
    <3> QED
      BY <2>1, <3>1, <3>2, <3>3
  <2>5. Forward
    BY <2>2, <2>3, <2>4 DEF Forward, offer
  <2>6. /\ ClientKnows'
        /\ pc' \in [Coordinator -> Call] /\ job' \in [Coordinator -> Job]
    BY <1>1, <2>5, ContinueForward DEF Put, Continue, Call
  <2>7. TypeOK'
    BY <2>3, <2>4, <2>6 DEF IInv, TypeOK, files, offer
  <2>8. \A r \in Place : dir[r] \in {"in", "out"} => source[id[r]] \in Place
    BY DEF IInv, TypeOK, HalvesAgree
  <2>9. HalvesAgree'
    BY <2>2, <2>3, <2>4, <2>8 DEF IInv, HalvesAgree, Startable, Fenced,
                                  Outgoing, Incoming, files, offer
  <2>10. OpAgrees'
    BY <2>2, <2>3, <2>4, <2>5, ReceiptsStay DEF IInv, OpAgrees
  <2>11. PierAgrees'
    BY <2>2, <2>3, <2>4, <2>5, ReceiptsStay DEF IInv, PierAgrees, files, offer
  <2>12. OneCarrier'
    BY <2>2, <2>3, <2>4, <2>8 DEF IInv, OneCarrier, Carries, Startable, Fenced,
                                  files, offer
  <2> QED
    BY <2>5, <2>6, <2>7, <2>9, <2>10, <2>11, <2>12 DEF IInv
<1>2. CASE ~Awaits(q, job[c].id)
  <2>1. OnlyClient /\ Abort(c)
    BY <1>2 DEF Put, OnlyClient, record
  <2> QED
    BY <2>1, AbortInv DEF OnlyClient, record
<1> QED
  BY <1>1, <1>2

LEMMA ActivateInv ==
    ASSUME IInv, NEW c \in Coordinator, Activate(c)
    PROVE  IInv'
<1> DEFINE q == job[c].to
<1>1. CASE /\ job[c].commitment
           /\ Receives(q, job[c].id) /\ state[q] = "received" /\ op[q] = "none"
  <2>1. q \in Place
    BY Known DEF Job
  <2>2. /\ dir[q] = "in" /\ state[q] = "received" /\ op[q] = "none"
        /\ state[source[id[q]]] = "moved"
    BY <1>1, Known DEF Receives, Activate
  <2>3. /\ UNCHANGED <<dir, id, op>> /\ UNCHANGED files /\ UNCHANGED offer
        /\ UNCHANGED latest /\ UNCHANGED faults
    BY DEF Activate
  <2>4. /\ state' \in [Place -> Outgoing \cup Incoming \cup {"none"}]
        /\ error' \in [Place -> BOOLEAN]
        /\ state'[q] = "complete"
        /\ \A r \in Place : r # q => state'[r] = state[r]
    <3>1. /\ state' = [state EXCEPT ![q] = "complete"]
          /\ error' = [error EXCEPT ![q] = FALSE]
      BY <1>1 DEF Activate
    <3> QED
      BY <2>1, <3>1 DEF IInv, TypeOK, Incoming
  <2>5. Forward
    BY <2>2, <2>3, <2>4 DEF Forward, offer
  <2>6. /\ ClientKnows'
        /\ pc' \in [Coordinator -> Call] /\ job' \in [Coordinator -> Job]
    BY <2>5, ContinueForward DEF Activate, Abort, Call
  <2>7. TypeOK'
    BY <2>3, <2>4, <2>6 DEF IInv, TypeOK, files, offer
  <2>8. \A r \in Place : dir[r] \in {"in", "out"} =>
           source[id[r]] \in Place /\ dir[source[id[r]]] = "out"
    BY DEF IInv, TypeOK, HalvesAgree
  <2>9. HalvesAgree'
    BY <2>2, <2>3, <2>4, <2>8 DEF IInv, HalvesAgree, Startable, Fenced,
                                  Outgoing, Incoming, files, offer
  <2>10. OpAgrees'
    BY <2>2, <2>3, <2>4, <2>5, ReceiptsStay DEF IInv, OpAgrees
  <2>11. PierAgrees'
    BY <2>2, <2>3, <2>4, <2>5, ReceiptsStay DEF IInv, PierAgrees, files, offer
  <2>12. OneCarrier'
    BY <2>2, <2>3, <2>4, <2>8 DEF IInv, OneCarrier, Carries, Startable, Fenced,
                                  files, offer
  <2> QED
    BY <2>6, <2>7, <2>9, <2>10, <2>11, <2>12 DEF IInv
<1>2. CASE ~(/\ job[c].commitment
             /\ Receives(q, job[c].id) /\ state[q] = "received" /\ op[q] = "none")
  <2>1. OnlyClient /\ Abort(c)
    BY <1>2 DEF Activate, OnlyClient, record
  <2> QED
    BY <2>1, AbortInv
<1> QED
  BY <1>1, <1>2

-----------------------------------------------------------------------------
(* The invariant, and what it gives *)

\* Every step of the hosts, workers, coordinators and failures preserves it.
LEMMA Inductive == IInv /\ [Next]_vars => IInv'
<1> SUFFICES ASSUME IInv, [Next]_vars PROVE IInv'
  OBVIOUS
<1>1. ASSUME NEW p \in Place,
             Start(p) \/ Stop(p) \/ Work(p) \/ Fail(p)
      PROVE  IInv'
  BY <1>1, StartInv, StopInv, ExportInv, FinishPrepareInv, StageInv, PublishInv,
     FinishReceiveInv, ArchiveInv, FinishCommitInv, FailInv DEF Work
<1>2. ASSUME NEW c \in Coordinator, ClientStep(c)
      PROVE  IInv'
  BY <1>2, PrepareFreshInv, PrepareAgainInv, PrepareRefusedInv, WaitSourceInv,
     ReserveFreshInv, ReserveAgainInv, InspectInv, RelayInv, PutInv, RetryInv,
     WaitReceivedInv, CommitInv, WaitMovedInv, ActivateInv DEF ClientStep
<1>3. ASSUME NEW c \in Coordinator, GiveUp(c)
      PROVE  IInv'
  BY <1>3, GiveUpInv
<1>4. ASSUME NEW c \in Coordinator, NEW p \in Place, NEW q \in Place,
             Begin(c, p, q)
      PROVE  IInv'
  BY <1>4, BeginInv
<1>5. ASSUME NEW n \in Runner, Crash(n)
      PROVE  IInv'
  BY <1>5, CrashInv
<1>6. CASE UNCHANGED vars
  <2>1. /\ UNCHANGED <<dir, state, id, error, op>> /\ UNCHANGED files
        /\ UNCHANGED offer /\ UNCHANGED client /\ UNCHANGED latest
        /\ UNCHANGED faults
    BY <1>6 DEF vars, record
  <2>2. HalvesAgree' /\ PierAgrees' /\ OneCarrier'
    BY <2>1, QuietStep
  <2>3. ClientKnows'
    BY <2>1, QuietForward, ClientStays
  <2>4. TypeOK'
    BY <2>1 DEF IInv, TypeOK, files, offer, client
  <2>5. OpAgrees'
    BY <2>1, QuietForward, ReceiptsStay DEF IInv, OpAgrees
  <2> QED
    BY <2>2, <2>3, <2>4, <2>5 DEF IInv
<1> QED
  BY <1>1, <1>2, <1>3, <1>4, <1>5, <1>6 DEF Next

\* The phases, piers and coordinators of a move agree in every reachable state,
\* over all hosts, places and coordinators, and after any failures.
THEOREM Invariance == Spec => []IInv
<1>1. Init => IInv
  BY InitIInv
<1>2. IInv /\ [Next]_vars => IInv'
  BY Inductive
<1> QED
  BY <1>1, <1>2, PTL DEF Spec

\* Every variable keeps its type.
THEOREM TypeCorrect == Spec => []TypeOK
<1>1. IInv => TypeOK
  BY DEF IInv
<1> QED
  BY <1>1, Invariance, PTL

LEMMA StartableCarries ==
    ASSUME IInv, NEW p \in Place, Startable(p)
    PROVE  /\ pier[p] = "mounted" /\ content[p] = latest
           /\ \A q \in Place : Carries(q) => q = p
<1>1. content[p] = latest /\ \A q \in Place : Carries(q) => q = p
  BY DEF IInv, OneCarrier, Carries
<1>2. dir[p] = "none" \/ (dir[p] = "in" /\ state[p] = "complete")
  <2>1. dir[p] \in {"absent", "none", "out", "in"}
    BY DEF IInv, TypeOK
  <2> QED
    BY <2>1 DEF Startable, Fenced
<1>3. pier[p] = "mounted"
  BY <1>2 DEF IInv, PierAgrees
<1> QED
  BY <1>1, <1>3

\* While a place can start the ship, the only mounted pier is there.
THEOREM OneMount == Spec => []OnlyCopy
<1>1. ASSUME IInv, NEW p \in Place, NEW q \in Place, Startable(p), q # p
      PROVE  pier[q] # "mounted" /\ ~Startable(q)
  <2>1. ~Carries(q) /\ ~Startable(q) /\ \A r \in Place : Carries(r) => r = p
    BY <1>1, StartableCarries DEF Carries
  <2>2. CASE dir[q] = "in"
    \* The source of what has arrived is not p, and would carry the ship.
    <3>1. /\ id[q] \in used /\ destination[id[q]] = q
          /\ source[id[q]] \in Place /\ dir[source[id[q]]] = "out"
          /\ id[source[id[q]]] = id[q]
      BY <1>1, <2>2 DEF IInv, TypeOK, HalvesAgree
    <3>2. source[id[q]] # p /\ state[source[id[q]]] = "moved"
      BY <1>1, <2>1, <3>1 DEF Carries, Startable, Fenced
    <3>3. Landed(id[q])
      BY <1>1, <3>1, <3>2 DEF IInv, PierAgrees
    <3>4. state[q] \in {"received", "complete"}
      BY <2>2, <3>1, <3>3 DEF Landed
    <3> QED
      BY <2>1, <2>2, <3>2, <3>4 DEF Carries, Startable, Fenced
  <2>3. CASE dir[q] = "out"
    <3>1. state[q] = "moved"
      BY <2>1, <2>3 DEF Carries
    <3>2. pier[q] = "archived"
      BY <1>1, <2>3, <3>1 DEF IInv, PierAgrees
    <3> QED
      BY <2>1, <3>2
  <2>4. CASE dir[q] \in {"absent", "none"}
    BY <1>1, <2>1, <2>4 DEF IInv, PierAgrees, Startable, Fenced
  <2> QED
    BY <1>1, <2>2, <2>3, <2>4 DEF IInv, TypeOK
<1>2. IInv => OnlyCopy
  BY <1>1 DEF OnlyCopy
<1> QED
  BY <1>2, Invariance, PTL

\* A place that can start the ship holds its newest content.
THEOREM Current == Spec => []CurrentCopy
<1>1. IInv => CurrentCopy
  BY StartableCarries DEF CurrentCopy
<1> QED
  BY <1>1, Invariance, PTL

\* The source gives up its copy only after a verified receipt.
THEOREM ArchivedLate == Spec => []ArchivedAfterReceipt
<1>1. IInv => ArchivedAfterReceipt
  BY DEF IInv, TypeOK, HalvesAgree, PierAgrees, ArchivedAfterReceipt, Outgoing
<1> QED
  BY <1>1, Invariance, PTL

-----------------------------------------------------------------------------
(* What a step may never do *)

\* A step that leaves directions, phases and transfers alone.
LEMMA SameForward ==
    ASSUME IInv, UNCHANGED <<dir, state, id>>, UNCHANGED offer,
           NEW p \in Place
    PROVE  /\ dir[p] = "out" =>
                 /\ dir'[p] = "out" /\ id'[p] = id[p]
                 /\ destination'[id[p]] = destination[id[p]]
           /\ dir[p] \in {"in", "out"} /\ dir'[p] = dir[p] =>
                 id'[p] = id[p] /\ Rank(state[p]) <= Rank(state'[p])
<1>1. Rank(state[p]) \in Nat
  BY DEF Rank
<1> QED
  BY <1>1 DEF offer

\* A phase that advances in one place.
LEMMA OneForward ==
    ASSUME IInv, UNCHANGED <<dir, id>>, UNCHANGED offer, NEW q \in Place,
           NEW phase \in Outgoing \cup Incoming,
           state' = [state EXCEPT ![q] = phase],
           Rank(state[q]) <= Rank(phase), NEW p \in Place
    PROVE  /\ dir[p] = "out" =>
                 /\ dir'[p] = "out" /\ id'[p] = id[p]
                 /\ destination'[id[p]] = destination[id[p]]
           /\ dir[p] \in {"in", "out"} /\ dir'[p] = dir[p] =>
                 id'[p] = id[p] /\ Rank(state[p]) <= Rank(state'[p])
<1>1. state'[p] = IF p = q THEN phase ELSE state[p]
  BY DEF IInv, TypeOK
<1>2. Rank(state[p]) \in Nat
  BY DEF Rank
<1> QED
  BY <1>1, <1>2 DEF offer

\* Fences stay closed and phases only advance.
LEMMA StepForward ==
    ASSUME IInv, [Next]_vars, NEW p \in Place
    PROVE  /\ dir[p] = "out" =>
                 /\ dir'[p] = "out" /\ id'[p] = id[p]
                 /\ destination'[id[p]] = destination[id[p]]
           /\ dir[p] \in {"in", "out"} /\ dir'[p] = dir[p] =>
                 id'[p] = id[p] /\ Rank(state[p]) <= Rank(state'[p])
<1> DEFINE Goal == /\ dir[p] = "out" =>
                         /\ dir'[p] = "out" /\ id'[p] = id[p]
                         /\ destination'[id[p]] = destination[id[p]]
                   /\ dir[p] \in {"in", "out"} /\ dir'[p] = dir[p] =>
                         id'[p] = id[p] /\ Rank(state[p]) <= Rank(state'[p])
<1>1. CASE UNCHANGED <<dir, state, id>> /\ UNCHANGED offer
  BY <1>1, SameForward
<1>2. ASSUME NEW q \in Place, Work(q) PROVE Goal
  <2>1. CASE Export(q)
    \* Only the digest of the offer changes.
    <3>1. /\ UNCHANGED <<dir, state, id, destination>> /\ Rank(state[p]) \in Nat
      BY <2>1 DEF Export, record, Rank
    <3> QED
      BY <3>1
  <2>2. CASE FinishPrepare(q)
    <3>1. state[q] = "preparing"
      BY <2>2 DEF IInv, OpAgrees, FinishPrepare
    <3>2. Rank(state[q]) <= Rank("ready") /\ "ready" \in Outgoing
      BY <3>1 DEF Rank, Outgoing
    <3> QED
      BY <2>2, <3>2, OneForward DEF FinishPrepare, Finish
  <2>3. CASE FinishReceive(q)
    <3>1. state[q] = "receiving"
      BY <2>3 DEF IInv, OpAgrees, FinishReceive
    <3>2. Rank(state[q]) <= Rank("received") /\ "received" \in Incoming
      BY <3>1 DEF Rank, Incoming
    <3> QED
      BY <2>3, <3>2, OneForward DEF FinishReceive, Finish
  <2>4. CASE FinishCommit(q)
    <3>1. state[q] = "ready"
      BY <2>4 DEF IInv, OpAgrees, FinishCommit
    <3>2. Rank(state[q]) <= Rank("moved") /\ "moved" \in Outgoing
      BY <3>1 DEF Rank, Outgoing
    <3> QED
      BY <2>4, <3>2, OneForward DEF FinishCommit, Finish
  <2>5. CASE Stage(q) \/ Publish(q) \/ Archive(q)
    BY <2>5, <1>1 DEF Stage, Publish, Archive, record
  <2> QED
    BY <1>2, <2>1, <2>2, <2>3, <2>4, <2>5 DEF Work
<1>3. ASSUME NEW c \in Coordinator, ClientStep(c) PROVE Goal
  <2>1. ASSUME NEW t \in Transfer, PrepareFresh(c, t) PROVE Goal
    <3> DEFINE s == job[c].from
    <3>1. s \in Place /\ dir[s] # "out" /\ dir'[s] = "out" /\ t \notin used
      <4>1. s \in Place
        BY Known DEF Job
      <4> QED
        BY <2>1, <4>1 DEF PrepareFresh, Startable, Fenced, IInv, TypeOK
    <3>2. p # s => dir'[p] = dir[p] /\ id'[p] = id[p] /\ state'[p] = state[p]
      BY <2>1 DEF PrepareFresh, IInv, TypeOK
    <3>3. dir[p] = "out" =>
             p # s /\ id[p] # t /\ destination'[id[p]] = destination[id[p]]
      BY <2>1, <3>1 DEF PrepareFresh, IInv, TypeOK, HalvesAgree
    <3>4. Rank(state[p]) \in Nat
      BY DEF Rank
    <3> HIDE DEF s
    <3> QED
      BY <3>1, <3>2, <3>3, <3>4
  <2>2. CASE ReserveFresh(c)
    <3>1. job[c].to \in Place /\ dir[job[c].to] = "absent"
      BY <2>2, Known DEF ReserveFresh, Collides, Job
    <3>2. /\ p # job[c].to => dir'[p] = dir[p] /\ id'[p] = id[p]
                              /\ state'[p] = state[p]
          /\ destination' = destination /\ Rank(state[p]) \in Nat
      BY <2>2, <3>1 DEF ReserveFresh, IInv, TypeOK, offer, Rank
    <3> QED
      BY <3>1, <3>2
  <2>3. CASE Put(c)
    <3>1. CASE Awaits(job[c].to, job[c].id)
      <4>1. job[c].to \in Place
        BY Known DEF Job
      <4>2. state[job[c].to] = "reserved"
        BY <3>1 DEF Awaits
      <4>3. Rank(state[job[c].to]) <= Rank("receiving")
            /\ "receiving" \in Incoming
        BY <4>2 DEF Rank, Incoming
      <4> QED
        BY <2>3, <3>1, <4>1, <4>3, OneForward DEF Put
    <3> QED
      BY <2>3, <3>1, <1>1 DEF Put
  <2>4. CASE Activate(c)
    <3>1. CASE state' = [state EXCEPT ![job[c].to] = "complete"]
      <4>1. job[c].to \in Place
        BY Known DEF Job
      <4>2. Rank(state[job[c].to]) <= Rank("complete")
            /\ "complete" \in Incoming
        BY DEF Rank, Incoming
      <4> QED
        BY <2>4, <3>1, <4>1, <4>2, OneForward DEF Activate
    <3> QED
      BY <2>4, <3>1, <1>1 DEF Activate
  <2>5. CASE \/ PrepareAgain(c) \/ Retry(c) \/ Commit(c)
    BY <2>5, <1>1 DEF PrepareAgain, Retry, Commit
  <2>6. CASE OnlyClient
    BY <2>6, <1>1 DEF OnlyClient, record
  <2> QED
    BY <1>3, <2>1, <2>2, <2>3, <2>4, <2>5, <2>6
       DEF ClientStep, PrepareRefused, WaitSource, ReserveAgain, Inspect, Relay,
           WaitReceived, WaitMoved
<1>4. ASSUME NEW q \in Place, Start(q) \/ Stop(q) \/ Fail(q) PROVE Goal
  BY <1>4, <1>1 DEF Start, Stop, Fail, record
<1>5. ASSUME NEW c \in Coordinator, GiveUp(c) PROVE Goal
  BY <1>5, <1>1 DEF GiveUp, record
<1>6. ASSUME NEW c \in Coordinator, NEW q \in Place, NEW r \in Place,
             Begin(c, q, r)
      PROVE  Goal
  BY <1>6, <1>1 DEF Begin, OnlyClient, record
<1>7. ASSUME NEW n \in Runner, Crash(n) PROVE Goal
  BY <1>7, <1>1 DEF Crash
<1>8. CASE UNCHANGED vars
  BY <1>8, <1>1 DEF vars, record
<1> QED
  BY <1>2, <1>3, <1>4, <1>5, <1>6, <1>7, <1>8 DEF Next

\* A fenced source stays fenced for its one destination, and no half of a
\* transfer goes back to an earlier phase.
THEOREM Forwards == Spec => ForwardOnly
<1>1. IInv /\ [Next]_vars =>
        \A p \in Place :
          /\ dir[p] = "out" =>
                /\ dir'[p] = "out" /\ id'[p] = id[p]
                /\ destination'[id[p]] = destination[id[p]]
          /\ dir[p] \in {"in", "out"} /\ dir'[p] = dir[p] =>
                id'[p] = id[p] /\ Rank(state[p]) <= Rank(state'[p])
  BY StepForward
<1> QED
  BY <1>1, Invariance, PTL DEF Spec, ForwardOnly

-----------------------------------------------------------------------------
(* The handoff keeps the ship in one home *)

\* The content of the place that may run the ship.
Opened == [p \in Place |-> IF Startable(p) THEN content[p] ELSE 0]

\* Steps that open and close no place.
StillHome == Opened' = Opened /\ latest' = latest

LEMMA SameHome ==
    ASSUME UNCHANGED latest,
           \A p \in Place : /\ Startable(p)' <=> Startable(p)
                            /\ Startable(p) => content'[p] = content[p]
    PROVE  StillHome
BY DEF StillHome, Opened

\* Directions and phases that change only behind a fence.
LEMMA StillFenced ==
    ASSUME UNCHANGED dir, UNCHANGED content, UNCHANGED latest,
           \A p \in Place : dir[p] = "in" =>
              (state'[p] = "complete" <=> state[p] = "complete")
    PROVE  StillHome
<1>1. \A p \in Place : Startable(p)' <=> Startable(p)
  BY DEF Startable, Fenced
<1> QED
  BY <1>1, SameHome

\* The only place that may run the ship.
LEMMA OpenedOnce ==
    ASSUME IInv, NEW p \in Place, Startable(p)
    PROVE  Opened = Abstract!OpenAt(p)
<1>1. content[p] = latest /\ \A q \in Place : Startable(q) => q = p
  BY StartableCarries DEF Carries
<1> QED
  BY <1>1 DEF Opened, Abstract!OpenAt, Abstract!Closed

LEMMA InitImplements == Init => Abstract!Init
<1> SUFFICES ASSUME Init PROVE Abstract!Init
  OBVIOUS
<1>1. \A p \in Place : Startable(p) <=> p = Home
  BY DEF Init, Startable, Fenced
<1> QED
  BY <1>1, Constants DEF Init, Abstract!Init, Abstract!Closed

LEMMA StartImplements ==
    ASSUME IInv, NEW p \in Place, Start(p)
    PROVE  Abstract!Run(p)
<1>1. Opened = Abstract!OpenAt(p)
  BY OpenedOnce DEF Start
<1>2. \A q \in Place : (Startable(q)' <=> Startable(q))
                       /\ (Startable(q) <=> q = p)
  BY StartableCarries DEF Carries, Start, Startable, Fenced, record
<1>3. content'[p] = latest + 1 /\ latest' = latest + 1
  BY DEF IInv, TypeOK, Start
<1>4. Opened' = [Abstract!Closed EXCEPT ![p] = latest + 1]
  BY <1>2, <1>3 DEF Opened, Abstract!Closed
<1> QED
  BY <1>1, <1>3, <1>4 DEF Opened, Abstract!Run

LEMMA PrepareImplements ==
    ASSUME IInv, NEW c \in Coordinator, NEW t \in Transfer, PrepareFresh(c, t)
    PROVE  \E p \in Place : Abstract!Close(p)
<1> DEFINE p == job[c].from
<1>1. p \in Place
  BY Known DEF Job
<1>2. Opened = Abstract!OpenAt(p)
  BY <1>1, OpenedOnce DEF PrepareFresh
<1>3. \A q \in Place : Startable(q) => q = p
  BY <1>1, StartableCarries DEF PrepareFresh, Carries
<1>4. \A q \in Place : ~Startable(q)'
  <2>1. dir'[p] = "out"
    BY <1>1 DEF IInv, TypeOK, PrepareFresh
  <2>2. \A q \in Place : q # p => dir'[q] = dir[q] /\ state'[q] = state[q]
    BY DEF IInv, TypeOK, PrepareFresh
  <2> QED
    BY <1>3, <2>1, <2>2 DEF Startable, Fenced
<1>5. Opened' = Abstract!Closed
  BY <1>4 DEF Opened, Abstract!Closed
<1>6. latest' = latest
  BY DEF PrepareFresh
<1> HIDE DEF p
<1> QED
  BY <1>1, <1>2, <1>5, <1>6 DEF Opened, Abstract!Close

LEMMA ActivateImplements ==
    ASSUME IInv, NEW c \in Coordinator, Activate(c)
    PROVE  \/ \E p \in Place : Abstract!Open(p)
           \/ StillHome
<1>1. CASE /\ job[c].commitment
           /\ Receives(job[c].to, job[c].id) /\ state[job[c].to] = "received"
           /\ op[job[c].to] = "none"
  <2>1. PICK q \in Place : q = job[c].to
    BY Known DEF Job
  <2>2. /\ dir[q] = "in" /\ state[q] = "received"
        /\ state[source[id[q]]] = "moved"
    BY <1>1, <2>1, Known DEF Receives, Activate
  <2>3. Carries(q) /\ ~Startable(q)
    BY <2>2 DEF Carries, Startable, Fenced
  <2>4. content[q] = latest /\ \A r \in Place : ~Startable(r)
    BY <2>3 DEF IInv, OneCarrier, Carries
  <2>5. /\ UNCHANGED dir /\ UNCHANGED content /\ UNCHANGED latest
        /\ state' = [state EXCEPT ![q] = "complete"]
    BY <1>1, <2>1 DEF Activate, files
  <2>6. \A r \in Place : Startable(r)' <=> r = q
    <3>1. state'[q] = "complete" /\ \A r \in Place : r # q => state'[r] = state[r]
      BY <2>5 DEF IInv, TypeOK
    <3> QED
      BY <2>2, <2>4, <2>5, <3>1 DEF Startable, Fenced
  <2>7. Opened = Abstract!Closed
    BY <2>4 DEF Opened, Abstract!Closed
  <2>8. Opened' = Abstract!OpenAt(q)
    BY <2>4, <2>5, <2>6 DEF Opened, Abstract!OpenAt, Abstract!Closed
  <2> QED
    BY <2>5, <2>7, <2>8 DEF Opened, Abstract!Open
<1>2. CASE UNCHANGED state
  BY <1>2, StillFenced DEF Activate, files
<1> QED
  BY <1>1, <1>2 DEF Activate

\* A worker's step opens nothing.
LEMMA WorkImplements ==
    ASSUME IInv, NEW p \in Place, Work(p)
    PROVE  StillHome
<1>1. CASE Export(p)
  BY <1>1, StillFenced DEF Export, record, files
<1>2. CASE Publish(p) \/ Archive(p)
  BY <1>2, StillFenced DEF Publish, Archive, record
<1>3. CASE Stage(p)
  <2>1. ~Startable(p)
    BY <1>3 DEF IInv, OpAgrees, Stage, Startable, Fenced
  <2>2. \A q \in Place : q # p => content'[q] = content[q]
    BY <1>3 DEF IInv, TypeOK, Stage
  <2>3. \A q \in Place : Startable(q)' <=> Startable(q)
    BY <1>3 DEF Stage, record, Startable, Fenced
  <2> QED
    BY <1>3, <2>1, <2>2, <2>3, SameHome DEF Stage
<1>4. ASSUME NEW phase \in {"ready", "received", "moved"},
             Finish(p, phase), dir[p] = "out" \/ state[p] = "receiving",
             UNCHANGED dir, UNCHANGED files, UNCHANGED latest
      PROVE  StillHome
  <2>1. \A q \in Place : state'[q] = IF q = p THEN phase ELSE state[q]
    BY <1>4 DEF IInv, TypeOK, Finish
  <2>2. \A q \in Place : dir[q] = "in" =>
           (state'[q] = "complete" <=> state[q] = "complete")
    BY <1>4, <2>1
  <2> QED
    BY <1>4, <2>2, StillFenced DEF files
<1>5. CASE FinishPrepare(p) \/ FinishReceive(p) \/ FinishCommit(p)
  BY <1>4, <1>5 DEF FinishPrepare, FinishReceive, FinishCommit, IInv, OpAgrees
<1> QED
  BY <1>1, <1>2, <1>3, <1>5 DEF Work

\* A coordinator's other calls open nothing.
LEMMA CallImplements ==
    ASSUME IInv, NEW c \in Coordinator,
           \/ PrepareAgain(c) \/ Retry(c) \/ Commit(c)
           \/ ReserveFresh(c) \/ Put(c) \/ OnlyClient
    PROVE  StillHome
<1>1. CASE PrepareAgain(c) \/ Retry(c) \/ Commit(c) \/ OnlyClient
  BY <1>1, StillFenced
     DEF PrepareAgain, Retry, Commit, OnlyClient, record, files
<1>2. CASE ReserveFresh(c)
  <2>1. PICK q \in Place : q = job[c].to
    BY Known DEF Job
  <2>2. /\ dir[q] = "absent" /\ dir'[q] = "in" /\ state'[q] = "reserved"
        /\ \A r \in Place : r # q => dir'[r] = dir[r] /\ state'[r] = state[r]
    BY <1>2, <2>1 DEF ReserveFresh, Collides, IInv, TypeOK
  <2>3. \A r \in Place : Startable(r)' <=> Startable(r)
    BY <2>2 DEF Startable, Fenced
  <2> QED
    BY <1>2, <2>3, SameHome DEF ReserveFresh, files
<1>3. CASE Put(c)
  <2>1. CASE UNCHANGED state
    BY <1>3, <2>1, StillFenced DEF Put, files
  <2>2. CASE Awaits(job[c].to, job[c].id)
    <3>1. PICK q \in Place : q = job[c].to
      BY Known DEF Job
    <3>2. /\ state[q] = "reserved" /\ state'[q] = "receiving"
          /\ \A r \in Place : r # q => state'[r] = state[r]
      BY <1>3, <2>2, <3>1 DEF Put, Awaits, IInv, TypeOK
    <3>3. \A r \in Place : dir[r] = "in" =>
             (state'[r] = "complete" <=> state[r] = "complete")
      BY <3>2
    <3> QED
      BY <1>3, <3>3, StillFenced DEF Put, files
  <2> QED
    BY <1>3, <2>1, <2>2 DEF Put
<1> QED
  BY <1>1, <1>2, <1>3

LEMMA StepImplements ==
    ASSUME IInv, [Next]_vars
    PROVE  \/ Abstract!Next
           \/ StillHome
<1>1. ASSUME NEW p \in Place, Start(p)
      PROVE  Abstract!Next
  BY <1>1, StartImplements DEF Abstract!Next
<1>2. ASSUME NEW c \in Coordinator, NEW t \in Transfer, PrepareFresh(c, t)
      PROVE  Abstract!Next
  BY <1>2, PrepareImplements DEF Abstract!Next
<1>3. ASSUME NEW c \in Coordinator, ClientStep(c) \/ GiveUp(c)
      PROVE  Abstract!Next \/ StillHome
  <2>1. CASE Activate(c)
    BY <2>1, ActivateImplements DEF Abstract!Next
  <2>2. CASE GiveUp(c)
    BY <2>2, StillFenced DEF GiveUp, record, files
  <2>3. CASE \/ PrepareAgain(c) \/ Retry(c) \/ Commit(c)
             \/ ReserveFresh(c) \/ Put(c) \/ OnlyClient
    BY <2>3, CallImplements
  <2> QED
    BY <1>2, <1>3, <2>1, <2>2, <2>3
       DEF ClientStep, PrepareRefused, WaitSource, ReserveAgain, Inspect, Relay,
           WaitReceived, WaitMoved
<1>4. ASSUME NEW p \in Place, Stop(p) \/ Work(p) \/ Fail(p)
      PROVE  StillHome
  BY <1>4, WorkImplements, StillFenced DEF Stop, Fail, record, files
<1>5. ASSUME NEW c \in Coordinator, NEW p \in Place, NEW q \in Place,
             Begin(c, p, q)
      PROVE  StillHome
  BY <1>5, StillFenced DEF Begin, OnlyClient, record, files
<1>6. ASSUME NEW n \in Runner, Crash(n)
      PROVE  StillHome
  BY <1>6, StillFenced DEF Crash, files
<1>7. CASE UNCHANGED vars
  BY <1>7, StillFenced DEF vars, record, files
<1> QED
  BY <1>1, <1>3, <1>4, <1>5, <1>6, <1>7 DEF Next

\* A handoff between any hosts, with any failures and any number of clients,
\* never gives the ship a second home or an older content.
THEOREM Implements == Spec => ImplementsSingleHome
<1>1. Init => Abstract!Init
  BY InitImplements
<1>2. IInv /\ [Next]_vars => [Abstract!Next]_(Abstract!vars)
  BY StepImplements DEF Abstract!vars, StillHome, Opened
<1> QED
  BY <1>1, <1>2, Invariance, PTL DEF Spec, ImplementsSingleHome, Abstract!Spec

-----------------------------------------------------------------------------
(* The ship is never lost *)

\* Steps other than fencing a source, reserving and beginning a move.
LEMMA OrdinaryStep ==
    ASSUME IInv, [Next]_vars,
           \A c \in Coordinator :
              /\ ~ReserveFresh(c) /\ \A t \in Transfer : ~PrepareFresh(c, t)
              /\ \A p, q \in Place : ~Begin(c, p, q)
    PROVE  /\ UNCHANGED <<dir, id, used, source, destination>>
           /\ \A c \in Coordinator : pc'[c] = "prepare" =>
                 pc[c] = "prepare" /\ job'[c] = job[c]
<1>1. ASSUME NEW p \in Place, Start(p) \/ Stop(p) \/ Work(p) \/ Fail(p)
      PROVE  UNCHANGED <<dir, id, used, source, destination, pc, job>>
  BY <1>1 DEF Start, Stop, Work, Fail, Export, FinishPrepare, Stage, Publish,
              FinishReceive, Archive, FinishCommit, record, offer, client
<1>2. ASSUME NEW n \in Runner, Crash(n)
      PROVE  UNCHANGED <<dir, id, used, source, destination, pc, job>>
  BY <1>2 DEF Crash, offer, client
<1>3. ASSUME NEW c \in Coordinator, ClientStep(c) \/ GiveUp(c)
      PROVE  /\ UNCHANGED <<dir, id, used, source, destination>>
             /\ \A d \in Coordinator : d # c => pc'[d] = pc[d] /\ job'[d] = job[d]
             /\ pc'[c] # "prepare"
  <2>1. \A d \in Coordinator : d # c => pc'[d] = pc[d] /\ job'[d] = job[d]
    BY <1>3 DEF ClientStep, GiveUp, PrepareAgain, PrepareRefused, WaitSource,
                ReserveAgain, Inspect, Relay, Put, Retry, WaitReceived, Commit,
                WaitMoved, Activate, Abort, Continue, IInv, TypeOK
  <2>2. UNCHANGED <<dir, id, used, source, destination>>
    BY <1>3 DEF ClientStep, GiveUp, PrepareAgain, PrepareRefused, WaitSource,
                ReserveAgain, Inspect, Relay, Put, Retry, WaitReceived, Commit,
                WaitMoved, Activate, OnlyClient, record, offer
  <2>3. pc'[c] # "prepare"
    BY <1>3 DEF ClientStep, GiveUp, PrepareAgain, PrepareRefused, WaitSource,
                ReserveAgain, Inspect, Relay, Put, Retry, WaitReceived, Commit,
                WaitMoved, Activate, Abort, Continue, IInv, TypeOK
  <2> QED
    BY <2>1, <2>2, <2>3
<1>4. CASE UNCHANGED vars
  BY <1>4 DEF vars, record, offer, client
<1> QED
  BY <1>1, <1>2, <1>3, <1>4 DEF Next

\* A committed source stays committed.
LEMMA MovedStays ==
    ASSUME IInv, [Next]_vars, NEW t \in used, state[source[t]] = "moved",
           NEW p, p = source[t]
    PROVE  state'[p] = "moved"
<1>1. p \in Place /\ dir[p] = "out" /\ state[p] = "moved"
  BY DEF IInv, TypeOK, HalvesAgree
<1>2. dir'[p] = "out" /\ Rank(state[p]) <= Rank(state'[p])
  BY <1>1, StepForward
<1>3. state'[p] \in Outgoing
  BY <1>1, <1>2, Inductive DEF IInv, HalvesAgree
<1>4. Rank("moved") = 3 /\ Rank("ready") = 2 /\ Rank("preparing") = 1
  BY DEF Rank
<1> QED
  BY <1>1, <1>2, <1>3, <1>4 DEF Outgoing

\* When a carrier is fenced, every other place is free or fenced.
LEMMA OthersGone ==
    ASSUME IInv, NEW p \in Place, Startable(p), NEW r \in Place, r # p
    PROVE  dir[r] \in {"absent", "out"}
<1>1. \A q \in Place : Carries(q) => q = p
  BY StartableCarries
<1>2. \A u \in used : source[u] # p /\ state[source[u]] = "moved"
                      /\ source[u] \in Place /\ u \in Transfer
  BY <1>1 DEF IInv, TypeOK, HalvesAgree, Carries, Startable, Fenced
<1>3. ASSUME dir[r] = "in" PROVE FALSE
  <2>1. id[r] \in used /\ destination[id[r]] = r
    BY <1>3 DEF IInv, HalvesAgree
  <2>2. Landed(id[r])
    BY <1>2, <2>1 DEF IInv, HalvesAgree, PierAgrees
  <2>3. state[r] \in {"received", "complete"}
    BY <1>3, <2>1, <2>2 DEF Landed
  <2> QED
    BY <1>1, <1>2, <1>3, <2>1, <2>3 DEF Carries, Startable, Fenced
<1>4. ASSUME dir[r] = "none" PROVE FALSE
  BY <1>1, <1>4 DEF Carries, Startable, Fenced
<1> QED
  BY <1>3, <1>4 DEF IInv, TypeOK

LEMMA InitNoReturn == Init => NoReturn
BY DEF Init, NoReturn

LEMMA NoReturnStep ==
    ASSUME IInv, NoReturn, [Next]_vars
    PROVE  NoReturn'
<1>1. CASE \A c \in Coordinator :
              /\ ~ReserveFresh(c) /\ \A t \in Transfer : ~PrepareFresh(c, t)
              /\ \A p, q \in Place : ~Begin(c, p, q)
  <2>1. /\ UNCHANGED <<dir, id, used, source, destination>>
        /\ \A c \in Coordinator : pc'[c] = "prepare" =>
              pc[c] = "prepare" /\ job'[c] = job[c]
    BY <1>1, OrdinaryStep
  <2>2. \A t \in used : state[source[t]] = "moved" => state'[source[t]] = "moved"
    BY MovedStays
  <2> QED
    BY <2>1, <2>2 DEF NoReturn
<1>2. ASSUME NEW c \in Coordinator, ReserveFresh(c) PROVE NoReturn'
  <2>1. PICK q \in Place : q = job[c].to
    BY Known DEF Job
  <2>2. /\ dir[q] = "absent" /\ dir' = [dir EXCEPT ![q] = "in"]
        /\ state' = [state EXCEPT ![q] = "reserved"]
        /\ UNCHANGED <<used, source, destination, job>>
        /\ pc' = [pc EXCEPT ![c] = "inspect"]
    BY <1>2, <2>1 DEF ReserveFresh, Collides, Continue, offer
  <2>3. \A r \in Place : dir'[r] = IF r = q THEN "in" ELSE dir[r]
    BY <2>2 DEF IInv, TypeOK
  <2>4. \A t \in used : /\ source[t] # q /\ state'[source[t]] = state[source[t]]
                        /\ destination[t] \in Place
    BY <2>2 DEF IInv, TypeOK, HalvesAgree
  <2>5. \A d \in Coordinator :
           /\ pc'[d] = "prepare" => pc[d] = "prepare"
           /\ job[d].from \in Place /\ job[d].to \in Place
    BY <2>2, Known DEF IInv, TypeOK, Job
  <2> QED
    BY <2>2, <2>3, <2>4, <2>5 DEF NoReturn
<1>3. ASSUME NEW c \in Coordinator, NEW p \in Place, NEW q \in Place,
             Begin(c, p, q)
      PROVE  NoReturn'
  <2>1. /\ UNCHANGED <<dir, state, used, source, destination>>
        /\ p # q /\ dir[p] # "absent" /\ dir[q] # "out"
    BY <1>3 DEF Begin, Accepts, OnlyClient, record, offer
  <2>2. job'[c].from = p /\ job'[c].to = q
    BY <1>3 DEF Begin, IInv, TypeOK
  <2>3. \A d \in Coordinator : d # c => pc'[d] = pc[d] /\ job'[d] = job[d]
    BY <1>3 DEF Begin, IInv, TypeOK
  <2> QED
    BY <2>1, <2>2, <2>3 DEF NoReturn
<1>4. ASSUME NEW c \in Coordinator, NEW t \in Transfer, PrepareFresh(c, t)
      PROVE  NoReturn'
  <2>1. PICK p \in Place, q \in Place : p = job[c].from /\ q = job[c].to
    BY Known DEF Job
  <2>2. /\ Startable(p) /\ dir[p] # "out" /\ dir[q] # "out" /\ p # q /\ t \notin used
    BY <1>4, <2>1 DEF PrepareFresh, Startable, Fenced, NoReturn
  <2>3. /\ \A r \in Place : r # p => dir'[r] = dir[r] /\ state'[r] = state[r]
        /\ dir'[p] = "out" /\ state'[p] = "preparing"
        /\ used' = used \cup {t} /\ source'[t] = p /\ destination'[t] = q
        /\ \A u \in Transfer : u # t =>
              source'[u] = source[u] /\ destination'[u] = destination[u]
        /\ pc'[c] = "source"
        /\ \A d \in Coordinator : d # c => pc'[d] = pc[d] /\ job'[d] = job[d]
    BY <1>4, <2>1 DEF PrepareFresh, IInv, TypeOK
  <2>4. \A r \in Place : Carries(r) => r = p
    BY <2>2, StartableCarries
  \* Every earlier transfer is committed: its source would carry the ship.
  <2>5. \A u \in used : source[u] # p /\ state[source[u]] = "moved"
                        /\ source[u] \in Place /\ u \in Transfer /\ u # t
    BY <2>2, <2>4 DEF IInv, TypeOK, HalvesAgree, Carries
  <2>6. \A r \in Place : r # p => dir[r] \in {"absent", "out"}
    BY <2>2, OthersGone
  <2>7. \A u \in used' :
           state'[source'[u]] # "moved" => dir'[destination'[u]] # "out"
    BY <2>2, <2>3, <2>5
  <2>8. ASSUME NEW d \in Coordinator, pc'[d] = "prepare"
        PROVE  /\ job'[d].from # job'[d].to /\ dir'[job'[d].from] # "absent"
               /\ dir'[job'[d].from] # "out" => dir'[job'[d].to] # "out"
    <3>1. d # c /\ pc[d] = "prepare" /\ job'[d] = job[d]
      BY <2>3, <2>8
    <3>2. job[d].from \in Place /\ dir[job[d].from] # "absent"
          /\ job[d].from # job[d].to
      BY <3>1, Known DEF NoReturn, Job
    <3>3. dir'[job[d].from] = "out"
      BY <2>2, <2>3, <2>6, <3>2
    <3> QED
      BY <3>1, <3>2, <3>3
  <2> QED
    BY <2>7, <2>8 DEF NoReturn
<1> QED
  BY <1>1, <1>2, <1>3, <1>4

\* The stronger invariant, in every reachable state.
LEMMA FullInvariance == Spec => []FullInv
<1>1. Init => FullInv
  BY InitIInv, InitNoReturn DEF FullInv
<1>2. FullInv /\ [Next]_vars => FullInv'
  BY Inductive, NoReturnStep DEF FullInv
<1> QED
  BY <1>1, <1>2, PTL DEF Spec

\* Only the end of a commit takes the ship away from the place that carries it,
\* and then the destination carries it.
LEMMA CarrierStays ==
    ASSUME IInv, NoReturn, [Next]_vars, NEW p \in Place, Carries(p)
    PROVE  \E q \in Place : Carries(q)'
<1>1. CASE UNCHANGED <<dir, id, used, source, destination>>
  <2>1. IInv'
    BY Inductive
  <2>2. CASE Startable(p)
    <3>1. dir[p] = "none" \/ (dir[p] = "in" /\ state[p] = "complete")
      <4>1. dir[p] \in {"absent", "none", "out", "in"}
        BY DEF IInv, TypeOK
      <4> QED
        BY <2>2, <4>1 DEF Startable, Fenced
    <3>2. dir[p] = "in" => /\ state'[p] \in Incoming
                           /\ Rank(state[p]) <= Rank(state'[p])
      BY <1>1, <2>1, StepForward DEF IInv, HalvesAgree
    <3>3. dir[p] = "in" => state'[p] = "complete"
      BY <3>1, <3>2 DEF Rank, Incoming
    <3> QED
      BY <1>1, <3>1, <3>3 DEF Carries, Startable, Fenced
  <2>3. CASE dir[p] = "out" /\ state[p] # "moved"
    <3>1. CASE state'[p] # "moved"
      BY <1>1, <2>3, <3>1 DEF Carries
    <3>2. CASE state'[p] = "moved"
      <4>1. PICK t \in used : t = id[p] /\ source[t] = p
        BY <2>3 DEF IInv, HalvesAgree
      <4>2. PICK q \in Place : q = destination[t]
        BY <4>1 DEF IInv, TypeOK
      <4>3. dir[q] # "out"
        BY <2>3, <4>1, <4>2 DEF NoReturn
      <4>4. Landed(id[p])'
        BY <1>1, <2>1, <2>3, <3>2 DEF IInv, PierAgrees
      <4>5. dir'[q] = "in" /\ id'[q] = t /\ state'[q] \in {"received", "complete"}
        BY <1>1, <4>1, <4>2, <4>3, <4>4 DEF Landed, Receives
      <4> QED
        BY <1>1, <3>2, <4>1, <4>5 DEF Carries, Startable, Fenced
    <3> QED
      BY <3>1, <3>2
  <2>4. CASE /\ dir[p] = "in" /\ state[p] = "received"
             /\ state[source[id[p]]] = "moved"
    <3>1. PICK t \in used : t = id[p]
      BY <2>4 DEF IInv, HalvesAgree
    <3>2. PICK s \in Place : s = source[t]
      BY <3>1 DEF IInv, TypeOK
    <3>3. state'[s] = "moved"
      BY <2>4, <3>1, <3>2, MovedStays
    <3>4. /\ state'[p] \in Incoming
          /\ Rank(state[p]) <= Rank(state'[p])
      BY <1>1, <2>1, <2>4, StepForward DEF IInv, HalvesAgree
    <3>5. state'[p] \in {"received", "complete"}
      BY <2>4, <3>4 DEF Rank, Incoming
    <3> QED
      BY <1>1, <2>4, <3>1, <3>2, <3>3, <3>5 DEF Carries, Startable, Fenced
  <2> QED
    BY <2>2, <2>3, <2>4 DEF Carries
<1>2. ASSUME NEW c \in Coordinator, ReserveFresh(c) PROVE Carries(p)'
  <2>1. PICK q \in Place : q = job[c].to
    BY Known DEF Job
  <2>2. /\ dir[q] = "absent" /\ UNCHANGED source
        /\ \A r \in Place : r # q => /\ dir'[r] = dir[r] /\ id'[r] = id[r]
                                     /\ state'[r] = state[r]
    BY <1>2, <2>1 DEF ReserveFresh, Collides, offer, IInv, TypeOK
  <2>3. p # q /\ (dir[p] = "in" => source[id[p]] # q /\ source[id[p]] \in Place)
    BY <2>2 DEF Carries, Startable, IInv, TypeOK, HalvesAgree
  <2> QED
    BY <2>2, <2>3 DEF Carries, Startable, Fenced
<1>3. ASSUME NEW c \in Coordinator, NEW t \in Transfer, PrepareFresh(c, t)
      PROVE  \E q \in Place : Carries(q)'
  <2>1. PICK q \in Place : q = job[c].from
    BY Known DEF Job
  <2>2. dir'[q] = "out" /\ state'[q] = "preparing"
    BY <1>3, <2>1 DEF PrepareFresh, IInv, TypeOK
  <2> QED
    BY <2>2 DEF Carries
<1>4. ASSUME NEW c \in Coordinator, NEW q \in Place, NEW r \in Place,
             Begin(c, q, r)
      PROVE  UNCHANGED <<dir, id, used, source, destination>>
  BY <1>4 DEF Begin, OnlyClient, record, offer
<1> QED
  BY <1>1, <1>2, <1>3, <1>4, OrdinaryStep

\* At every moment of every move some place still carries the newest content.
THEOREM Kept == Spec => []NeverLost
<1>1. Init => NeverLost
  BY Constants DEF Init, NeverLost, Carries, Startable, Fenced
<1>2. FullInv /\ NeverLost /\ [Next]_vars => NeverLost'
  <2>1. FullInv /\ [Next]_vars => FullInv'
    BY Inductive, NoReturnStep DEF FullInv
  <2> SUFFICES ASSUME FullInv, NeverLost, [Next]_vars PROVE NeverLost'
    OBVIOUS
  <2>2. PICK q \in Place : Carries(q)'
    BY CarrierStays DEF FullInv, NeverLost
  <2>3. content'[q] = latest'
    BY <2>1, <2>2 DEF FullInv, IInv, OneCarrier
  <2> QED
    BY <2>2, <2>3 DEF NeverLost
<1> QED
  BY <1>1, <1>2, FullInvariance, PTL DEF Spec

-----------------------------------------------------------------------------
(* An interrupted move can be repeated *)

\* A source that is fenced, but not for good, is the only carrier: a second one
\* is the same place, so only one transfer is outstanding.
LEMMA OneOutstanding ==
    ASSUME IInv, NEW p \in Place, NEW r \in Place,
           dir[p] = "out", state[p] # "moved", Carries(r)
    PROVE  r = p
BY DEF IInv, OneCarrier, Carries

LEMMA InitMoveInv == Init => NameKept /\ LeavesHost
BY DEF Init, NameKept, LeavesHost

\* A source that is not committed after a step was not before it.
LEMMA UncommittedBefore ==
    ASSUME IInv, [Next]_vars, UNCHANGED <<dir, id, source>>,
           NEW p \in Place, dir[p] = "out", state'[p] \in {"preparing", "ready"}
    PROVE  state[p] \in {"preparing", "ready"}
<1>1. PICK t \in used : t = id[p] /\ source[t] = p
  BY DEF IInv, HalvesAgree
<1>2. state[p] \in Outgoing
  BY DEF IInv, HalvesAgree
<1>3. state[p] = "moved" => state'[p] = "moved"
  BY <1>1, MovedStays
<1> QED
  BY <1>2, <1>3 DEF Outgoing

LEMMA NameKeptStep ==
    ASSUME FullInv, NameKept, [Next]_vars
    PROVE  NameKept'
<1> USE DEF FullInv
<1>1. CASE UNCHANGED <<dir, id, source, destination>>
  BY <1>1, UncommittedBefore DEF NameKept, Receives
<1>2. ASSUME NEW c \in Coordinator, ReserveFresh(c) PROVE NameKept'
  <2>1. PICK q \in Place, s \in Place, t \in used :
           q = job[c].to /\ s = job[c].from /\ t = job[c].id
    BY <1>2, Known DEF Job, ReserveFresh
  <2>2. /\ source[t] = s /\ destination[t] = q /\ dir[s] = "out" /\ id[s] = t
        /\ state[s] \in {"ready", "moved"}
    BY <1>2, <2>1, Known DEF ReserveFresh, Outgoing
  <2>3. dir[q] = "absent" /\ UNCHANGED destination
    BY <1>2, <2>1 DEF ReserveFresh, Collides, offer
  <2>4. \A r \in Place :
           /\ dir'[r] = IF r = q THEN "in" ELSE dir[r]
           /\ state'[r] = IF r = q THEN "reserved" ELSE state[r]
           /\ id'[r] = IF r = q THEN t ELSE id[r]
    BY <1>2, <2>1 DEF ReserveFresh, IInv, TypeOK
  \* The ship has not arrived where nothing is, so its source still carries it.
  <2>5. state[s] # "moved"
    BY <2>2, <2>3 DEF IInv, PierAgrees, Landed, Receives
  <2>6. ASSUME NEW p \in Place,
               dir'[p] = "out", state'[p] \in {"preparing", "ready"},
               NEW d \in Place, d = destination[id[p]]
        PROVE  Receives(d, id[p])' \/ dir'[d] = "absent"
    <3>1. p # q /\ dir[p] = "out" /\ state[p] \in {"preparing", "ready"}
          /\ id'[p] = id[p]
      BY <2>4, <2>6
    <3>2. Receives(d, id[p]) \/ dir[d] = "absent"
      BY <2>6, <3>1 DEF NameKept
    <3>3. CASE d # q
      BY <2>4, <2>6, <3>1, <3>2, <3>3 DEF Receives
    <3>4. CASE d = q
      <4>1. p = s
        BY <2>2, <2>5, <3>1, OneOutstanding DEF Carries
      <4> QED
        BY <2>2, <2>4, <3>1, <3>4, <4>1 DEF Receives
    <3> QED
      BY <3>3, <3>4
  <2>7. \A p \in Place : dir'[p] = "out" =>
           id'[p] = id[p] /\ destination[id[p]] \in Place
    BY <2>4 DEF IInv, TypeOK, HalvesAgree
  <2> QED
    BY <2>3, <2>6, <2>7 DEF NameKept, Receives
<1>3. ASSUME NEW c \in Coordinator, NEW t \in Transfer, PrepareFresh(c, t)
      PROVE  NameKept'
  <2>1. PICK s \in Place, q \in Place : s = job[c].from /\ q = job[c].to
    BY Known DEF Job
  <2>2. /\ Startable(s) /\ dir[s] # "out" /\ dir[q] # "out" /\ s # q
    BY <1>3, <2>1 DEF PrepareFresh, Startable, Fenced, NoReturn
  <2>3. dir[q] = "absent"
    BY <2>2, OthersGone
  <2>4. /\ \A r \in Place : r # s => dir'[r] = dir[r] /\ state'[r] = state[r]
        /\ id'[s] = t /\ destination'[t] = q
    BY <1>3, <2>1 DEF PrepareFresh, IInv, TypeOK
  <2>5. \A p \in Place : p # s => ~(dir[p] = "out" /\ state[p] # "moved")
    BY <2>2, StartableCarries DEF Carries
  <2> QED
    BY <2>2, <2>3, <2>4, <2>5 DEF NameKept
<1>4. ASSUME NEW c \in Coordinator, NEW p \in Place, NEW q \in Place,
             Begin(c, p, q)
      PROVE  UNCHANGED <<dir, id, source, destination>>
  BY <1>4 DEF Begin, OnlyClient, record, offer
<1> QED
  BY <1>1, <1>2, <1>3, <1>4, OrdinaryStep

LEMMA LeavesHostStep ==
    ASSUME FullInv, LeavesHost, [Next]_vars
    PROVE  LeavesHost'
<1> USE DEF FullInv
<1>1. CASE /\ UNCHANGED <<used, source, destination>>
           /\ \A c \in Coordinator : pc'[c] = "prepare" =>
                 pc[c] = "prepare" /\ job'[c] = job[c]
  BY <1>1 DEF LeavesHost
<1>2. ASSUME NEW c \in Coordinator, ReserveFresh(c)
      PROVE  /\ UNCHANGED <<used, source, destination>>
             /\ \A d \in Coordinator : pc'[d] = "prepare" =>
                   pc[d] = "prepare" /\ job'[d] = job[d]
  BY <1>2 DEF ReserveFresh, Continue, offer, IInv, TypeOK
<1>3. ASSUME NEW c \in Coordinator, NEW t \in Transfer, PrepareFresh(c, t)
      PROVE  LeavesHost'
  <2>1. /\ used' = used \cup {t}
        /\ source'[t] = job[c].from /\ destination'[t] = job[c].to
        /\ \A u \in Transfer : u # t =>
              source'[u] = source[u] /\ destination'[u] = destination[u]
        /\ pc'[c] = "source"
        /\ \A d \in Coordinator : d # c => pc'[d] = pc[d] /\ job'[d] = job[d]
        /\ used \subseteq Transfer
    BY <1>3 DEF PrepareFresh, IInv, TypeOK
  <2>2. Host[job[c].from] # Host[job[c].to]
    BY <1>3 DEF PrepareFresh, LeavesHost
  <2> QED
    BY <2>1, <2>2 DEF LeavesHost
<1>4. ASSUME NEW c \in Coordinator, NEW p \in Place, NEW q \in Place,
             Begin(c, p, q)
      PROVE  LeavesHost'
  <2>1. UNCHANGED <<used, source, destination>> /\ Host[p] # Host[q]
    BY <1>4 DEF Begin, Accepts, OnlyClient, offer
  <2>2. job'[c].from = p /\ job'[c].to = q
        /\ \A d \in Coordinator : d # c => pc'[d] = pc[d] /\ job'[d] = job[d]
    BY <1>4 DEF Begin, IInv, TypeOK
  <2> QED
    BY <2>1, <2>2 DEF LeavesHost
<1> QED
  BY <1>1, <1>2, <1>3, <1>4, OrdinaryStep

\* The strongest invariant, in every reachable state.
THEOREM MoveInvariance == Spec => []MoveInv
<1>1. Init => MoveInv
  BY InitIInv, InitNoReturn, InitMoveInv DEF MoveInv, FullInv
<1>2. MoveInv /\ [Next]_vars => MoveInv'
  BY Inductive, NoReturnStep, NameKeptStep, LeavesHostStep DEF MoveInv, FullInv
<1> QED
  BY <1>1, <1>2, PTL DEF Spec

\* A fenced source can always be sent on to the destination it recorded, by any
\* client: the preflight never refuses to repeat a move that was interrupted.
THEOREM RepeatAccepted == Spec => []Repeatable
<1>1. MoveInv => Repeatable
  <2> SUFFICES ASSUME MoveInv, NEW p \in Place, dir[p] = "out",
                      NEW q, q = destination[id[p]]
               PROVE  Accepts(p, q) \/ (state[p] = "moved" /\ dir[q] = "out")
    BY DEF Repeatable
  <2>1. PICK t \in used : t = id[p] /\ source[t] = p
    BY DEF MoveInv, FullInv, IInv, HalvesAgree
  <2>2. Host[p] # Host[q]
    BY <2>1 DEF MoveInv, LeavesHost
  <2>3. Receives(q, t) \/ dir[q] = "absent" \/ (state[p] = "moved" /\ dir[q] = "out")
    <3>1. CASE state[p] = "moved"
      BY <2>1, <3>1 DEF MoveInv, FullInv, IInv, PierAgrees, Landed
    <3>2. CASE state[p] # "moved"
      BY <2>1, <3>2 DEF MoveInv, NameKept, FullInv, IInv, HalvesAgree, Outgoing
    <3> QED
      BY <3>1, <3>2
  <2> QED
    BY <2>1, <2>2, <2>3 DEF Accepts, Receives
<1> QED
  BY <1>1, MoveInvariance, PTL

\* Without an identity that is unique per host, what the preflight looked for is
\* all that can collide: a fenced source finds its destination free or reserved.
THEOREM CollisionsForeseen ==
    ASSUME ~Live
    PROVE  Spec => []CollisionsRefused
<1>1. MoveInv => CollisionsRefused
  BY DEF MoveInv, NameKept, CollisionsRefused, Collides
<1> QED
  BY <1>1, MoveInvariance, PTL
=============================================================================
