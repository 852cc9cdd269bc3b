----------------------- MODULE StartupResumeProofs -----------------------
(* The invariants of StartupResume hold for any number of boots, containers *)
(* and revisions.                                                            *)
EXTENDS StartupResume, TLAPS

-----------------------------------------------------------------------------
(* Values of the record types *)

LEMMA Empty ==
    /\ Nil \in Startup /\ NoIntent \in Intent
    /\ NoPoll \in Poll /\ NoLoop \in Loop
<1>1. Nil \in Startup
  BY BoundsAssumption DEF Nil, Startup, Revision
<1>2. NoIntent \in Intent /\ NoPoll \in Poll
  BY DEF NoIntent, Intent, NoPoll, Poll, Seen
<1>3. NoLoop \in Loop
  BY <1>1, BoundsAssumption DEF NoLoop, Loop, Revision, Seen
<1> QED
  BY <1>1, <1>2, <1>3

\* Bump and the like change what is current, and nothing else.
LEMMA PollStale ==
    ASSUME NEW p \in Poll, NEW q, q = [p EXCEPT !.current = FALSE]
    PROVE  q \in Poll /\ q.busy = p.busy /\ q.seen = p.seen /\ ~q.current
BY DEF Poll

LEMMA LoopStale ==
    ASSUME NEW l \in Loop, NEW m, m = [l EXCEPT !.current = FALSE]
    PROVE  /\ m \in Loop /\ m.at = l.at /\ m.config = l.config
           /\ m.startup = l.startup /\ m.seen = l.seen /\ ~m.current
BY DEF Loop

LEMMA LoopFresh ==
    ASSUME NEW r \in Revision, NEW m,
           m = [NoLoop EXCEPT !.at = "idle", !.config = r]
    PROVE  m \in Loop /\ m.at = "idle" /\ m.config = r
BY Empty DEF NoLoop, Loop

LEMMA LoopReads ==
    ASSUME NEW l \in Loop, NEW s \in Startup, NEW m,
           m = [l EXCEPT !.at = "read", !.startup = s, !.current = TRUE]
    PROVE  /\ m \in Loop /\ m.at = "read" /\ m.config = l.config
           /\ m.startup = s /\ m.current
BY DEF Loop

LEMMA LoopSees ==
    ASSUME NEW l \in Loop, NEW look \in Seen, NEW m,
           m = [l EXCEPT !.at = "seen", !.seen = look]
    PROVE  /\ m \in Loop /\ m.at = "seen" /\ m.config = l.config
           /\ m.startup = l.startup /\ m.seen = look
           /\ m.current = l.current
BY DEF Loop

\* Claiming takes the pending boot off the record.
LEMMA Unpended ==
    ASSUME NEW s \in Startup, NEW t, t = [s EXCEPT !.pending = 0]
    PROVE  /\ t \in Startup /\ t.pending = 0 /\ t.healthy = s.healthy
           /\ t.box = s.box /\ t.config = s.config /\ t.unclean = s.unclean
BY DEF Startup

\* What startupCandidates grants in boot b.
LEMMA Granted ==
    ASSUME TypeOK, NEW b \in Boot, box # 0, NEW t,
           t = [Base EXCEPT !.pending = b,
                   !.unclean = IF Pending /\ startup.pending = b THEN @
                               ELSE Earlier(Base.healthy, b)]
    PROVE  /\ t \in Startup /\ t.pending = b /\ t.box = box
           /\ t.config = config
           /\ Matches => t.healthy = startup.healthy
           /\ ~Matches => t.healthy = 0 /\ ~t.unclean
           /\ t.unclean <=> IF Matches /\ startup.pending = b
                            THEN startup.unclean ELSE Earlier(t.healthy, b)
<1>1. Base \in Startup /\ Base.box = box /\ Base.config = config
  BY Empty DEF Base, Matches, Nil, Startup, TypeOK
<1>2. /\ Matches => Base = startup
      /\ ~Matches => Base.healthy = 0 /\ Base.unclean = FALSE
  BY DEF Base, Nil
<1>3. /\ t.pending = b /\ t.box = Base.box /\ t.config = Base.config
      /\ t.healthy = Base.healthy
      /\ t.unclean = IF Pending /\ startup.pending = b THEN Base.unclean
                     ELSE Earlier(Base.healthy, b)
      /\ t = [healthy |-> Base.healthy, pending |-> b, box |-> Base.box,
              config |-> Base.config, unclean |-> t.unclean]
  BY <1>1 DEF Startup
<1>4. t.unclean \in BOOLEAN
  BY <1>1, <1>3 DEF Startup, Earlier
<1>5. t \in Startup
  BY <1>1, <1>3, <1>4 DEF Startup
<1>6. b # 0
  BY DEF Boot
<1> QED
  BY <1>1, <1>2, <1>3, <1>5, <1>6 DEF Pending, Earlier

LEMMA RecordedType ==
    ASSUME TypeOK, NEW look, NEW now \in BOOLEAN
    PROVE  Recorded(look, now) \in Startup
BY DEF Recorded, Startup, TypeOK

LEMMA LookSeen ==
    ASSUME TypeOK, NEW look \in Look
    PROVE  /\ look \in Seen
           /\ look \in {"healthy", "running"} => box # 0 /\ engine[box] = "running"
BY DEF Look, Seen, TypeOK

-----------------------------------------------------------------------------
(* Type correctness *)

LEMMA TypeStep ==
    ASSUME TypeOK, CandidateHeld, [Next]_vars
    PROVE  TypeOK'
<1> USE BoundsAssumption, Empty
        DEF TypeOK, Boot, Box, Revision, Seen, Exited, host, public, revs,
            runtime, journal, service, past, history
<1>1. ASSUME Restart PROVE TypeOK'
  <2>1. /\ startup' \in Startup /\ loop' \in Loop
        /\ observed' \in Seen \cup {"busy"} /\ recovery' \in BOOLEAN
        /\ active' \in {"none", "resume", "start", "stop"} /\ begun' \in BOOLEAN
        /\ lost' \in {"none", "resume", "start", "stop"}
    <3>1. CASE Reconcile
      BY <3>1 DEF Reconcile
    <3>2. ASSUME NEW b \in {0, boot}, Candidates(b)
          PROVE  /\ startup' \in Startup /\ loop' \in Loop
                 /\ UNCHANGED <<observed, recovery, active, begun, lost>>
      <4>1. CASE b # 0 /\ Candidate
        <5>1. b \in Boot /\ box # 0
          BY <4>1 DEF Candidate, Eligible
        <5> QED
          BY <3>2, <4>1, <5>1, Granted, LoopFresh DEF Candidates
      <4> QED
        BY <3>2, <4>1 DEF Candidates
    <3> QED
      BY <1>1, <3>1, <3>2 DEF Restart
  <2>2. UNCHANGED <<host, desired, revs, runtime, attempts, fence, worker, poll,
                    seen, confirmed, fell, failure, driven>>
    BY <1>1 DEF Restart
  <2>3. me' \in Boot \cup {0} /\ owed' \subseteq {"recorded", "confirmed"}
    BY <1>1 DEF Restart
  <2>4. up' \in BOOLEAN
    BY <1>1 DEF Restart
  <2> QED
    BY <2>1, <2>2, <2>3, <2>4
<1>2. ASSUME Down, UNCHANGED <<made, public, revs, runtime, startup, journal,
                               fence, seen, confirmed, failure, lost, driven>>,
             boot' \in Boot, engine' \in [Box -> {"absent", "running"} \cup Exited],
             fell' \in BOOLEAN, owed' \subseteq {"recorded", "confirmed"}
      PROVE  TypeOK'
  <2>1. /\ me' \in Boot \cup {0} /\ worker' = "none"
        /\ poll' \in Poll /\ loop' \in Loop
    BY <1>2 DEF Down
  <2>2. up' \in BOOLEAN
    BY <1>2 DEF Down
  <2> QED
    BY <1>2, <2>1, <2>2
<1>3. ASSUME Die PROVE TypeOK'
  BY <1>2, <1>3 DEF Die
<1>4. ASSUME Reboot PROVE TypeOK'
  <2>1. boot' \in Boot /\ owed' \subseteq {"recorded", "confirmed"}
    BY <1>4 DEF Reboot
  <2>2. engine' \in [Box -> {"absent", "running"} \cup Exited]
    BY <1>4 DEF Reboot
  <2>3. fell' \in BOOLEAN
    BY <1>4 DEF Reboot
  <2>4. Down /\ UNCHANGED <<made, public, revs, runtime, startup, journal, fence,
                            seen, confirmed, failure, lost, driven>>
    BY <1>4 DEF Reboot
  <2> QED
    BY <1>2, <2>1, <2>2, <2>3, <2>4
<1>5. ASSUME NEW c \in Box, Exit(c) PROVE TypeOK'
  BY <1>5 DEF Exit
<1>6. ASSUME NEW k \in {"start", "stop"}, Accept(k) PROVE TypeOK'
  <2>1. UNCHANGED <<host, observed, recovery, revs, box, verified, attempts,
                    fence, service, poll, loop, history>>
    BY <1>6 DEF Accept
  <2>2. /\ active' \in {"none", "resume", "start", "stop"} /\ worker' = "queued"
        /\ desired' \in {"running", "stopped"}
        /\ startup' = Nil /\ intent' = NoIntent /\ owed' = {}
    BY <1>6 DEF Accept
  <2>3. begun' \in BOOLEAN
    BY <1>6 DEF Accept
  <2> QED
    BY <2>1, <2>2, <2>3
<1>7. ASSUME Bump PROVE poll' \in Poll /\ loop' \in Loop
  BY <1>7, PollStale, LoopStale DEF Bump
<1>8. ASSUME Configure PROVE TypeOK'
  BY <1>7, <1>8 DEF Configure
<1>9. ASSUME Fence PROVE TypeOK'
  BY <1>9 DEF Fence
<1>10. ASSUME Observe PROVE TypeOK'
  <2>1. poll' \in Poll /\ seen' \in Boot \cup {0}
    BY <1>10, LookSeen DEF Observe, Poll
  <2> QED
    BY <1>10, <2>1 DEF Observe
<1>11. ASSUME Commit PROVE TypeOK'
  <2>1. poll.seen \in Seen
    BY DEF Poll
  <2>2. /\ observed' \in Seen \cup {"busy"} /\ recovery' \in BOOLEAN
        /\ confirmed' \in BOOLEAN /\ failure' \subseteq {"alone", "pending"}
        /\ lost' \in {"none", "resume", "start", "stop"}
        /\ poll' \in Poll
    BY <1>11, <2>1 DEF Commit
  <2>3. startup' \in Startup
    <3>1. (Eligible /\ ~recovery') \in BOOLEAN
      BY <2>2
    <3>2. CASE UNCHANGED startup
      BY <3>2
    <3>3. CASE startup' = Recorded(poll.seen, Eligible /\ ~recovery')
      BY <3>1, <3>3, RecordedType
    <3> QED
      BY <1>11, <3>2, <3>3 DEF Commit
  <2>4. loop' \in Loop
    BY <1>11, LoopStale DEF Commit
  <2> QED
    BY <1>11, <2>2, <2>3, <2>4 DEF Commit
<1>12. ASSUME loop' = Later PROVE loop' \in Loop
  <2>1. loop.config \in Revision
    BY DEF Loop
  <2> QED
    BY <1>12, <2>1, LoopFresh DEF Later
<1>13. ASSUME LoopRead PROVE TypeOK'
  <2>1. loop' \in Loop
    BY <1>13, LoopReads DEF LoopRead
  <2> QED
    BY <1>13, <2>1 DEF LoopRead, Kept
<1>14. ASSUME LoopObserve PROVE TypeOK'
  <2>1. PICK look \in Look :
             loop' = IF look = "unknown" THEN Later
                     ELSE [loop EXCEPT !.at = "seen", !.seen = look]
    BY <1>14 DEF LoopObserve
  <2>2. look \in Seen
    BY LookSeen
  <2>3. loop' \in Loop
    BY <1>12, <2>1, <2>2, LoopSees
  <2> QED
    BY <1>14, <2>3 DEF LoopObserve
<1>15. ASSUME LoopDismiss PROVE TypeOK'
  <2>1. poll' \in Poll
    BY <1>15, PollStale DEF LoopDismiss
  <2> QED
    BY <1>15, <2>1 DEF LoopDismiss, Dismissed
<1>16. ASSUME LoopClaim PROVE TypeOK'
  <2>1. loop.startup \in Startup
    BY DEF Loop
  <2>2. intent' \in Intent
    BY <1>16, <2>1 DEF LoopClaim, Intent, Startup
  <2>3. startup' \in Startup /\ poll' \in Poll
    BY <1>16, Unpended, PollStale DEF LoopClaim
  <2>4. me \in Boot
    BY <1>16 DEF LoopClaim, CandidateHeld
  <2>5. UNCHANGED <<host, desired, revs, box, verified, fence, service, history>>
    BY <1>16 DEF LoopClaim
  <2>6. /\ active' = "resume" /\ worker' = "queued" /\ owed' = {}
        /\ observed' \in Seen \cup {"busy"} /\ loop' = NoLoop
        /\ attempts' \subseteq Boot
    BY <1>16, <2>4 DEF LoopClaim
  <2>7. begun' \in BOOLEAN /\ recovery' \in BOOLEAN
    BY <1>16 DEF LoopClaim
  <2> QED
    BY <2>2, <2>3, <2>5, <2>6, <2>7
<1>17. ASSUME LoopMiss PROVE TypeOK'
  <2>1. loop' \in Loop
    BY <1>17, <1>12 DEF LoopMiss
  <2> QED
    BY <1>17, <2>1 DEF LoopMiss, Kept
<1>18. ASSUME Begin PROVE TypeOK'
  BY <1>18 DEF Begin, Idle
<1>19. ASSUME Remove PROVE TypeOK'
  <2>1. UNCHANGED <<boot, made, public, revs, runtime, startup, journal, history,
                    owed, fence, service>>
    BY <1>19 DEF Remove, Idle
  <2>2. engine' \in [Box -> {"absent", "running"} \cup Exited]
    BY <1>19 DEF Remove
  <2>3. worker' = "removing" /\ Bump
    BY <1>19 DEF Remove
  <2> QED
    BY <1>7, <2>1, <2>2, <2>3
<1>20. ASSUME PersistRemoved PROVE TypeOK'
  <2>1. UNCHANGED <<host, public, revs, intent, startup, journal, history, owed,
                    fence, service>>
    BY <1>20 DEF PersistRemoved, Idle
  <2>2. box' \in Box \cup {0} /\ worker' = "removed" /\ Bump
    BY <1>20 DEF PersistRemoved
  <2>3. verified' \in BOOLEAN
    BY <1>20 DEF PersistRemoved
  <2> QED
    BY <1>7, <2>1, <2>2, <2>3
<1>21. ASSUME Intend PROVE TypeOK'
  <2>1. UNCHANGED <<boot, engine, public, revs, startup, journal, driven, owed,
                    fence, service>>
    BY <1>21 DEF Intend, Idle
  <2>2. /\ made' \in 0 .. MaxBox /\ box' \in Box \cup {0} /\ intent' = NoIntent
        /\ worker' = "intended" /\ seen' = 0 /\ failure' = {} /\ lost' = "none"
    BY <1>21 DEF Intend
  <2>3. verified' \in BOOLEAN /\ confirmed' \in BOOLEAN /\ fell' \in BOOLEAN
    BY <1>21 DEF Intend
  <2>4. Bump
    BY <1>21 DEF Intend
  <2> QED
    BY <1>7, <2>1, <2>2, <2>3, <2>4
<1>22. ASSUME Launch PROVE TypeOK'
  <2>1. UNCHANGED <<boot, made, public, revs, runtime, startup, journal, history,
                    owed, fence, service>>
    BY <1>22 DEF Launch, Idle
  <2>2. engine' \in [Box -> {"absent", "running"} \cup Exited]
    BY <1>22 DEF Launch
  <2>3. worker' = "created" /\ Bump
    BY <1>22 DEF Launch
  <2> QED
    BY <1>7, <2>1, <2>2, <2>3
<1>23. ASSUME Verify PROVE TypeOK'
  BY <1>7, <1>23 DEF Verify, Idle
<1>24. ASSUME Finish, observed' \in Seen, recovery' \in BOOLEAN,
              applied' \in Revision, startup' \in Startup,
              confirmed' \in BOOLEAN,
              lost' \in {"none", "resume", "start", "stop"}
       PROVE  TypeOK'
  BY <1>7, <1>24 DEF Finish, Idle
<1>25. ASSUME FinishRunning PROVE TypeOK'
  BY <1>24, <1>25, RecordedType DEF FinishRunning
<1>26. ASSUME FinishStopped PROVE TypeOK'
  BY <1>24, <1>26 DEF FinishStopped
<1>27. ASSUME FinishFailed PROVE TypeOK'
  BY <1>24, <1>27 DEF FinishFailed, Condemn
<1>28. CASE UNCHANGED vars
  BY <1>28 DEF vars
<1> QED
  BY <1>1, <1>3, <1>4, <1>5, <1>6, <1>8, <1>9, <1>10, <1>11, <1>13, <1>14,
     <1>15, <1>16, <1>17, <1>18, <1>19, <1>20, <1>21, <1>22, <1>23, <1>25,
     <1>26, <1>27, <1>28
     DEF Next, Surroundings, Operator, Poller, Resumer, Worker

-----------------------------------------------------------------------------
\* The fields the steps below compare.
LEMMA Fields ==
    ASSUME TypeOK
    PROVE  /\ boot \in Nat \ {0} /\ me \in Nat /\ seen \in Nat
           /\ box \in Nat /\ made \in Nat /\ config \in Nat
           /\ startup.healthy \in Nat /\ startup.pending \in Nat
           /\ startup.box \in Nat /\ startup.config \in Nat
           /\ startup.unclean \in BOOLEAN
           /\ poll.busy \in BOOLEAN /\ poll.current \in BOOLEAN
           /\ poll.seen \in Seen
           /\ loop.startup \in Startup /\ loop.config \in Nat
           /\ loop.at \in {"off", "idle", "read", "seen"}
           /\ loop.current \in BOOLEAN
           /\ intent.box \in Nat /\ intent.unclean \in BOOLEAN
<1> USE BoundsAssumption DEF TypeOK, Boot, Box, Revision
<1>1. /\ boot \in Nat \ {0} /\ me \in Nat /\ seen \in Nat
      /\ box \in Nat /\ made \in Nat /\ config \in Nat
  OBVIOUS
<1>2. /\ startup.healthy \in Nat /\ startup.pending \in Nat
      /\ startup.box \in Nat /\ startup.config \in Nat
      /\ startup.unclean \in BOOLEAN
  BY DEF Startup
<1>3. /\ poll.busy \in BOOLEAN /\ poll.current \in BOOLEAN /\ poll.seen \in Seen
  BY DEF Poll
<1>4. /\ loop.startup \in Startup /\ loop.config \in Nat
      /\ loop.at \in {"off", "idle", "read", "seen"} /\ loop.current \in BOOLEAN
  BY DEF Loop
<1>5. intent.box \in Nat /\ intent.unclean \in BOOLEAN
  BY DEF Intent
<1> QED
  BY <1>1, <1>2, <1>3, <1>4, <1>5

LEMMA Blank ==
    /\ Nil.healthy = 0 /\ Nil.pending = 0 /\ Nil.box = 0 /\ Nil.unclean = FALSE
    /\ NoIntent.box = 0 /\ NoIntent.unclean = FALSE
    /\ NoPoll.busy = FALSE /\ NoPoll.current = FALSE
    /\ NoLoop.at = "off" /\ NoLoop.current = FALSE
BY DEF Nil, NoIntent, NoPoll, NoLoop

\* Bump makes what the poller and resumeStartup hold stale, and keeps the rest.
Bumped ==
    /\ poll'.busy = poll.busy /\ poll'.seen = poll.seen /\ ~poll'.current
    /\ loop'.at = loop.at /\ loop'.config = loop.config
    /\ loop'.startup = loop.startup /\ loop'.seen = loop.seen

LEMMA Bumps ==
    ASSUME TypeOK, Bump
    PROVE  Bumped
<1>1. poll \in Poll /\ loop \in Loop
  BY DEF TypeOK
<1>2. /\ poll'.busy = poll.busy /\ poll'.seen = poll.seen /\ ~poll'.current
  BY <1>1, PollStale DEF Bump
<1>3. /\ loop'.at = loop.at /\ loop'.config = loop.config
      /\ loop'.startup = loop.startup /\ loop'.seen = loop.seen
  BY <1>1, LoopStale DEF Bump
<1> QED
  BY <1>2, <1>3 DEF Bumped

-----------------------------------------------------------------------------
(* Every step keeps the invariant: the surroundings *)

LEMMA RestartInv ==
    ASSUME IInv, TypeOK', Restart
    PROVE  IInv'
<1> USE Fields, Blank
        DEF IInv, host, public, revs, runtime, journal, service, past, history
<1>1. PICK b \in {0, boot} :
         /\ me' = b
         /\ Reconcile \/ Candidates(b)
         /\ owed' = IF b = 0 \/ active # "none" THEN {}
                    ELSE owed \ {"confirmed"}
  BY DEF Restart
<1>2. /\ ~up /\ up'
      /\ UNCHANGED <<host, desired, revs, runtime, attempts, fence, worker,
                     poll, seen, confirmed, fell, failure, driven>>
      /\ worker = "none" /\ ~poll.busy /\ loop.at = "off"
  BY DEF Restart, ServiceAgrees
<1>3. CASE Reconcile
  <2>1. /\ active # "none" /\ active' = "none" /\ begun' = FALSE
        /\ startup' = Nil /\ owed' = {} /\ UNCHANGED loop
    BY <1>1, <1>3 DEF Reconcile
  <2>2. \/ UNCHANGED <<recovery, lost>>
        \/ recovery'
    BY <1>3 DEF Reconcile
  <2>3. ServiceAgrees' /\ DriverKnows' /\ AttemptsAgree'
    BY <1>1, <1>2, <2>1 DEF ServiceAgrees, DriverKnows, AttemptsAgree
  <2>4. HealthTruthful' /\ CandidateHeld' /\ LostForgets'
    BY <1>2, <2>1 DEF HealthTruthful, CandidateHeld, LostForgets
  <2>5. FailureKnown'
    BY <1>2, <2>1, <2>2 DEF FailureKnown
  <2>6. OwedKept' /\ UncleanAfterReboot' /\ ResumesWanted' /\ FenceQuiet'
    BY <2>1 DEF OwedKept, UncleanAfterReboot, ResumesWanted, FenceQuiet
  <2>7. NotForgotten'
    BY <1>1, <2>1 DEF NotForgotten, Authorized, Matches
  <2> QED
    BY <2>3, <2>4, <2>5, <2>6, <2>7
<1>4. CASE Candidates(b)
  <2>1. /\ active = "none" /\ active' = "none" /\ UNCHANGED <<recovery, begun, lost>>
        /\ owed' \subseteq owed /\ (b = 0 => owed' = {})
    BY <1>1, <1>4 DEF Candidates
  <2>2. DriverKnows' /\ AttemptsAgree'
    BY <1>1, <1>2, <2>1 DEF ServiceAgrees, DriverKnows, AttemptsAgree
  <2>3. CASE b # 0 /\ Candidate
    <3>1. b = boot /\ b \in Boot /\ box # 0 /\ config \in Revision /\ Eligible
      BY <2>3 DEF Candidate, Eligible, TypeOK
    <3>2. /\ startup'.pending = b /\ startup'.box = box /\ startup'.config = config
          /\ Matches => startup'.healthy = startup.healthy
          /\ ~Matches => startup'.healthy = 0 /\ ~startup'.unclean
          /\ startup'.unclean <=> IF Matches /\ startup.pending = b
                                  THEN startup.unclean
                                  ELSE Earlier(startup'.healthy, b)
      BY <1>4, <2>3, <3>1, Granted DEF Candidates
    <3>3. loop'.at = "idle" /\ loop'.config = config
      BY <1>4, <2>3, <3>1, LoopFresh DEF Candidates
    <3>4. ServiceAgrees'
      BY <1>1, <1>2, <2>1, <3>1, <3>2 DEF ServiceAgrees
    <3>5. HealthTruthful'
      BY <1>2, <3>1, <3>2 DEF HealthTruthful, Matches, Earlier
    <3>6. CandidateHeld'
      BY <1>1, <1>2, <2>1, <3>1, <3>3 DEF CandidateHeld
    <3>7. FailureKnown'
      BY <1>2, <2>1, <2>3 DEF FailureKnown, Candidate, Pending
    <3>8. OwedKept'
      BY <1>1, <1>2, <2>1, <3>1, <3>2, <3>3 DEF OwedKept, Eligible, Matches, Earlier
    <3>9. LostForgets'
      BY <2>1, <3>2 DEF LostForgets
    <3>10. NotForgotten'
      BY <3>3 DEF NotForgotten
    <3> QED
      BY <2>2, <3>4, <3>5, <3>6, <3>7, <3>8, <3>9, <3>10, <2>1, <1>2 DEF UncleanAfterReboot, ResumesWanted, FenceQuiet
  <2>4. CASE ~(b # 0 /\ Candidate)
    <3>1. UNCHANGED <<startup, loop>>
      BY <1>4, <2>4 DEF Candidates
    <3>4. ServiceAgrees'
      BY <1>1, <1>2, <2>1, <3>1 DEF ServiceAgrees
    <3>5. HealthTruthful'
      BY <1>2, <3>1 DEF HealthTruthful
    <3>6. CandidateHeld'
      BY <1>1, <1>2, <3>1 DEF CandidateHeld
    <3>7. FailureKnown'
      BY <1>2, <2>1, <3>1 DEF FailureKnown
    <3>8. OwedKept'
      BY <1>1, <1>2, <2>1, <3>1, <2>4 DEF OwedKept, Eligible, Matches, Candidate, Pending
    <3>9. LostForgets'
      BY <2>1, <3>1 DEF LostForgets
    <3>10. NotForgotten'
      BY <1>1, <1>2, <2>1, <2>4, <3>1 DEF NotForgotten, Candidate, Pending, Authorized, Matches, Eligible
    <3> QED
      BY <2>2, <3>4, <3>5, <3>6, <3>7, <3>8, <3>9, <3>10, <2>1, <1>2 DEF UncleanAfterReboot, ResumesWanted, FenceQuiet
  <2> QED
    BY <2>3, <2>4
<1> QED
  BY <1>1, <1>3, <1>4

LEMMA DieInv ==
    ASSUME IInv, TypeOK', Die
    PROVE  IInv'
<1> USE Fields, Blank
        DEF IInv, host, public, revs, runtime, journal, service, past, history
<1>1. /\ UNCHANGED <<host, public, revs, runtime, startup, journal, fence,
                     history, owed>>
      /\ ~up' /\ me' = 0 /\ worker' = "none"
      /\ poll' = NoPoll /\ loop' = NoLoop
  BY DEF Die, Down
<1>2. ServiceAgrees' /\ DriverKnows' /\ AttemptsAgree' /\ CandidateHeld'
  BY <1>1 DEF ServiceAgrees, DriverKnows, AttemptsAgree, CandidateHeld
<1>3. HealthTruthful' /\ FailureKnown' /\ LostForgets'
  BY <1>1 DEF HealthTruthful, FailureKnown, LostForgets
<1>4. OwedKept'
  BY <1>1 DEF OwedKept, Eligible, Matches
<1>5. /\ UncleanAfterReboot' /\ ResumesWanted' /\ FenceQuiet' /\ NotForgotten'
  BY <1>1 DEF UncleanAfterReboot, ResumesWanted, FenceQuiet, NotForgotten
<1> QED
  BY <1>2, <1>3, <1>4, <1>5

LEMMA ExitInv ==
    ASSUME IInv, TypeOK', NEW c \in Box, Exit(c)
    PROVE  IInv'
<1> USE Fields, Blank
        DEF IInv, host, public, revs, runtime, journal, service, past, history
<1>1. /\ engine[c] = "running"
      /\ UNCHANGED <<boot, made, public, revs, runtime, startup, journal, fence,
                     service, worker, poll, loop, seen, confirmed, failure,
                     lost, driven, owed>>
  BY DEF Exit
<1>2. /\ engine'[c] \in Exited
      /\ \A d \in Box : d # c => engine'[d] = engine[d]
  BY DEF Exit, TypeOK
<1>3. box # 0 => box \in Box
  BY DEF TypeOK
<1>4. ServiceAgrees' /\ AttemptsAgree' /\ CandidateHeld'
  BY <1>1, <1>2 DEF ServiceAgrees, AttemptsAgree, CandidateHeld
<1>5. DriverKnows' /\ HealthTruthful' /\ FailureKnown' /\ LostForgets'
  BY <1>1, <1>2, <1>3
     DEF DriverKnows, HealthTruthful, FailureKnown, LostForgets, Exited
<1>6. OwedKept'
  BY <1>1, <1>2, <1>3 DEF OwedKept, Eligible, Matches, Exited
<1>7. UncleanAfterReboot' /\ ResumesWanted' /\ FenceQuiet'
  BY <1>1 DEF UncleanAfterReboot, ResumesWanted, FenceQuiet
<1>8. NotForgotten'
  BY <1>1
     DEF NotForgotten, Authorized, Attempted, Eligible, Matches, Earlier
<1> QED
  BY <1>4, <1>5, <1>6, <1>7, <1>8

LEMMA AcceptInv ==
    ASSUME IInv, TypeOK', NEW kind \in {"start", "stop"}, Accept(kind)
    PROVE  IInv'
<1> USE Fields, Blank
        DEF IInv, host, public, revs, runtime, journal, service, past, history
<1>1. /\ up /\ ~fence /\ active = "none"
      /\ active' = kind /\ begun' = FALSE /\ worker' = "queued"
      /\ startup' = Nil /\ intent' = NoIntent /\ owed' = {}
      /\ UNCHANGED <<host, observed, recovery, revs, box, verified, attempts,
                     fence, service, poll, loop, history>>
  BY DEF Accept
<1>2. ServiceAgrees' /\ DriverKnows' /\ AttemptsAgree' /\ CandidateHeld'
  BY <1>1 DEF ServiceAgrees, DriverKnows, AttemptsAgree, CandidateHeld
<1>3. HealthTruthful' /\ FailureKnown' /\ LostForgets' /\ OwedKept'
  BY <1>1 DEF HealthTruthful, FailureKnown, LostForgets, OwedKept
<1>4. UncleanAfterReboot' /\ ResumesWanted' /\ FenceQuiet'
  BY <1>1 DEF UncleanAfterReboot, ResumesWanted, FenceQuiet
<1>5. NotForgotten'
  BY <1>1 DEF NotForgotten, Authorized, Eligible
<1> QED
  BY <1>2, <1>3, <1>4, <1>5

LEMMA ConfigureInv ==
    ASSUME IInv, TypeOK', Configure
    PROVE  IInv'
<1> USE Fields, Blank
        DEF IInv, host, public, revs, runtime, journal, service, past, history
<1>1. /\ up /\ ~fence /\ active = "none" /\ startup' = Nil /\ owed' = {}
      /\ UNCHANGED <<host, public, applied, launch, runtime, journal, fence,
                     service, worker, history>>
  BY DEF Configure
<1>2. Bumped
  BY Bumps DEF Configure
<1>3. ServiceAgrees' /\ DriverKnows' /\ AttemptsAgree' /\ CandidateHeld'
  BY <1>1, <1>2
     DEF Bumped, ServiceAgrees, DriverKnows, AttemptsAgree, CandidateHeld
<1>4. HealthTruthful' /\ FailureKnown' /\ LostForgets' /\ OwedKept'
  BY <1>1, <1>2
     DEF Bumped, HealthTruthful, FailureKnown, LostForgets, OwedKept
<1>5. UncleanAfterReboot' /\ ResumesWanted' /\ FenceQuiet'
  BY <1>1 DEF UncleanAfterReboot, ResumesWanted, FenceQuiet
<1>6. NotForgotten'
  BY <1>1 DEF NotForgotten, Authorized, Matches
<1> QED
  BY <1>3, <1>4, <1>5, <1>6

LEMMA FenceInv ==
    ASSUME IInv, TypeOK', Fence
    PROVE  IInv'
<1> USE Fields, Blank
        DEF IInv, host, public, revs, runtime, journal, service, past, history
<1>1. /\ up /\ active = "none"
      /\ UNCHANGED <<host, public, revs, runtime, startup, journal, service,
                     worker, poll, loop, history, owed>>
  BY DEF Fence
<1>2. ServiceAgrees' /\ DriverKnows' /\ AttemptsAgree' /\ CandidateHeld'
  BY <1>1 DEF ServiceAgrees, DriverKnows, AttemptsAgree, CandidateHeld
<1>3. HealthTruthful' /\ FailureKnown' /\ LostForgets'
  BY <1>1 DEF HealthTruthful, FailureKnown, LostForgets
<1>4. OwedKept'
  BY <1>1 DEF OwedKept, Eligible, Matches
<1>5. UncleanAfterReboot' /\ ResumesWanted' /\ FenceQuiet'
  BY <1>1 DEF UncleanAfterReboot, ResumesWanted, FenceQuiet
<1>6. NotForgotten'
  BY <1>1
     DEF NotForgotten, Authorized, Attempted, Eligible, Matches, Earlier
<1> QED
  BY <1>2, <1>3, <1>4, <1>5, <1>6

LEMMA ObserveInv ==
    ASSUME IInv, TypeOK', Observe
    PROVE  IInv'
<1> USE Fields, Blank
        DEF IInv, host, public, revs, runtime, journal, service, past, history
<1>1. /\ up /\ active = "none" /\ worker = "none"
      /\ UNCHANGED <<host, public, revs, runtime, startup, journal, fence,
                     service, worker, loop, confirmed, fell, failure, lost,
                     driven, owed>>
  BY DEF Observe, ServiceAgrees
<1>2. PICK look \in Look :
         /\ poll' = [busy |-> TRUE, current |-> TRUE, seen |-> look]
         /\ seen' = IF look = "healthy" THEN boot ELSE seen
  BY DEF Observe
<1>3. /\ look = "healthy" => box # 0 /\ engine[box] = "running"
      /\ look = "failed" => box # 0 /\ engine[box] = "crashed"
      /\ box # 0 /\ engine[box] = "crashed" => look \in {"failed", "unknown"}
      /\ box # 0 /\ engine[box] = "clean" => look \in {"stopped", "unknown"}
      /\ box # 0 /\ engine[box] = "absent" => look = "unknown"
  BY DEF Look
<1>4. ServiceAgrees' /\ DriverKnows' /\ AttemptsAgree' /\ CandidateHeld'
  BY <1>1 DEF ServiceAgrees, DriverKnows, AttemptsAgree, CandidateHeld
<1>5. HealthTruthful'
  BY <1>1, <1>2, <1>3 DEF HealthTruthful
<1>6. FailureKnown' /\ LostForgets'
  BY <1>1, <1>2, <1>3 DEF FailureKnown, LostForgets
<1>7. OwedKept'
  BY <1>1, <1>2, <1>3 DEF OwedKept, Eligible, Matches, Exited
<1>8. UncleanAfterReboot' /\ ResumesWanted' /\ FenceQuiet'
  BY <1>1 DEF UncleanAfterReboot, ResumesWanted, FenceQuiet
<1>9. NotForgotten'
  BY <1>1
     DEF NotForgotten, Authorized, Attempted, Eligible, Matches, Earlier
<1> QED
  BY <1>4, <1>5, <1>6, <1>7, <1>8, <1>9

LEMMA LoopMissInv ==
    ASSUME IInv, TypeOK', LoopMiss
    PROVE  IInv'
<1> USE Fields, Blank
        DEF IInv, host, public, revs, runtime, journal, service, past, history
<1>1. /\ up /\ loop.at = "seen"
      /\ UNCHANGED <<host, public, revs, runtime, startup, journal, fence,
                     service, worker, poll, history, owed>>
  BY DEF LoopMiss, Kept
<1>2. \/ loop'.at = "idle" /\ loop'.config = loop.config
      \/ loop'.at = "off" /\ Attempted
  <2>1. loop.config \in Revision
    BY DEF TypeOK, Loop
  <2> QED
    BY <2>1, LoopFresh DEF LoopMiss, Later
<1>3. ServiceAgrees' /\ DriverKnows' /\ AttemptsAgree' /\ CandidateHeld'
  BY <1>1, <1>2 DEF ServiceAgrees, DriverKnows, AttemptsAgree, CandidateHeld
<1>4. HealthTruthful' /\ FailureKnown' /\ LostForgets'
  BY <1>1 DEF HealthTruthful, FailureKnown, LostForgets
<1>5. OwedKept'
  BY <1>1, <1>2 DEF OwedKept, Eligible, Matches
<1>6. UncleanAfterReboot' /\ ResumesWanted' /\ FenceQuiet'
  BY <1>1 DEF UncleanAfterReboot, ResumesWanted, FenceQuiet
<1>7. NotForgotten'
  BY <1>1, <1>2 DEF NotForgotten, Attempted
<1> QED
  BY <1>3, <1>4, <1>5, <1>6, <1>7

LEMMA RemoveInv ==
    ASSUME IInv, TypeOK', Remove
    PROVE  IInv'
<1> USE Fields, Blank
        DEF IInv, host, public, revs, runtime, journal, service, past, history
<1>1. /\ worker = "begun" /\ worker' = "removing" /\ box # 0
      /\ UNCHANGED <<boot, made, public, revs, runtime, startup, journal,
                     history, owed, fence, service>>
      /\ Bumped
  BY Bumps DEF Remove, Idle
<1>2. /\ box \in Box /\ engine'[box] = "absent"
      /\ \A c \in Box : c # box => engine'[c] = engine[c]
  BY <1>1 DEF Remove, TypeOK
<1>3. up /\ active # "none"
  BY <1>1 DEF ServiceAgrees
<1>4. ServiceAgrees' /\ DriverKnows' /\ AttemptsAgree' /\ CandidateHeld'
  BY <1>1, <1>2, <1>3
     DEF Bumped, ServiceAgrees, DriverKnows, AttemptsAgree, CandidateHeld
<1>5. HealthTruthful'
  BY <1>1, <1>2 DEF Bumped, HealthTruthful
<1>6. FailureKnown' /\ LostForgets'
  BY <1>1, <1>2 DEF Bumped, FailureKnown, LostForgets
<1>7. OwedKept'
  BY <1>1, <1>3 DEF OwedKept, Eligible
<1>8. UncleanAfterReboot' /\ ResumesWanted' /\ FenceQuiet'
  BY <1>1 DEF UncleanAfterReboot, ResumesWanted, FenceQuiet
<1>9. NotForgotten'
  BY <1>1, <1>3 DEF NotForgotten, Authorized, Eligible
<1> QED
  BY <1>4, <1>5, <1>6, <1>7, <1>8, <1>9

LEMMA RebootInv ==
    ASSUME IInv, TypeOK', Reboot
    PROVE  IInv'
<1> USE Fields, Blank
        DEF IInv, host, public, revs, runtime, journal, service, past, history
<1>1. /\ boot' = boot + 1 /\ fell' = FALSE
      /\ UNCHANGED <<made, public, revs, runtime, startup, journal, fence, seen,
                     confirmed, failure, lost, driven>>
      /\ ~up' /\ me' = 0 /\ worker' = "none"
      /\ ~poll'.busy /\ loop'.at = "off"
  BY DEF Reboot, Down
<1>2. \A c \in Box : /\ engine'[c] # "running"
                     /\ engine[c] # "running" => engine'[c] = engine[c]
                     /\ engine[c] = "running" => engine'[c] \in Exited
  BY DEF Reboot, Exited
<1>3. box # 0 => box \in Box
  BY DEF TypeOK
<1>4. ServiceAgrees' /\ DriverKnows' /\ CandidateHeld' /\ NotForgotten'
  BY <1>1, <1>2 DEF ServiceAgrees, DriverKnows, CandidateHeld, NotForgotten
<1>5. AttemptsAgree'
  <2>1. \A b \in attempts : b \in Nat
    BY DEF TypeOK, Boot
  <2> QED
    BY <1>1, <2>1 DEF AttemptsAgree
<1>6. HealthTruthful'
  BY <1>1, <1>2, <1>3 DEF HealthTruthful
<1>7. FailureKnown'
  BY <1>1, <1>2, <1>3 DEF FailureKnown
<1>8. OwedKept'
  <2>1. CASE "recorded" \in owed
    <3>1. box # 0 /\ engine[box] \in Exited
      BY <2>1 DEF OwedKept, Eligible
    <3>2. engine'[box] \in Exited
      BY <1>1, <1>2, <1>3, <3>1 DEF Exited
    <3>3. startup.healthy \in 1 .. boot' - 1 /\ startup.pending # boot'
      BY <1>1, <2>1 DEF OwedKept, HealthTruthful
    <3> QED
      BY <1>1, <2>1, <3>1, <3>2, <3>3 DEF OwedKept, Eligible, Matches
  <2>2. CASE "recorded" \in owed' /\ "recorded" \notin owed
    <3>1. /\ Eligible /\ ~recovery /\ engine[box] = "running"
          /\ Matches /\ startup.healthy = boot
      BY <2>2 DEF Reboot
    <3>2. startup.pending <= boot
      BY DEF HealthTruthful
    <3> QED
      BY <1>1, <1>2, <1>3, <3>1, <3>2 DEF OwedKept, Eligible, Matches
  <2> QED
    BY <2>1, <2>2 DEF OwedKept
<1>9. LostForgets' /\ UncleanAfterReboot' /\ ResumesWanted' /\ FenceQuiet'
  BY <1>1 DEF LostForgets, UncleanAfterReboot, ResumesWanted, FenceQuiet
<1> QED
  BY <1>4, <1>5, <1>6, <1>7, <1>8, <1>9

\* What a pass of resumeStartup holds after each of its reads.
LEMMA ReadTakes ==
    ASSUME TypeOK, LoopRead
    PROVE  \/ /\ config = loop.config
              /\ loop'.at = "read" /\ loop'.config = loop.config
              /\ loop'.startup = startup
           \/ loop' = NoLoop /\ (config # loop.config \/ ~Authorized)
<1>1. loop \in Loop /\ startup \in Startup
  BY DEF TypeOK
<1>2. CASE config = loop.config /\ Authorized
  <2>1. loop' = [loop EXCEPT !.at = "read", !.startup = startup,
                            !.current = TRUE]
    BY <1>2 DEF LoopRead
  <2>2. /\ loop'.at = "read" /\ loop'.config = loop.config
        /\ loop'.startup = startup
    BY <1>1, <2>1 DEF Loop
  <2> QED
    BY <1>2, <2>2
<1>3. CASE ~(config = loop.config /\ Authorized)
  BY <1>3 DEF LoopRead
<1> QED
  BY <1>2, <1>3

LEMMA ObservationTakes ==
    ASSUME TypeOK, NEW look \in Look,
           loop' = IF look = "unknown" THEN Later
                   ELSE [loop EXCEPT !.at = "seen", !.seen = look]
    PROVE  /\ loop'.config = loop.config
           /\ \/ loop'.at = "idle"
              \/ /\ loop'.at = "seen" /\ loop'.seen = look /\ look # "unknown"
                 /\ loop'.startup = loop.startup
<1>1. loop \in Loop /\ loop.config \in Revision /\ look \in Seen
  BY LookSeen DEF TypeOK, Loop
<1>2. CASE look = "unknown"
  BY <1>1, <1>2, LoopFresh DEF Later
<1>3. CASE look # "unknown"
  <2>1. loop' = [loop EXCEPT !.at = "seen", !.seen = look]
    BY <1>3
  <2>2. /\ loop'.at = "seen" /\ loop'.config = loop.config
        /\ loop'.startup = loop.startup /\ loop'.seen = look
    BY <1>1, <2>1 DEF Loop
  <2> QED
    BY <1>3, <2>2
<1> QED
  BY <1>2, <1>3

LEMMA LoopReadInv ==
    ASSUME IInv, TypeOK', LoopRead
    PROVE  IInv'
<1> USE Fields, Blank
        DEF IInv, host, public, revs, runtime, journal, service, past, history
<1>1. UNCHANGED <<host, public, revs, runtime, startup, journal, fence,
                  service, worker, poll, history, owed>>
  BY DEF LoopRead, Kept
<1>2. \/ /\ config = loop.config
         /\ loop'.at = "read" /\ loop'.config = loop.config
         /\ loop'.startup = startup
      \/ loop' = NoLoop /\ (config # loop.config \/ ~Authorized)
  BY ReadTakes
<1>3. up /\ loop.at = "idle"
  BY DEF LoopRead
<1>4. /\ ServiceAgrees' /\ DriverKnows' /\ AttemptsAgree' /\ HealthTruthful'
      /\ FailureKnown' /\ LostForgets' /\ UncleanAfterReboot' /\ ResumesWanted'
      /\ FenceQuiet'
  BY <1>1, <1>2, <1>3
     DEF ServiceAgrees, DriverKnows, AttemptsAgree, HealthTruthful, FailureKnown,
         LostForgets, UncleanAfterReboot, ResumesWanted, FenceQuiet
<1>5. CandidateHeld'
  BY <1>1, <1>2, <1>3 DEF CandidateHeld
<1>6. OwedKept'
  BY <1>1, <1>2 DEF OwedKept, Eligible, Matches
<1>7. NotForgotten'
  <2>1. Authorized' = Authorized /\ Attempted' = Attempted
    BY <1>1 DEF Authorized, Attempted, Eligible, Matches, Earlier
  <2> QED
    BY <1>1, <1>2, <1>3, <2>1 DEF NotForgotten, CandidateHeld, Authorized
<1> QED
  BY <1>4, <1>5, <1>6, <1>7

LEMMA LoopObserveInv ==
    ASSUME IInv, TypeOK', LoopObserve
    PROVE  IInv'
<1> USE Fields, Blank
        DEF IInv, host, public, revs, runtime, journal, service, past, history
<1>1. UNCHANGED <<host, public, revs, runtime, startup, journal, fence,
                  service, worker, poll, confirmed, fell, failure, lost,
                  driven, owed>>
  BY DEF LoopObserve
<1>2. PICK look \in Look :
         /\ loop' = IF look = "unknown" THEN Later
                    ELSE [loop EXCEPT !.at = "seen", !.seen = look]
         /\ seen' = IF look = "healthy" THEN boot ELSE seen
  BY DEF LoopObserve
<1>3. /\ loop'.config = loop.config
      /\ \/ loop'.at = "idle"
         \/ /\ loop'.at = "seen" /\ loop'.seen = look /\ look # "unknown"
            /\ loop'.startup = loop.startup
  BY <1>2, ObservationTakes
<1>4. look = "healthy" => engine[box] = "running" /\ box # 0
  BY LookSeen
<1>5. up /\ loop.at = "read"
  BY DEF LoopObserve
<1>6. ServiceAgrees' /\ AttemptsAgree' /\ CandidateHeld' /\ NotForgotten'
  BY <1>1, <1>3, <1>5
     DEF ServiceAgrees, AttemptsAgree, CandidateHeld, NotForgotten
<1>7. HealthTruthful' /\ UncleanAfterReboot' /\ DriverKnows'
  BY <1>1, <1>2, <1>4, <1>5
     DEF HealthTruthful, UncleanAfterReboot, DriverKnows, CandidateHeld
<1>8. FailureKnown' /\ LostForgets' /\ ResumesWanted' /\ FenceQuiet'
  BY <1>1 DEF FailureKnown, LostForgets, ResumesWanted, FenceQuiet
<1>9. OwedKept'
  BY <1>1, <1>2, <1>3 DEF OwedKept, Eligible, Matches, Look, Exited
<1> QED
  BY <1>6, <1>7, <1>8, <1>9

\* What an observation does to the record.
LEMMA Recording ==
    ASSUME NEW look, NEW now \in BOOLEAN, NEW t, t = Recorded(look, now)
    PROVE  \/ t = startup /\ ~(me # 0 /\ look = "healthy" /\ now)
           \/ /\ me # 0 /\ look = "healthy" /\ now
              /\ t.healthy = me /\ t.pending = 0 /\ t.box = box
              /\ t.config = config /\ ~t.unclean
BY DEF Recorded

LEMMA CommitInv ==
    ASSUME IInv, TypeOK', Commit
    PROVE  IInv'
<1> USE Fields, Blank
        DEF IInv, host, public, revs, runtime, journal, service, past, history
<1>1. /\ up /\ poll.busy
      /\ UNCHANGED <<host, desired, revs, runtime, journal, fence, service,
                     worker, seen, fell, driven, owed>>
      /\ poll' = NoPoll
  BY DEF Commit
<1>2. /\ loop'.at = loop.at /\ loop'.config = loop.config
      /\ loop'.startup = loop.startup /\ loop'.seen = loop.seen
  <2>1. loop \in Loop
    BY DEF TypeOK
  <2> QED
    BY <2>1, LoopStale DEF Commit
<1>3. \/ UNCHANGED <<startup, lost>>
      \/ /\ Usable /\ poll.seen = "healthy"
         /\ UNCHANGED startup /\ lost' = "none"
      \/ /\ Usable /\ poll.seen = "healthy" /\ lost' = "none" /\ me # 0
         /\ startup'.healthy = me /\ startup'.pending = 0 /\ startup'.box = box
         /\ startup'.config = config /\ ~startup'.unclean /\ box # 0
  <2>1. (Eligible /\ ~recovery') \in BOOLEAN
    BY DEF TypeOK, Eligible
  <2>2. CASE Usable
    <3>1. /\ startup' = Recorded(poll.seen, Eligible /\ ~recovery')
          /\ lost' = IF poll.seen = "healthy" THEN "none" ELSE lost
      BY <2>2 DEF Commit
    <3> QED
      BY <2>1, <2>2, <3>1, Recording DEF Eligible
  <2>3. CASE ~Usable
    BY <2>3 DEF Commit
  <2> QED
    BY <2>2, <2>3
<1>4. \/ UNCHANGED <<recovery, failure>>
      \/ /\ Usable
         /\ poll.seen = "failed" => recovery'
         /\ poll.seen = "unknown" /\ recovery => recovery'
         /\ "alone" \in failure' => \/ "alone" \in failure
                                    \/ poll.seen = "failed" /\ startup.pending = 0
  <2>1. CASE Usable
    <3>1. /\ poll.seen = "failed" => recovery'
          /\ poll.seen = "unknown" /\ recovery => recovery'
      <4>1. poll.seen = "failed" => recovery' \in {TRUE}
        BY <2>1 DEF Commit
      <4>2. poll.seen = "unknown" => recovery' \in {TRUE, recovery}
        BY <2>1 DEF Commit
      <4>3. poll.seen = "failed" => recovery' = TRUE
        BY <4>1
      <4>4. poll.seen = "unknown" /\ recovery => recovery' = TRUE
        BY <4>2, Zenon DEF TypeOK
      <4> QED
        BY <4>3, <4>4
    <3>2. \/ UNCHANGED failure
          \/ /\ poll.seen = "failed"
             /\ failure' = failure \cup {IF startup.pending # 0 THEN "pending"
                                        ELSE "alone"}
      BY <2>1 DEF Commit
    <3>3. "alone" \in failure' => \/ "alone" \in failure
                                  \/ poll.seen = "failed" /\ startup.pending = 0
      BY <3>2
    <3> QED
      BY <2>1, <3>1, <3>3
  <2>2. CASE ~Usable
    BY <2>2 DEF Commit
  <2> QED
    BY <2>1, <2>2
<1>5. Usable => worker = "none" /\ active = "none" /\ poll.current
  BY <1>1 DEF Usable, ServiceAgrees
<1>6. ServiceAgrees' /\ DriverKnows' /\ AttemptsAgree'
  <2>1. worker \in {"intended", "created", "verified"} => failure' = failure
    BY <1>4, <1>5
  <2> QED
    BY <1>1, <1>2, <1>3, <2>1 DEF ServiceAgrees, DriverKnows, AttemptsAgree
<1>7. HealthTruthful'
  BY <1>1, <1>3, <1>5 DEF HealthTruthful, ServiceAgrees
<1>8. CandidateHeld'
  BY <1>1, <1>2, <1>3 DEF CandidateHeld
<1>9. FailureKnown'
  BY <1>1, <1>3, <1>4, <1>5 DEF FailureKnown, HealthTruthful
<1>10. OwedKept'
  BY <1>1, <1>2, <1>3 DEF OwedKept, Eligible, Matches
<1>11. LostForgets' /\ UncleanAfterReboot' /\ ResumesWanted' /\ FenceQuiet'
  BY <1>1, <1>3 DEF LostForgets, UncleanAfterReboot, ResumesWanted, FenceQuiet
<1>12. NotForgotten'
  BY <1>1, <1>2, <1>3 DEF NotForgotten, Authorized, Attempted, Eligible, Matches, Earlier
<1> QED
  BY <1>6, <1>7, <1>8, <1>9, <1>10, <1>11, <1>12

LEMMA LoopDismissInv ==
    ASSUME IInv, TypeOK', LoopDismiss
    PROVE  IInv'
<1> USE Fields, Blank
        DEF IInv, host, public, revs, runtime, journal, service, past, history
<1>1. /\ up /\ loop.at = "seen" /\ loop' = NoLoop
      /\ UNCHANGED <<host, public, revs, runtime, journal, fence, service,
                     worker, history, owed>>
      /\ startup' = startup \/ startup' = Nil
  BY DEF LoopDismiss, Dismissed
<1>2. /\ poll'.busy = poll.busy /\ poll'.seen = poll.seen
      /\ poll'.current => poll.current
  BY PollStale DEF LoopDismiss, TypeOK
<1>3. ServiceAgrees' /\ DriverKnows' /\ AttemptsAgree' /\ CandidateHeld'
  BY <1>1, <1>2 DEF ServiceAgrees, DriverKnows, AttemptsAgree, CandidateHeld
<1>4. HealthTruthful'
  BY <1>1, <1>2 DEF HealthTruthful
<1>5. FailureKnown'
  BY <1>1, <1>2 DEF FailureKnown
<1>6. OwedKept'
  <2>1. "recorded" \in owed => startup' = startup
    BY DEF LoopDismiss, Dismissed, OwedKept, Authorized, Ready
  <2> QED
    BY <1>1, <1>2, <2>1 DEF OwedKept, Eligible, Matches
<1>7. /\ LostForgets' /\ UncleanAfterReboot' /\ ResumesWanted' /\ FenceQuiet'
  BY <1>1 DEF LostForgets, UncleanAfterReboot, ResumesWanted, FenceQuiet
<1>8. NotForgotten'
  <2>1. CASE Authorized /\ startup = loop.startup
    BY <2>1 DEF LoopDismiss, Dismissed, NotForgotten, Authorized, Matches
  <2>2. CASE ~(Authorized /\ startup = loop.startup)
    <3>1. startup' = startup
      BY <2>2 DEF LoopDismiss, Dismissed
    <3>2. ~Authorized
      BY <1>1, <2>2 DEF CandidateHeld, Authorized
    <3>3. Authorized' = Authorized
      BY <1>1, <3>1 DEF Authorized, Eligible, Matches, Earlier
    <3> QED
      BY <3>2, <3>3 DEF NotForgotten
  <2> QED
    BY <2>1, <2>2
<1> QED
  BY <1>3, <1>4, <1>5, <1>6, <1>7, <1>8

LEMMA LoopClaimInv ==
    ASSUME IInv, TypeOK', LoopClaim
    PROVE  IInv'
<1> USE Fields, Blank
        DEF IInv, host, public, revs, runtime, journal, service, past, history
<1>1. /\ up /\ loop.at = "seen" /\ loop' = NoLoop
      /\ ~fence /\ me \notin attempts /\ Authorized /\ startup = loop.startup
      /\ attempts' = attempts \cup {me}
      /\ active' = "resume" /\ begun' = FALSE /\ worker' = "queued"
      /\ owed' = {}
      /\ UNCHANGED <<host, desired, revs, box, verified, fence, service, history>>
  BY DEF LoopClaim, Blocked, Attempted, Claimable
<1>2. intent'.box = startup.box /\ intent'.unclean = startup.unclean
  BY <1>1 DEF LoopClaim
<1>3. /\ startup'.pending = 0 /\ startup'.healthy = startup.healthy
      /\ startup'.box = startup.box /\ startup'.config = startup.config
      /\ startup'.unclean = startup.unclean
  <2>1. startup \in Startup
    BY DEF TypeOK
  <2> QED
    BY <2>1, Unpended DEF LoopClaim
<1>4. /\ poll'.busy = poll.busy /\ poll'.seen = poll.seen /\ ~poll'.current
  BY PollStale DEF LoopClaim, TypeOK
<1>5. /\ me = boot /\ startup.pending = boot /\ me # 0 /\ Eligible /\ Matches
  BY <1>1 DEF ServiceAgrees, CandidateHeld, Authorized
<1>6. ServiceAgrees' /\ DriverKnows' /\ CandidateHeld'
  BY <1>1, <1>3, <1>4 DEF ServiceAgrees, DriverKnows, CandidateHeld
<1>7. AttemptsAgree'
  BY <1>1, <1>5 DEF AttemptsAgree
<1>8. HealthTruthful'
  BY <1>1, <1>3, <1>4 DEF HealthTruthful
<1>9. FailureKnown'
  BY <1>1, <1>5 DEF FailureKnown, Eligible
<1>10. UncleanAfterReboot'
  BY <1>1, <1>2, <1>5 DEF UncleanAfterReboot, HealthTruthful, Matches
<1>11. OwedKept' /\ LostForgets' /\ ResumesWanted' /\ FenceQuiet'
  BY <1>1, <1>3, <1>5 DEF OwedKept, LostForgets, ResumesWanted, FenceQuiet, Eligible
<1>12. NotForgotten'
  BY <1>1 DEF NotForgotten, Attempted
<1> QED
  BY <1>6, <1>7, <1>8, <1>9, <1>10, <1>11, <1>12

LEMMA BeginInv ==
    ASSUME IInv, TypeOK', Begin
    PROVE  IInv'
<1> USE Fields, Blank
        DEF IInv, host, public, revs, runtime, journal, service, past, history
<1>1. /\ worker = "queued" /\ worker' = "begun" /\ begun' = TRUE
      /\ driven' = IF active = "resume" THEN driven \cup {boot} ELSE driven
      /\ UNCHANGED <<host, desired, recovery, config, applied, runtime, startup,
                     active, attempts, poll, loop, seen, confirmed, fell,
                     failure, lost, owed, fence, service>>
  BY DEF Begin, Idle
<1>2. up /\ active # "none"
  BY <1>1 DEF ServiceAgrees
<1>3. ServiceAgrees' /\ DriverKnows' /\ CandidateHeld'
  BY <1>1, <1>2 DEF ServiceAgrees, DriverKnows, CandidateHeld
<1>4. AttemptsAgree'
  BY <1>1, <1>2 DEF AttemptsAgree
<1>5. HealthTruthful' /\ FailureKnown' /\ LostForgets'
  BY <1>1 DEF HealthTruthful, FailureKnown, LostForgets
<1>6. OwedKept'
  BY <1>1, <1>2 DEF OwedKept, Eligible
<1>7. UncleanAfterReboot' /\ ResumesWanted' /\ FenceQuiet'
  BY <1>1, <1>2 DEF UncleanAfterReboot, ResumesWanted, FenceQuiet
<1>8. NotForgotten'
  BY <1>1, <1>2 DEF NotForgotten, Authorized, Eligible
<1> QED
  BY <1>3, <1>4, <1>5, <1>6, <1>7, <1>8

LEMMA PersistRemovedInv ==
    ASSUME IInv, TypeOK', PersistRemoved
    PROVE  IInv'
<1> USE Fields, Blank
        DEF IInv, host, public, revs, runtime, journal, service, past, history
<1>1. /\ worker = "removing" /\ worker' = "removed" /\ box' = 0
      /\ UNCHANGED <<host, public, revs, intent, startup, journal, history, owed,
                     fence, service>>
  BY DEF PersistRemoved, Idle
<1>2. Bumped
  BY Bumps DEF PersistRemoved
<1>3. up /\ active # "none"
  BY <1>1 DEF ServiceAgrees
<1>4. ServiceAgrees' /\ DriverKnows' /\ AttemptsAgree' /\ CandidateHeld'
  BY <1>1, <1>2, <1>3
     DEF Bumped, ServiceAgrees, DriverKnows, AttemptsAgree, CandidateHeld
<1>5. HealthTruthful'
  BY <1>1, <1>2 DEF Bumped, HealthTruthful
<1>6. FailureKnown' /\ LostForgets'
  BY <1>1 DEF FailureKnown, LostForgets
<1>7. OwedKept'
  BY <1>1, <1>3 DEF OwedKept, Eligible
<1>8. UncleanAfterReboot' /\ ResumesWanted' /\ FenceQuiet'
  BY <1>1 DEF UncleanAfterReboot, ResumesWanted, FenceQuiet
<1>9. NotForgotten'
  BY <1>1, <1>3 DEF NotForgotten, Authorized, Eligible
<1> QED
  BY <1>4, <1>5, <1>6, <1>7, <1>8, <1>9

LEMMA IntendInv ==
    ASSUME IInv, TypeOK', Intend
    PROVE  IInv'
<1> USE Fields, Blank
        DEF IInv, host, public, revs, runtime, journal, service, past, history
<1>1. /\ worker' = "intended" /\ made' = made + 1 /\ box' = made + 1
      /\ intent' = NoIntent
      /\ seen' = 0 /\ failure' = {} /\ lost' = "none"
      /\ UNCHANGED <<boot, engine, public, revs, startup, journal, driven, owed,
                     fence, service>>
  BY DEF Intend, Idle
<1>2. Bumped
  BY Bumps DEF Intend
<1>3. up /\ worker # "none" /\ worker # "queued" /\ active \in {"resume", "start"}
  BY DEF Intend, ServiceAgrees
<1>4. box' \in Box /\ engine[box'] = "absent"
  BY <1>1 DEF Intend, ServiceAgrees, Box, TypeOK
<1>5. ServiceAgrees' /\ AttemptsAgree' /\ CandidateHeld'
  <2>1. \A c \in Box : c \in Nat
    BY DEF Box
  <2> QED
    BY <1>1, <1>2, <1>3, <2>1
       DEF Bumped, ServiceAgrees, AttemptsAgree, CandidateHeld
<1>6. DriverKnows'
  BY <1>1, <1>2, <1>3, <1>4 DEF Bumped, DriverKnows
<1>7. HealthTruthful'
  BY <1>1, <1>2, <1>4 DEF Bumped, HealthTruthful, ServiceAgrees
<1>8. FailureKnown' /\ LostForgets'
  BY <1>1 DEF FailureKnown, LostForgets
<1>9. OwedKept'
  BY <1>1, <1>3 DEF OwedKept, Eligible
<1>10. UncleanAfterReboot' /\ ResumesWanted' /\ FenceQuiet'
  BY <1>1 DEF UncleanAfterReboot, ResumesWanted, FenceQuiet
<1>11. NotForgotten'
  BY <1>1, <1>3 DEF NotForgotten, Authorized, Eligible
<1> QED
  BY <1>5, <1>6, <1>7, <1>8, <1>9, <1>10, <1>11

LEMMA LaunchInv ==
    ASSUME IInv, TypeOK', Launch
    PROVE  IInv'
<1> USE Fields, Blank
        DEF IInv, host, public, revs, runtime, journal, service, past, history
<1>1. /\ worker = "intended" /\ worker' = "created"
      /\ UNCHANGED <<boot, made, public, revs, runtime, startup, journal,
                     history, owed, fence, service>>
      /\ Bumped
  BY Bumps DEF Launch, Idle
<1>2. /\ up /\ active # "none" /\ box # 0 /\ seen = 0 /\ failure = {}
      /\ box <= made
  BY <1>1 DEF ServiceAgrees, DriverKnows
<1>3. \A c \in Box : c # box => engine'[c] = engine[c]
  BY DEF Launch, TypeOK
<1>4. ServiceAgrees' /\ DriverKnows' /\ AttemptsAgree' /\ CandidateHeld'
  BY <1>1, <1>2, <1>3
     DEF Bumped, ServiceAgrees, DriverKnows, AttemptsAgree, CandidateHeld
<1>5. HealthTruthful'
  BY <1>1, <1>2, <1>3 DEF Bumped, HealthTruthful, DriverKnows
<1>6. FailureKnown' /\ LostForgets'
  BY <1>1, <1>2 DEF Bumped, FailureKnown, LostForgets
<1>7. OwedKept'
  BY <1>1, <1>2 DEF OwedKept, Eligible
<1>8. UncleanAfterReboot' /\ ResumesWanted' /\ FenceQuiet'
  BY <1>1 DEF UncleanAfterReboot, ResumesWanted, FenceQuiet
<1>9. NotForgotten'
  BY <1>1, <1>2 DEF NotForgotten, Authorized, Eligible
<1> QED
  BY <1>4, <1>5, <1>6, <1>7, <1>8, <1>9

LEMMA VerifyInv ==
    ASSUME IInv, TypeOK', Verify
    PROVE  IInv'
<1> USE Fields, Blank
        DEF IInv, host, public, revs, runtime, journal, service, past, history
<1>1. /\ worker = "created" /\ engine[box] = "running" /\ verified' = TRUE
      /\ seen' = boot /\ worker' = "verified"
      /\ UNCHANGED <<host, public, revs, box, intent, startup, journal,
                     confirmed, fell, failure, lost, driven, owed, fence, service>>
  BY DEF Verify, Idle
<1>2. Bumped
  BY Bumps DEF Verify
<1>3. up /\ active # "none" /\ box # 0 /\ failure = {} /\ intent = NoIntent
  BY <1>1 DEF ServiceAgrees, DriverKnows
<1>4. ServiceAgrees' /\ DriverKnows' /\ AttemptsAgree' /\ CandidateHeld'
  BY <1>1, <1>2, <1>3
     DEF Bumped, ServiceAgrees, DriverKnows, AttemptsAgree, CandidateHeld
<1>5. HealthTruthful'
  BY <1>1, <1>2, <1>3 DEF Bumped, HealthTruthful
<1>6. FailureKnown' /\ LostForgets'
  BY <1>1, <1>3 DEF FailureKnown, LostForgets
<1>7. OwedKept'
  BY <1>1, <1>3 DEF OwedKept, Eligible
<1>8. UncleanAfterReboot' /\ ResumesWanted' /\ FenceQuiet'
  BY <1>1, <1>3 DEF UncleanAfterReboot, ResumesWanted, FenceQuiet
<1>9. NotForgotten'
  BY <1>1, <1>3 DEF NotForgotten, Authorized, Eligible
<1> QED
  BY <1>4, <1>5, <1>6, <1>7, <1>8, <1>9

LEMMA FinishRunningInv ==
    ASSUME IInv, TypeOK', FinishRunning
    PROVE  IInv'
<1> USE Fields, Blank
        DEF IInv, host, public, revs, runtime, journal, service, past, history
<1>1. /\ worker = "verified" /\ worker' = "none" /\ active' = "none"
      /\ begun' = FALSE /\ lost' = "none"
      /\ UNCHANGED <<host, desired, config, launch, runtime, attempts, seen,
                     fell, failure, driven, owed, fence, service>>
  BY DEF FinishRunning, Finish, Idle
<1>2. Bumped
  BY Bumps DEF FinishRunning, Finish
<1>3. /\ up /\ active # "none" /\ box # 0 /\ failure = {} /\ seen = boot
      /\ intent = NoIntent /\ me \in {0, boot} /\ box <= made
  BY <1>1 DEF ServiceAgrees, DriverKnows
<1>4. \/ me = 0 /\ startup' = startup
      \/ /\ me # 0 /\ startup'.healthy = me /\ startup'.pending = 0
         /\ startup'.box = box /\ ~startup'.unclean
  BY DEF FinishRunning, Recorded
<1>5. ServiceAgrees' /\ DriverKnows' /\ AttemptsAgree'
  BY <1>1, <1>2, <1>3, <1>4 DEF Bumped, ServiceAgrees, DriverKnows, AttemptsAgree
<1>6. HealthTruthful'
  BY <1>1, <1>2, <1>3, <1>4 DEF Bumped, HealthTruthful
<1>7. CandidateHeld'
  BY <1>1, <1>2, <1>3, <1>4 DEF Bumped, CandidateHeld
<1>8. FailureKnown' /\ LostForgets'
  BY <1>1, <1>3 DEF FailureKnown, LostForgets
<1>9. OwedKept'
  BY <1>1, <1>3 DEF OwedKept, Eligible
<1>10. UncleanAfterReboot' /\ ResumesWanted' /\ FenceQuiet'
  BY <1>1 DEF UncleanAfterReboot, ResumesWanted, FenceQuiet
<1>11. NotForgotten'
  BY <1>1, <1>4 DEF NotForgotten, Authorized
<1> QED
  BY <1>5, <1>6, <1>7, <1>8, <1>9, <1>10, <1>11

LEMMA FinishStoppedInv ==
    ASSUME IInv, TypeOK', FinishStopped
    PROVE  IInv'
<1> USE Fields, Blank
        DEF IInv, host, public, revs, runtime, journal, service, past, history
<1>1. /\ worker' = "none" /\ active' = "none" /\ begun' = FALSE
      /\ UNCHANGED <<host, desired, config, applied, launch, runtime, startup,
                     attempts, seen, confirmed, fell, failure, lost, driven,
                     owed, fence, service>>
  BY DEF FinishStopped, Finish, Idle
<1>2. Bumped
  BY Bumps DEF FinishStopped, Finish
<1>3. up /\ active = "stop" /\ box = 0 /\ worker # "none"
  BY DEF FinishStopped, ServiceAgrees, DriverKnows
<1>4. ServiceAgrees' /\ DriverKnows' /\ AttemptsAgree' /\ CandidateHeld'
  BY <1>1, <1>2, <1>3
     DEF Bumped, ServiceAgrees, DriverKnows, AttemptsAgree, CandidateHeld
<1>5. HealthTruthful'
  BY <1>1, <1>2 DEF Bumped, HealthTruthful
<1>6. FailureKnown' /\ LostForgets'
  BY <1>1, <1>3 DEF FailureKnown, LostForgets
<1>7. OwedKept'
  BY <1>1, <1>3 DEF OwedKept, Eligible
<1>8. UncleanAfterReboot' /\ ResumesWanted' /\ FenceQuiet'
  BY <1>1 DEF UncleanAfterReboot, ResumesWanted, FenceQuiet
<1>9. NotForgotten'
  BY <1>1, <1>3 DEF NotForgotten, Authorized, Eligible
<1> QED
  BY <1>4, <1>5, <1>6, <1>7, <1>8, <1>9

LEMMA FinishFailedInv ==
    ASSUME IInv, TypeOK', FinishFailed
    PROVE  IInv'
<1> USE Fields, Blank
        DEF IInv, host, public, revs, runtime, journal, service, past, history
<1>1. /\ worker # "none" /\ worker' = "none" /\ active' = "none"
      /\ begun' = FALSE /\ startup' = Nil
      /\ UNCHANGED <<host, desired, config, applied, launch, runtime, attempts,
                     seen, confirmed, fell, failure, driven, owed, fence, service>>
  BY DEF FinishFailed, Condemn, Finish, Idle
<1>2. Bumped
  BY Bumps DEF FinishFailed, Finish
<1>3. up /\ active # "none"
  BY <1>1 DEF ServiceAgrees
<1>4. box # 0 => recovery'
  BY DEF FinishFailed, Condemn
<1>5. ServiceAgrees' /\ DriverKnows' /\ AttemptsAgree' /\ CandidateHeld'
  BY <1>1, <1>2, <1>3
     DEF Bumped, ServiceAgrees, DriverKnows, AttemptsAgree, CandidateHeld
<1>6. HealthTruthful'
  BY <1>1, <1>2 DEF Bumped, HealthTruthful
<1>7. FailureKnown'
  BY <1>1, <1>2, <1>4 DEF Bumped, FailureKnown
<1>8. OwedKept'
  BY <1>1, <1>3 DEF OwedKept, Eligible
<1>9. LostForgets' /\ UncleanAfterReboot' /\ ResumesWanted' /\ FenceQuiet'
  BY <1>1 DEF LostForgets, UncleanAfterReboot, ResumesWanted, FenceQuiet
<1>10. NotForgotten'
  BY <1>1 DEF NotForgotten, Authorized, Matches
<1> QED
  BY <1>5, <1>6, <1>7, <1>8, <1>9, <1>10

-----------------------------------------------------------------------------
(* The invariant *)

LEMMA InitIInv == Init => IInv
<1> SUFFICES ASSUME Init PROVE IInv
  OBVIOUS
<1> USE Blank, Empty, BoundsAssumption DEF Init
<1>1. TypeOK
  <2> USE DEF Boot, Box, Revision, Seen, Exited
  <2>1. /\ boot \in Boot /\ made \in 0 .. MaxBox
        /\ config \in Revision /\ applied \in Revision /\ launch \in Revision
        /\ box \in Box \cup {0} /\ me \in Boot \cup {0} /\ seen \in Boot \cup {0}
        /\ attempts \subseteq Boot /\ driven \subseteq Boot
    OBVIOUS
  <2>2. /\ engine \in [Box -> {"absent", "running"} \cup Exited]
        /\ startup \in Startup /\ intent \in Intent
        /\ poll \in Poll /\ loop \in Loop
    OBVIOUS
  <2>3. /\ recovery \in BOOLEAN /\ verified \in BOOLEAN /\ begun \in BOOLEAN
        /\ fence \in BOOLEAN /\ up \in BOOLEAN
        /\ confirmed \in BOOLEAN /\ fell \in BOOLEAN
    OBVIOUS
  <2>4. /\ desired \in {"running", "stopped"} /\ observed \in Seen \cup {"busy"}
        /\ active \in {"none", "resume", "start", "stop"}
        /\ worker \in {"none", "queued", "begun", "removing", "removed",
                       "intended", "created", "verified"}
        /\ failure \subseteq {"alone", "pending"}
        /\ lost \in {"none", "resume", "start", "stop"}
        /\ owed \subseteq {"recorded", "confirmed"}
    OBVIOUS
  <2> QED
    BY <2>1, <2>2, <2>3, <2>4 DEF TypeOK
<1>2. ServiceAgrees /\ DriverKnows /\ AttemptsAgree
  BY DEF ServiceAgrees, DriverKnows, AttemptsAgree
<1>3. HealthTruthful /\ CandidateHeld /\ FailureKnown /\ OwedKept /\ LostForgets
  BY DEF HealthTruthful, CandidateHeld, FailureKnown, OwedKept, LostForgets
<1>4. UncleanAfterReboot /\ ResumesWanted /\ FenceQuiet /\ NotForgotten
  BY DEF UncleanAfterReboot, ResumesWanted, FenceQuiet, NotForgotten
<1> QED
  BY <1>1, <1>2, <1>3, <1>4 DEF IInv

LEMMA StutterInv ==
    ASSUME IInv, UNCHANGED vars
    PROVE  IInv'
<1> USE DEF vars, host, public, revs, runtime, journal, service, past, history,
            IInv
<1>1. TypeOK'
  BY DEF TypeOK
<1>2. ServiceAgrees' /\ DriverKnows' /\ AttemptsAgree' /\ CandidateHeld'
  BY DEF ServiceAgrees, DriverKnows, AttemptsAgree, CandidateHeld
<1>3. HealthTruthful' /\ FailureKnown' /\ LostForgets'
  BY DEF HealthTruthful, FailureKnown, LostForgets
<1>4. OwedKept'
  BY DEF OwedKept, Eligible, Matches
<1>5. UncleanAfterReboot' /\ ResumesWanted' /\ FenceQuiet'
  BY DEF UncleanAfterReboot, ResumesWanted, FenceQuiet
<1>6. NotForgotten'
  BY DEF NotForgotten, Authorized, Attempted, Eligible, Matches, Earlier
<1> QED
  BY <1>1, <1>2, <1>3, <1>4, <1>5, <1>6

LEMMA StepIInv == IInv /\ [Next]_vars => IInv'
<1> SUFFICES ASSUME IInv, [Next]_vars PROVE IInv'
  OBVIOUS
<1>1. TypeOK'
  BY TypeStep DEF IInv
<1>2. CASE Surroundings
  BY <1>1, <1>2, RestartInv, DieInv, RebootInv, ExitInv DEF Surroundings
<1>3. CASE Operator
  BY <1>1, <1>3, AcceptInv, ConfigureInv, FenceInv DEF Operator
<1>4. CASE Poller
  BY <1>1, <1>4, ObserveInv, CommitInv DEF Poller
<1>5. CASE Resumer
  BY <1>1, <1>5, LoopReadInv, LoopObserveInv, LoopDismissInv, LoopClaimInv,
     LoopMissInv DEF Resumer
<1>6. CASE Worker
  BY <1>1, <1>6, BeginInv, RemoveInv, PersistRemovedInv, IntendInv, LaunchInv,
     VerifyInv, FinishRunningInv, FinishStoppedInv, FinishFailedInv DEF Worker
<1>7. CASE UNCHANGED vars
  BY <1>7, StutterInv
<1> QED
  BY <1>2, <1>3, <1>4, <1>5, <1>6, <1>7 DEF Next

\* Every reachable state satisfies the inductive invariant.
THEOREM Invariance == Spec => []IInv
<1>1. Init => IInv
  BY InitIInv
<1>2. IInv /\ [Next]_vars => IInv'
  BY StepIInv
<1> QED
  BY <1>1, <1>2, PTL DEF Spec

-----------------------------------------------------------------------------
(* What the invariant says *)

\* The variables keep their types.
THEOREM TypeCorrect == Spec => []TypeOK
<1>1. IInv => TypeOK
  BY DEF IInv
<1> QED
  BY <1>1, Invariance, PTL

\* Only a container that was running healthy before the host rebooted is ever
\* replaced unattended after a failure.
THEOREM UncleanIsSafe == Spec => []UncleanAfterReboot
<1>1. IInv => UncleanAfterReboot
  BY DEF IInv
<1> QED
  BY <1>1, Invariance, PTL

\* No resume runs against the operator's stop or edit.
THEOREM ResumesAreWanted == Spec => []ResumesWanted
<1>1. IInv => ResumesWanted
  BY DEF IInv
<1> QED
  BY <1>1, Invariance, PTL

\* The update fence is held only over an idle service.
THEOREM FenceIsQuiet == Spec => []FenceQuiet
<1>1. IInv => FenceQuiet
  BY DEF IInv
<1> QED
  BY <1>1, Invariance, PTL

\* An authorized ship stays on the list of resumeStartup.
THEOREM NeverForgotten == Spec => []NotForgotten
<1>1. IInv => NotForgotten
  BY DEF IInv
<1> QED
  BY <1>1, Invariance, PTL

\* A recorded health survives whatever happens between the reboot and the
\* resume.
THEOREM OwedIsAuthorized == Spec => []ResumeSurvives
<1>1. ASSUME IInv, up, "recorded" \in owed
      PROVE  Authorized /\ startup.unclean
  <2>1. /\ Eligible /\ Matches /\ me = boot /\ startup.pending = boot
        /\ startup.unclean /\ startup.healthy \in 1 .. boot - 1
    BY <1>1 DEF IInv, OwedKept
  <2>2. boot \in Nat
    BY <1>1, Fields DEF IInv
  <2> QED
    BY <2>1, <2>2 DEF Authorized, Earlier
<1>2. IInv => ResumeSurvives
  BY <1>1 DEF ResumeSurvives
<1> QED
  BY <1>2, Invariance, PTL

-----------------------------------------------------------------------------
(* Steps *)

\* A resume is accepted by claimStartup alone.
LEMMA OnlyClaimed ==
    ASSUME IInv, [Next]_vars, Claims
    PROVE  LoopClaim
<1> USE DEF Claims, host, public, revs, runtime, journal, service, past, history
<1>1. ~Restart
  BY DEF Restart, Reconcile, Candidates
<1>2. ~Die /\ ~Reboot /\ ~(\E c \in Box : Exit(c))
  BY DEF Die, Reboot, Exit
<1>3. ~Accept("start") /\ ~Accept("stop") /\ ~Configure /\ ~Fence
  BY DEF Accept, Configure, Fence
<1>4. ~Observe /\ ~Commit
  BY DEF Observe, Commit
<1>5. ~LoopRead /\ ~LoopObserve /\ ~LoopDismiss /\ ~LoopMiss
  BY DEF LoopRead, LoopObserve, LoopDismiss, LoopMiss, Kept
<1>6. ~Begin /\ ~Remove /\ ~PersistRemoved /\ ~Intend /\ ~Launch /\ ~Verify
  BY DEF Begin, Remove, PersistRemoved, Intend, Launch, Verify
<1>7. ~FinishRunning /\ ~FinishStopped /\ ~FinishFailed
  BY DEF FinishRunning, FinishStopped, FinishFailed, Finish
<1>8. ~UNCHANGED vars
  BY DEF vars
<1> QED
  BY <1>1, <1>2, <1>3, <1>4, <1>5, <1>6, <1>7, <1>8
     DEF Next, Surroundings, Operator, Poller, Resumer, Worker

\* What claimStartup finds in the row.
LEMMA ClaimFinds ==
    ASSUME IInv, LoopClaim
    PROVE  /\ Eligible /\ startup.pending # 0
           /\ intent'.unclean => startup.healthy # 0
<1>1. Authorized /\ startup = loop.startup /\ loop.at = "seen"
  BY DEF LoopClaim, Claimable
<1>2. intent'.unclean = startup.unclean
  BY <1>1 DEF LoopClaim
<1>3. me # 0
  BY <1>1 DEF IInv, CandidateHeld
<1> QED
  BY <1>1, <1>2, <1>3 DEF Authorized, IInv, HealthTruthful

\* A host boot dispatches at most one resume of the ship.
THEOREM OneAttempt == Spec => OncePerBoot
<1>1. IInv /\ [Next]_vars =>
         [worker = "queued" /\ active = "resume" /\ worker' = "begun"
          => boot \notin driven]_vars
  BY DEF IInv, AttemptsAgree
<1> QED
  BY <1>1, Invariance, PTL DEF Spec, OncePerBoot

\* A failure recorded without a pending boot is never resumed by itself.
THEOREM KnownFailuresStay == Spec => KnownFailureStays
<1>1. IInv /\ [Next]_vars => [Claims => "alone" \notin failure]_vars
  BY OnlyClaimed, ClaimFinds DEF IInv, FailureKnown, Eligible
<1> QED
  BY <1>1, Invariance, PTL DEF Spec, KnownFailureStays

\* After a failed operation nothing is resumed uncleanly before a healthy
\* observation.
THEOREM FailuresDiscard == Spec => FailureDiscards
<1>1. IInv /\ [Next]_vars => [Claims /\ intent'.unclean => lost = "none"]_vars
  BY OnlyClaimed, ClaimFinds DEF IInv, LostForgets
<1> QED
  BY <1>1, Invariance, PTL DEF Spec, FailureDiscards

=============================================================================
