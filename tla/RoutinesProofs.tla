--------------------------- MODULE RoutinesProofs ---------------------------
(* The invariant of Routines is inductive, one lemma per action, so its parts  *)
(* hold for every calendar, window, number of owners and of edits.            *)
EXTENDS Routines, TLAPS

\* The invariant without its types.
SafetyInv ==
    /\ RunIsApproved
    /\ RunsSettled
    /\ BegunInWindow
    /\ DowntimeConsented
    /\ ResumeEarned
    /\ OutcomeDesired
    /\ Progress
    /\ Consent
    /\ History

\* SetClock keeps the invariant.
LEMMA SetClockKeeps == ASSUME IInv, SetClock PROVE IInv'
<1>. USE BoundsAssumption, ConfigAssumption
    DEF vars, row, revs, past, Over, Done, Never, Claimed
<1>1. run' \in Run
    BY DEF IInv, TypeOK, Run, Stage, Time, SetClock
<1>2. policy' \in Policy
    BY DEF IInv, TypeOK, Policy, Time, SetClock
<1>3. /\ handled' \subseteq Time /\ begun' \in Time \cup {-1}
     /\ clock' \in Time /\ granted' \subseteq Owner
    BY DEF IInv, TypeOK, SetClock
<1>4. /\ fresh' \in BOOLEAN /\ recovery' \in BOOLEAN
     /\ uncertain' \in BOOLEAN /\ packed' \in BOOLEAN
    BY DEF IInv, TypeOK, SetClock
<1>5. TypeOK'
    BY <1>1, <1>2, <1>3, <1>4 DEF IInv, TypeOK, Observed, SetClock
<1>6. SafetyInv'
    BY DEF SafetyInv, IInv, TypeOK, Policy, Run, Time, Stage, Config,
       RunIsApproved, RunsSettled, BegunInWindow, DowntimeConsented,
       ResumeEarned, OutcomeDesired, Progress, Consent, History, SetClock
<1>. QED
  BY <1>5, <1>6 DEF IInv, SafetyInv

\* Exit keeps the invariant.
LEMMA ExitKeeps == ASSUME IInv, Exit PROVE IInv'
<1>. USE BoundsAssumption, ConfigAssumption
    DEF vars, row, revs, past, Over, Done, Never, Claimed
<1>1. run' \in Run
    BY DEF IInv, TypeOK, Run, Stage, Time, Exit
<1>2. policy' \in Policy
    BY DEF IInv, TypeOK, Policy, Time, Exit
<1>3. /\ handled' \subseteq Time /\ begun' \in Time \cup {-1}
     /\ clock' \in Time /\ granted' \subseteq Owner
    BY DEF IInv, TypeOK, Exit
<1>4. /\ fresh' \in BOOLEAN /\ recovery' \in BOOLEAN
     /\ uncertain' \in BOOLEAN /\ packed' \in BOOLEAN
    BY DEF IInv, TypeOK, Exit
<1>5. TypeOK'
    BY <1>1, <1>2, <1>3, <1>4 DEF IInv, TypeOK, Observed, Exit
<1>6. SafetyInv'
    BY DEF SafetyInv, IInv, TypeOK, Policy, Run, Time, Stage, Config,
       RunIsApproved, RunsSettled, BegunInWindow, DowntimeConsented,
       ResumeEarned, OutcomeDesired, Progress, Consent, History, Exit
<1>. QED
  BY <1>5, <1>6 DEF IInv, SafetyInv

\* Poll keeps the invariant.
LEMMA PollKeeps == ASSUME IInv, Poll PROVE IInv'
<1>. USE BoundsAssumption, ConfigAssumption
    DEF vars, row, revs, past, Over, Done, Never, Claimed
<1>1. run' \in Run
    BY DEF IInv, TypeOK, Run, Stage, Time, Poll
<1>2. policy' \in Policy
    BY DEF IInv, TypeOK, Policy, Time, Poll
<1>3. /\ handled' \subseteq Time /\ begun' \in Time \cup {-1}
     /\ clock' \in Time /\ granted' \subseteq Owner
    BY DEF IInv, TypeOK, Poll
<1>4. /\ fresh' \in BOOLEAN /\ recovery' \in BOOLEAN
     /\ uncertain' \in BOOLEAN /\ packed' \in BOOLEAN
    BY DEF IInv, TypeOK, Poll
<1>5. TypeOK'
    BY <1>1, <1>2, <1>3, <1>4 DEF IInv, TypeOK, Observed, Poll
<1>6. SafetyInv'
    BY DEF SafetyInv, IInv, TypeOK, Policy, Run, Time, Stage, Config,
       RunIsApproved, RunsSettled, BegunInWindow, DowntimeConsented,
       ResumeEarned, OutcomeDesired, Progress, Consent, History, Poll
<1>. QED
  BY <1>5, <1>6 DEF IInv, SafetyInv

\* Configure keeps the invariant.
LEMMA ConfigureKeeps == ASSUME IInv, Configure PROVE IInv'
<1>. USE BoundsAssumption, ConfigAssumption
    DEF vars, row, revs, past, Over, Done, Never, Claimed
<1>1. run' \in Run
    BY DEF IInv, TypeOK, Run, Stage, Time, Configure
<1>2. policy' \in Policy
    BY DEF IInv, TypeOK, Policy, Time, Configure
<1>3. /\ handled' \subseteq Time /\ begun' \in Time \cup {-1}
     /\ clock' \in Time /\ granted' \subseteq Owner
    BY DEF IInv, TypeOK, Configure
<1>4. /\ fresh' \in BOOLEAN /\ recovery' \in BOOLEAN
     /\ uncertain' \in BOOLEAN /\ packed' \in BOOLEAN
    BY DEF IInv, TypeOK, Configure
<1>5. TypeOK'
    BY <1>1, <1>2, <1>3, <1>4 DEF IInv, TypeOK, Observed, Configure
<1>6. SafetyInv'
    BY DEF SafetyInv, IInv, TypeOK, Policy, Run, Time, Stage, Config,
       RunIsApproved, RunsSettled, BegunInWindow, DowntimeConsented,
       ResumeEarned, OutcomeDesired, Progress, Consent, History, Configure
<1>. QED
  BY <1>5, <1>6 DEF IInv, SafetyInv

\* JournalFails keeps the invariant.
LEMMA JournalFailsKeeps == ASSUME IInv, JournalFails PROVE IInv'
<1>. USE BoundsAssumption, ConfigAssumption
    DEF vars, row, revs, past, Over, Done, Never, Claimed
<1>1. run' \in Run
    BY DEF IInv, TypeOK, Run, Stage, Time, JournalFails
<1>2. policy' \in Policy
    BY DEF IInv, TypeOK, Policy, Time, JournalFails
<1>3. /\ handled' \subseteq Time /\ begun' \in Time \cup {-1}
     /\ clock' \in Time /\ granted' \subseteq Owner
    BY DEF IInv, TypeOK, JournalFails
<1>4. /\ fresh' \in BOOLEAN /\ recovery' \in BOOLEAN
     /\ uncertain' \in BOOLEAN /\ packed' \in BOOLEAN
    BY DEF IInv, TypeOK, JournalFails
<1>5. TypeOK'
    BY <1>1, <1>2, <1>3, <1>4 DEF IInv, TypeOK, Observed, JournalFails
<1>6. SafetyInv'
    BY DEF SafetyInv, IInv, TypeOK, Policy, Run, Time, Stage, Config,
       RunIsApproved, RunsSettled, BegunInWindow, DowntimeConsented,
       ResumeEarned, OutcomeDesired, Progress, Consent, History, JournalFails
<1>. QED
  BY <1>5, <1>6 DEF IInv, SafetyInv

\* Crash keeps the invariant.
LEMMA CrashKeeps == ASSUME IInv, Crash PROVE IInv'
<1>. USE BoundsAssumption, ConfigAssumption
    DEF vars, row, revs, past, Over, Done, Never, Claimed
<1>1. run' \in Run
    BY DEF IInv, TypeOK, Run, Stage, Time, Crash
<1>2. policy' \in Policy
    BY DEF IInv, TypeOK, Policy, Time, Crash
<1>3. /\ handled' \subseteq Time /\ begun' \in Time \cup {-1}
     /\ clock' \in Time /\ granted' \subseteq Owner
    BY DEF IInv, TypeOK, Crash
<1>4. /\ fresh' \in BOOLEAN /\ recovery' \in BOOLEAN
     /\ uncertain' \in BOOLEAN /\ packed' \in BOOLEAN
    BY DEF IInv, TypeOK, Crash
<1>5. TypeOK'
    BY <1>1, <1>2, <1>3, <1>4 DEF IInv, TypeOK, Observed, Crash
<1>6. SafetyInv'
    BY DEF SafetyInv, IInv, TypeOK, Policy, Run, Time, Stage, Config,
       RunIsApproved, RunsSettled, BegunInWindow, DowntimeConsented,
       ResumeEarned, OutcomeDesired, Progress, Consent, History, Crash
<1>. QED
  BY <1>5, <1>6 DEF IInv, SafetyInv

\* Restart keeps the invariant.
LEMMA RestartKeeps == ASSUME IInv, Restart PROVE IInv'
<1>. USE BoundsAssumption, ConfigAssumption
    DEF vars, row, revs, past, Over, Done, Never, Claimed
<1>1. run' \in Run
    BY DEF IInv, TypeOK, Run, Stage, Time, Restart, Interrupted
<1>2. policy' \in Policy
    BY DEF IInv, TypeOK, Policy, Time, Restart, Interrupted
<1>3. /\ handled' \subseteq Time /\ begun' \in Time \cup {-1}
     /\ clock' \in Time /\ granted' \subseteq Owner
    BY DEF IInv, TypeOK, Restart, Interrupted
<1>4. /\ fresh' \in BOOLEAN /\ recovery' \in BOOLEAN
     /\ uncertain' \in BOOLEAN /\ packed' \in BOOLEAN
    BY DEF IInv, TypeOK, Restart, Interrupted
<1>5. TypeOK'
    BY <1>1, <1>2, <1>3, <1>4 DEF IInv, TypeOK, Observed, Restart,
       Interrupted
<1>6. SafetyInv'
  <2>1. RunIsApproved'
      BY DEF IInv, TypeOK, Policy, Run, Time, Stage, Config, RunIsApproved,
         RunsSettled, BegunInWindow, DowntimeConsented, ResumeEarned,
         OutcomeDesired, Progress, Consent, History, Restart, Interrupted
  <2>2. RunsSettled'
      BY DEF IInv, TypeOK, Policy, Run, Time, Stage, Config, RunIsApproved,
         RunsSettled, BegunInWindow, DowntimeConsented, ResumeEarned,
         OutcomeDesired, Progress, Consent, History, Restart, Interrupted
  <2>3. BegunInWindow'
      BY DEF IInv, TypeOK, Policy, Run, Time, Stage, Config, RunIsApproved,
         RunsSettled, BegunInWindow, DowntimeConsented, ResumeEarned,
         OutcomeDesired, Progress, Consent, History, Restart, Interrupted
  <2>4. DowntimeConsented'
      BY DEF IInv, TypeOK, Policy, Run, Time, Stage, Config, RunIsApproved,
         RunsSettled, BegunInWindow, DowntimeConsented, ResumeEarned,
         OutcomeDesired, Progress, Consent, History, Restart, Interrupted
  <2>5. ResumeEarned'
      BY DEF IInv, TypeOK, Policy, Run, Time, Stage, Config, RunIsApproved,
         RunsSettled, BegunInWindow, DowntimeConsented, ResumeEarned,
         OutcomeDesired, Progress, Consent, History, Restart, Interrupted
  <2>6. OutcomeDesired'
      BY DEF IInv, TypeOK, Policy, Run, Time, Stage, Config, RunIsApproved,
         RunsSettled, BegunInWindow, DowntimeConsented, ResumeEarned,
         OutcomeDesired, Progress, Consent, History, Restart, Interrupted
  <2>7. Progress'
      BY DEF IInv, TypeOK, Policy, Run, Time, Stage, Config, RunIsApproved,
         RunsSettled, BegunInWindow, DowntimeConsented, ResumeEarned,
         OutcomeDesired, Progress, Consent, History, Restart, Interrupted
  <2>8. Consent'
      BY DEF IInv, TypeOK, Policy, Run, Time, Stage, Config, RunIsApproved,
         RunsSettled, BegunInWindow, DowntimeConsented, ResumeEarned,
         OutcomeDesired, Progress, Consent, History, Restart, Interrupted
  <2>9. History'
      BY DEF IInv, TypeOK, Policy, Run, Time, Stage, Config, RunIsApproved,
         RunsSettled, BegunInWindow, DowntimeConsented, ResumeEarned,
         OutcomeDesired, Progress, Consent, History, Restart, Interrupted
  <2>. QED
    BY <2>1, <2>2, <2>3, <2>4, <2>5, <2>6, <2>7, <2>8, <2>9 DEF SafetyInv
<1>. QED
  BY <1>5, <1>6 DEF IInv, SafetyInv

\* Access keeps the invariant.
LEMMA AccessKeeps == ASSUME NEW o \in Owner, IInv, Access(o) PROVE IInv'
<1>. USE BoundsAssumption, ConfigAssumption
    DEF vars, row, revs, past, Over, Done, Never, Claimed
<1>1. run' \in Run
    BY DEF IInv, TypeOK, Run, Stage, Time, Access
<1>2. policy' \in Policy
    BY DEF IInv, TypeOK, Policy, Time, Access
<1>3. /\ handled' \subseteq Time /\ begun' \in Time \cup {-1}
     /\ clock' \in Time /\ granted' \subseteq Owner
    BY DEF IInv, TypeOK, Access
<1>4. /\ fresh' \in BOOLEAN /\ recovery' \in BOOLEAN
     /\ uncertain' \in BOOLEAN /\ packed' \in BOOLEAN
    BY DEF IInv, TypeOK, Access
<1>5. TypeOK'
    BY <1>1, <1>2, <1>3, <1>4 DEF IInv, TypeOK, Observed, Access
<1>6. SafetyInv'
    BY DEF SafetyInv, IInv, TypeOK, Policy, Run, Time, Stage, Config,
       RunIsApproved, RunsSettled, BegunInWindow, DowntimeConsented,
       ResumeEarned, OutcomeDesired, Progress, Consent, History, Access
<1>. QED
  BY <1>5, <1>6 DEF IInv, SafetyInv

\* PutRoutine keeps the invariant.
LEMMA PutRoutineKeeps ==
    ASSUME NEW o \in Owner, NEW c \in Configs, IInv, PutRoutine(o, c) PROVE IInv'
<1>. USE BoundsAssumption, ConfigAssumption
    DEF vars, row, revs, past, Over, Done, Never, Claimed
<1>1. run' \in Run
    BY DEF IInv, TypeOK, Run, Stage, Time, PutRoutine, Editable
<1>2. policy' \in Policy
  <2>1. policy.rev + 1 \in 0 .. MaxEdits /\ config \in 0 .. MaxRevision
    BY DEF PutRoutine, IInv, TypeOK, Policy
  <2>. QED
    BY <2>1 DEF PutRoutine, Policy, IInv, TypeOK
<1>3. /\ handled' \subseteq Time /\ begun' \in Time \cup {-1}
     /\ clock' \in Time /\ granted' \subseteq Owner
    BY DEF IInv, TypeOK, PutRoutine, Editable
<1>4. /\ fresh' \in BOOLEAN /\ recovery' \in BOOLEAN
     /\ uncertain' \in BOOLEAN /\ packed' \in BOOLEAN
    BY DEF IInv, TypeOK, PutRoutine, Editable
<1>5. TypeOK'
    BY <1>1, <1>2, <1>3, <1>4 DEF IInv, TypeOK, Observed, PutRoutine,
       Editable
<1>6. SafetyInv'
    BY DEF SafetyInv, IInv, TypeOK, Policy, Run, Time, Stage, Config,
       RunIsApproved, RunsSettled, BegunInWindow, DowntimeConsented,
       ResumeEarned, OutcomeDesired, Progress, Consent, History, PutRoutine,
       Editable
<1>. QED
  BY <1>5, <1>6 DEF IInv, SafetyInv

\* Operate keeps the invariant.
LEMMA OperateKeeps == ASSUME NEW d \in {"running", "stopped"}, IInv, Operate(d) PROVE IInv'
<1>. USE BoundsAssumption, ConfigAssumption
    DEF vars, row, revs, past, Over, Done, Never, Claimed
<1>1. run' \in Run
    BY DEF IInv, TypeOK, Run, Stage, Time, Operate
<1>2. policy' \in Policy
    BY DEF IInv, TypeOK, Policy, Time, Operate
<1>3. /\ handled' \subseteq Time /\ begun' \in Time \cup {-1}
     /\ clock' \in Time /\ granted' \subseteq Owner
    BY DEF IInv, TypeOK, Operate
<1>4. /\ fresh' \in BOOLEAN /\ recovery' \in BOOLEAN
     /\ uncertain' \in BOOLEAN /\ packed' \in BOOLEAN
    BY DEF IInv, TypeOK, Operate
<1>5. TypeOK'
    BY <1>1, <1>2, <1>3, <1>4 DEF IInv, TypeOK, Observed, Operate
<1>6. SafetyInv'
    BY DEF SafetyInv, IInv, TypeOK, Policy, Run, Time, Stage, Config,
       RunIsApproved, RunsSettled, BegunInWindow, DowntimeConsented,
       ResumeEarned, OutcomeDesired, Progress, Consent, History, Operate
<1>. QED
  BY <1>5, <1>6 DEF IInv, SafetyInv

\* Claim keeps the invariant.
LEMMA ClaimKeeps == ASSUME NEW s \in Time, IInv, Claim(s) PROVE IInv'
<1>. USE BoundsAssumption, ConfigAssumption
    DEF vars, row, revs, past, Over, Done, Never, Claimed
<1>1. run' \in Run
  <2>1. CASE Skip(s)
    BY <2>1 DEF Skip, IInv, TypeOK
  <2>2. CASE Queue(s)
    <3>1. policy.rev \in 0 .. MaxEdits /\ policy.config \in Config
      BY DEF IInv, TypeOK, Policy
    <3>2. policy.config.stop \in BOOLEAN /\ policy.config.resume \in BOOLEAN
      BY <3>1 DEF Config
    <3>. QED
      BY <2>2, <3>1, <3>2 DEF Queue, Run, Stage, IInv, TypeOK
  <2>. QED
    BY <2>1, <2>2 DEF Claim
<1>2. policy' \in Policy
    BY DEF IInv, TypeOK, Policy, Time, Claim, Due, Later, Admissible,
       Settled, Quiet, Skip, Queue, Wanted
<1>3. /\ handled' \subseteq Time /\ begun' \in Time \cup {-1}
     /\ clock' \in Time /\ granted' \subseteq Owner
    BY DEF IInv, TypeOK, Claim, Due, Later, Admissible, Settled, Quiet, Skip,
       Queue, Wanted
<1>4. /\ fresh' \in BOOLEAN /\ recovery' \in BOOLEAN
     /\ uncertain' \in BOOLEAN /\ packed' \in BOOLEAN
    BY DEF IInv, TypeOK, Claim, Due, Later, Admissible, Settled, Quiet, Skip,
       Queue, Wanted
<1>5. TypeOK'
    BY <1>1, <1>2, <1>3, <1>4 DEF IInv, TypeOK, Observed, Claim, Due, Later,
       Admissible, Settled, Quiet, Skip, Queue, Wanted
<1>6. SafetyInv'
    BY DEF SafetyInv, IInv, TypeOK, Policy, Run, Time, Stage, Config,
       RunIsApproved, RunsSettled, BegunInWindow, DowntimeConsented,
       ResumeEarned, OutcomeDesired, Progress, Consent, History, Claim, Due,
       Later, Admissible, Settled, Quiet, Skip, Queue, Wanted
<1>. QED
  BY <1>5, <1>6 DEF IInv, SafetyInv

\* Begin keeps the invariant.
LEMMA BeginKeeps == ASSUME IInv, Begin PROVE IInv'
<1>. USE BoundsAssumption, ConfigAssumption
    DEF vars, row, revs, past, Over, Done, Never, Claimed
<1>1. run' \in Run
    BY DEF IInv, TypeOK, Run, Stage, Time, Begin, Failed
<1>2. policy' \in Policy
    BY DEF IInv, TypeOK, Policy, Time, Begin, Failed
<1>3. /\ handled' \subseteq Time /\ begun' \in Time \cup {-1}
     /\ clock' \in Time /\ granted' \subseteq Owner
    BY DEF IInv, TypeOK, Begin, Failed
<1>4. /\ fresh' \in BOOLEAN /\ recovery' \in BOOLEAN
     /\ uncertain' \in BOOLEAN /\ packed' \in BOOLEAN
    BY DEF IInv, TypeOK, Begin, Failed
<1>5. TypeOK'
    BY <1>1, <1>2, <1>3, <1>4 DEF IInv, TypeOK, Observed, Begin, Failed
<1>6. SafetyInv'
  <2>1. RunIsApproved'
      BY DEF IInv, TypeOK, Policy, Run, Time, Stage, Config, RunIsApproved,
         RunsSettled, BegunInWindow, DowntimeConsented, ResumeEarned,
         OutcomeDesired, Progress, Consent, History, Begin, Failed
  <2>2. RunsSettled'
      BY DEF IInv, TypeOK, Policy, Run, Time, Stage, Config, RunIsApproved,
         RunsSettled, BegunInWindow, DowntimeConsented, ResumeEarned,
         OutcomeDesired, Progress, Consent, History, Begin, Failed
  <2>3. BegunInWindow'
      BY DEF IInv, TypeOK, Policy, Run, Time, Stage, Config, RunIsApproved,
         RunsSettled, BegunInWindow, DowntimeConsented, ResumeEarned,
         OutcomeDesired, Progress, Consent, History, Begin, Failed
  <2>4. DowntimeConsented'
      BY DEF IInv, TypeOK, Policy, Run, Time, Stage, Config, RunIsApproved,
         RunsSettled, BegunInWindow, DowntimeConsented, ResumeEarned,
         OutcomeDesired, Progress, Consent, History, Begin, Failed
  <2>5. ResumeEarned'
      BY DEF IInv, TypeOK, Policy, Run, Time, Stage, Config, RunIsApproved,
         RunsSettled, BegunInWindow, DowntimeConsented, ResumeEarned,
         OutcomeDesired, Progress, Consent, History, Begin, Failed
  <2>6. OutcomeDesired'
      BY DEF IInv, TypeOK, Policy, Run, Time, Stage, Config, RunIsApproved,
         RunsSettled, BegunInWindow, DowntimeConsented, ResumeEarned,
         OutcomeDesired, Progress, Consent, History, Begin, Failed
  <2>7. Progress'
    <3>1. CASE worker' = "begun"
      <4>1. UNCHANGED <<run, uncertain, mode>> /\ active' = "routine"
        BY <3>1 DEF Begin, Failed, row, IInv, Progress
      <4>. QED
        BY <3>1, <4>1 DEF IInv, TypeOK, Run, Stage, Progress, RunIsApproved, RunsSettled, Begin
    <3>2. CASE Failed("unknown") /\ UNCHANGED <<uncertain, mode>>
      BY <3>2 DEF IInv, TypeOK, Run, Stage, Progress, RunIsApproved, RunsSettled, Begin, Failed
    <3>. QED
      BY <3>1, <3>2 DEF Begin
  <2>8. Consent'
      BY DEF IInv, TypeOK, Policy, Run, Time, Stage, Config, RunIsApproved,
         RunsSettled, BegunInWindow, DowntimeConsented, ResumeEarned,
         OutcomeDesired, Progress, Consent, History, Begin, Failed
  <2>9. History'
      BY DEF IInv, TypeOK, Policy, Run, Time, Stage, Config, RunIsApproved,
         RunsSettled, BegunInWindow, DowntimeConsented, ResumeEarned,
         OutcomeDesired, Progress, Consent, History, Begin, Failed
  <2>. QED
    BY <2>1, <2>2, <2>3, <2>4, <2>5, <2>6, <2>7, <2>8, <2>9 DEF SafetyInv
<1>. QED
  BY <1>5, <1>6 DEF IInv, SafetyInv

\* Admit keeps the invariant.
LEMMA AdmitKeeps == ASSUME IInv, Admit PROVE IInv'
<1>. USE BoundsAssumption, ConfigAssumption
    DEF vars, row, revs, past, Over, Done, Never, Claimed
<1>1. run' \in Run
    BY DEF IInv, TypeOK, Run, Stage, Time, Admit, Failed
<1>2. policy' \in Policy
    BY DEF IInv, TypeOK, Policy, Time, Admit, Failed
<1>3. /\ handled' \subseteq Time /\ begun' \in Time \cup {-1}
     /\ clock' \in Time /\ granted' \subseteq Owner
    BY DEF IInv, TypeOK, Admit, Failed
<1>4. /\ fresh' \in BOOLEAN /\ recovery' \in BOOLEAN
     /\ uncertain' \in BOOLEAN /\ packed' \in BOOLEAN
    BY DEF IInv, TypeOK, Admit, Failed
<1>5. TypeOK'
    BY <1>1, <1>2, <1>3, <1>4 DEF IInv, TypeOK, Observed, Admit, Failed
<1>6. SafetyInv'
  <2>1. RunIsApproved'
      BY DEF IInv, TypeOK, Policy, Run, Time, Stage, Config, RunIsApproved,
         RunsSettled, BegunInWindow, DowntimeConsented, ResumeEarned,
         OutcomeDesired, Progress, Consent, History, Admit, Failed
  <2>2. RunsSettled'
      BY DEF IInv, TypeOK, Policy, Run, Time, Stage, Config, RunIsApproved,
         RunsSettled, BegunInWindow, DowntimeConsented, ResumeEarned,
         OutcomeDesired, Progress, Consent, History, Admit, Failed
  <2>3. BegunInWindow'
      BY DEF IInv, TypeOK, Policy, Run, Time, Stage, Config, RunIsApproved,
         RunsSettled, BegunInWindow, DowntimeConsented, ResumeEarned,
         OutcomeDesired, Progress, Consent, History, Admit, Failed
  <2>4. DowntimeConsented'
      BY DEF IInv, TypeOK, Policy, Run, Time, Stage, Config, RunIsApproved,
         RunsSettled, BegunInWindow, DowntimeConsented, ResumeEarned,
         OutcomeDesired, Progress, Consent, History, Admit, Failed
  <2>5. ResumeEarned'
      BY DEF IInv, TypeOK, Policy, Run, Time, Stage, Config, RunIsApproved,
         RunsSettled, BegunInWindow, DowntimeConsented, ResumeEarned,
         OutcomeDesired, Progress, Consent, History, Admit, Failed
  <2>6. OutcomeDesired'
      BY DEF IInv, TypeOK, Policy, Run, Time, Stage, Config, RunIsApproved,
         RunsSettled, BegunInWindow, DowntimeConsented, ResumeEarned,
         OutcomeDesired, Progress, Consent, History, Admit, Failed
  <2>7. Progress'
    <3>1. CASE worker' = "admitted"
      <4>1. UNCHANGED <<run, uncertain, mode>> /\ active' = "routine"
        BY <3>1 DEF Admit, Failed, row, IInv, Progress
      <4>. QED
        BY <3>1, <4>1 DEF IInv, TypeOK, Run, Stage, Progress, RunIsApproved, RunsSettled, Admit
    <3>2. CASE Failed("unknown") /\ UNCHANGED <<uncertain, mode>>
      BY <3>2 DEF IInv, TypeOK, Run, Stage, Progress, RunIsApproved, RunsSettled, Admit, Failed
    <3>. QED
      BY <3>1, <3>2 DEF Admit
  <2>8. Consent'
      BY DEF IInv, TypeOK, Policy, Run, Time, Stage, Config, RunIsApproved,
         RunsSettled, BegunInWindow, DowntimeConsented, ResumeEarned,
         OutcomeDesired, Progress, Consent, History, Admit, Failed
  <2>9. History'
      BY DEF IInv, TypeOK, Policy, Run, Time, Stage, Config, RunIsApproved,
         RunsSettled, BegunInWindow, DowntimeConsented, ResumeEarned,
         OutcomeDesired, Progress, Consent, History, Admit, Failed
  <2>. QED
    BY <2>1, <2>2, <2>3, <2>4, <2>5, <2>6, <2>7, <2>8, <2>9 DEF SafetyInv
<1>. QED
  BY <1>5, <1>6 DEF IInv, SafetyInv

\* Observe keeps the invariant.
LEMMA ObserveKeeps == ASSUME IInv, Observe PROVE IInv'
<1>. USE BoundsAssumption, ConfigAssumption
    DEF vars, row, revs, past, Over, Done, Never, Claimed
<1>1. run' \in Run
    BY DEF IInv, TypeOK, Run, Stage, Time, Observe, Failed, InWindow
<1>2. policy' \in Policy
    BY DEF IInv, TypeOK, Policy, Time, Observe, Failed, InWindow
<1>3. /\ handled' \subseteq Time /\ begun' \in Time \cup {-1}
     /\ clock' \in Time /\ granted' \subseteq Owner
    BY DEF IInv, TypeOK, Observe, Failed, InWindow
<1>4. /\ fresh' \in BOOLEAN /\ recovery' \in BOOLEAN
     /\ uncertain' \in BOOLEAN /\ packed' \in BOOLEAN
    BY DEF IInv, TypeOK, Observe, Failed, InWindow
<1>5. TypeOK'
    BY <1>1, <1>2, <1>3, <1>4 DEF IInv, TypeOK, Observed, Observe, Failed,
       InWindow
<1>6. SafetyInv'
  <2>1. RunIsApproved'
      BY DEF IInv, TypeOK, Policy, Run, Time, Stage, Config, RunIsApproved,
         RunsSettled, BegunInWindow, DowntimeConsented, ResumeEarned,
         OutcomeDesired, Progress, Consent, History, Observe, Failed, InWindow
  <2>2. RunsSettled'
      BY DEF IInv, TypeOK, Policy, Run, Time, Stage, Config, RunIsApproved,
         RunsSettled, BegunInWindow, DowntimeConsented, ResumeEarned,
         OutcomeDesired, Progress, Consent, History, Observe, Failed, InWindow
  <2>3. BegunInWindow'
      BY DEF IInv, TypeOK, Policy, Run, Time, Stage, Config, RunIsApproved,
         RunsSettled, BegunInWindow, DowntimeConsented, ResumeEarned,
         OutcomeDesired, Progress, Consent, History, Observe, Failed, InWindow
  <2>4. DowntimeConsented'
      BY DEF IInv, TypeOK, Policy, Run, Time, Stage, Config, RunIsApproved,
         RunsSettled, BegunInWindow, DowntimeConsented, ResumeEarned,
         OutcomeDesired, Progress, Consent, History, Observe, Failed, InWindow
  <2>5. ResumeEarned'
      BY DEF IInv, TypeOK, Policy, Run, Time, Stage, Config, RunIsApproved,
         RunsSettled, BegunInWindow, DowntimeConsented, ResumeEarned,
         OutcomeDesired, Progress, Consent, History, Observe, Failed, InWindow
  <2>6. OutcomeDesired'
      BY DEF IInv, TypeOK, Policy, Run, Time, Stage, Config, RunIsApproved,
         RunsSettled, BegunInWindow, DowntimeConsented, ResumeEarned,
         OutcomeDesired, Progress, Consent, History, Observe, Failed, InWindow
  <2>7. Progress'
    <3>1. CASE worker' = "observed"
      <4>1. UNCHANGED <<run, uncertain, mode>> /\ active' = "routine"
        BY <3>1 DEF Observe, Failed, row, IInv, Progress
      <4>. QED
        BY <3>1, <4>1 DEF IInv, TypeOK, Run, Stage, Progress, RunIsApproved, RunsSettled, Observe, InWindow
    <3>2. CASE Failed("unknown") /\ UNCHANGED <<uncertain, mode>>
      BY <3>2 DEF IInv, TypeOK, Run, Stage, Progress, RunIsApproved, RunsSettled, Observe, InWindow, Failed
    <3>. QED
      BY <3>1, <3>2 DEF Observe
  <2>8. Consent'
      BY DEF IInv, TypeOK, Policy, Run, Time, Stage, Config, RunIsApproved,
         RunsSettled, BegunInWindow, DowntimeConsented, ResumeEarned,
         OutcomeDesired, Progress, Consent, History, Observe, Failed, InWindow
  <2>9. History'
      BY DEF IInv, TypeOK, Policy, Run, Time, Stage, Config, RunIsApproved,
         RunsSettled, BegunInWindow, DowntimeConsented, ResumeEarned,
         OutcomeDesired, Progress, Consent, History, Observe, Failed, InWindow
  <2>. QED
    BY <2>1, <2>2, <2>3, <2>4, <2>5, <2>6, <2>7, <2>8, <2>9 DEF SafetyInv
<1>. QED
  BY <1>5, <1>6 DEF IInv, SafetyInv

\* Dispatch keeps the invariant.
LEMMA DispatchKeeps == ASSUME IInv, Dispatch PROVE IInv'
<1>. USE BoundsAssumption, ConfigAssumption
    DEF vars, row, revs, past, Over, Done, Never, Claimed
<1>1. run' \in Run
    BY DEF IInv, TypeOK, Run, Stage, Time, Dispatch, InWindow
<1>2. policy' \in Policy
    BY DEF IInv, TypeOK, Policy, Time, Dispatch, InWindow
<1>3. /\ handled' \subseteq Time /\ begun' \in Time \cup {-1}
     /\ clock' \in Time /\ granted' \subseteq Owner
    BY DEF IInv, TypeOK, Dispatch, InWindow
<1>4. /\ fresh' \in BOOLEAN /\ recovery' \in BOOLEAN
     /\ uncertain' \in BOOLEAN /\ packed' \in BOOLEAN
    BY DEF IInv, TypeOK, Dispatch, InWindow
<1>5. TypeOK'
    BY <1>1, <1>2, <1>3, <1>4 DEF IInv, TypeOK, Observed, Dispatch, InWindow
<1>6. SafetyInv'
    BY DEF SafetyInv, IInv, TypeOK, Policy, Run, Time, Stage, Config,
       RunIsApproved, RunsSettled, BegunInWindow, DowntimeConsented,
       ResumeEarned, OutcomeDesired, Progress, Consent, History, Dispatch,
       InWindow
<1>. QED
  BY <1>5, <1>6 DEF IInv, SafetyInv

\* Stop keeps the invariant.
LEMMA StopKeeps == ASSUME IInv, Stop PROVE IInv'
<1>. USE BoundsAssumption, ConfigAssumption
    DEF vars, row, revs, past, Over, Done, Never, Claimed
<1>1. run' \in Run
    BY DEF IInv, TypeOK, Run, Stage, Time, Stop, Advance
<1>2. policy' \in Policy
    BY DEF IInv, TypeOK, Policy, Time, Stop, Advance
<1>3. /\ handled' \subseteq Time /\ begun' \in Time \cup {-1}
     /\ clock' \in Time /\ granted' \subseteq Owner
    BY DEF IInv, TypeOK, Stop, Advance
<1>4. /\ fresh' \in BOOLEAN /\ recovery' \in BOOLEAN
     /\ uncertain' \in BOOLEAN /\ packed' \in BOOLEAN
    BY DEF IInv, TypeOK, Stop, Advance
<1>5. TypeOK'
    BY <1>1, <1>2, <1>3, <1>4 DEF IInv, TypeOK, Observed, Stop, Advance
<1>6. SafetyInv'
  <2>1. /\ run' \in Run /\ run'.rev = run.rev /\ run'.slot = run.slot /\ run'.stop = run.stop
      /\ run'.resume = run.resume /\ run'.was = run.was /\ run'.started = run.started
      /\ UNCHANGED <<policy, config, active, handled, desired, mode, begun>>
    BY DEF IInv, TypeOK, Run, Stage, Stop, Advance, row, past
  <2>2. /\ worker = "stop" /\ worker' = "pack" /\ UNCHANGED <<uncertain, packed>>
        /\ run'.finished = run.finished
    BY DEF IInv, TypeOK, Run, Stop, Advance, row, past
  <2>. QED
    BY <2>1, <2>2 DEF SafetyInv, IInv, TypeOK, Run, RunIsApproved, RunsSettled,
      BegunInWindow, DowntimeConsented, ResumeEarned, OutcomeDesired,
      Progress, Consent, History
<1>. QED
  BY <1>5, <1>6 DEF IInv, SafetyInv

\* Pack keeps the invariant.
LEMMA PackKeeps == ASSUME IInv, Pack PROVE IInv'
<1>. USE BoundsAssumption, ConfigAssumption
    DEF vars, row, revs, past, Over, Done, Never, Claimed
<1>1. run' \in Run
    BY DEF IInv, TypeOK, Run, Stage, Time, Pack
<1>2. policy' \in Policy
    BY DEF IInv, TypeOK, Policy, Time, Pack
<1>3. /\ handled' \subseteq Time /\ begun' \in Time \cup {-1}
     /\ clock' \in Time /\ granted' \subseteq Owner
    BY DEF IInv, TypeOK, Pack
<1>4. /\ fresh' \in BOOLEAN /\ recovery' \in BOOLEAN
     /\ uncertain' \in BOOLEAN /\ packed' \in BOOLEAN
    BY DEF IInv, TypeOK, Pack
<1>5. TypeOK'
    BY <1>1, <1>2, <1>3, <1>4 DEF IInv, TypeOK, Observed, Pack
<1>6. SafetyInv'
    BY DEF SafetyInv, IInv, TypeOK, Policy, Run, Time, Stage, Config,
       RunIsApproved, RunsSettled, BegunInWindow, DowntimeConsented,
       ResumeEarned, OutcomeDesired, Progress, Consent, History, Pack
<1>. QED
  BY <1>5, <1>6 DEF IInv, SafetyInv

\* Packed keeps the invariant.
LEMMA PackedKeeps == ASSUME IInv, Packed PROVE IInv'
<1>. USE BoundsAssumption, ConfigAssumption
    DEF vars, row, revs, past, Over, Done, Never, Claimed
<1>1. run' \in Run
  <2>1. CASE Resumes
    BY <2>1 DEF IInv, TypeOK, Run, Stage, Packed, Advance
  <2>2. CASE ~Resumes
    BY <2>2 DEF IInv, TypeOK, Run, Stage, Packed, Complete
  <2>. QED
    BY <2>1, <2>2
<1>2. policy' \in Policy
    BY DEF IInv, TypeOK, Policy, Time, Packed, Advance, Complete, Resumes
<1>3. /\ handled' \subseteq Time /\ begun' \in Time \cup {-1}
     /\ clock' \in Time /\ granted' \subseteq Owner
    BY DEF IInv, TypeOK, Packed, Advance, Complete, Resumes
<1>4. /\ fresh' \in BOOLEAN /\ recovery' \in BOOLEAN
     /\ uncertain' \in BOOLEAN /\ packed' \in BOOLEAN
    BY DEF IInv, TypeOK, Packed, Advance, Complete, Resumes
<1>5. TypeOK'
    BY <1>1, <1>2, <1>3, <1>4 DEF IInv, TypeOK, Observed, Packed, Advance,
       Complete, Resumes
<1>6. SafetyInv'
  <2>1. /\ run' \in Run /\ run'.rev = run.rev /\ run'.slot = run.slot /\ run'.stop = run.stop
      /\ run'.resume = run.resume /\ run'.was = run.was /\ run'.started = run.started
      /\ UNCHANGED <<policy, config, active, handled, desired, mode, begun>>
    <3>1. CASE Resumes
      BY <3>1, <1>1 DEF IInv, TypeOK, Run, Packed, Advance
    <3>2. CASE ~Resumes
      BY <3>2, <1>1 DEF IInv, TypeOK, Run, Packed, Complete
    <3>. QED
      BY <3>1, <3>2
  <2>2. worker = "packing" /\ uncertain' = FALSE /\ packed' = TRUE
    BY DEF Packed
  <2>3. \/ worker' = "start" /\ run.was /\ run.resume /\ run'.finished = run.finished
        \/ worker' = "down" /\ ~(run.was /\ run.resume) /\ run'.finished = TRUE
    BY DEF IInv, TypeOK, Run, Packed, Advance, Complete, Resumes
  <2>. QED
    BY <2>1, <2>2, <2>3 DEF SafetyInv, IInv, TypeOK, Run, RunIsApproved, RunsSettled,
      BegunInWindow, DowntimeConsented, ResumeEarned, OutcomeDesired,
      Progress, Consent, History
<1>. QED
  BY <1>5, <1>6 DEF IInv, SafetyInv

\* Start keeps the invariant.
LEMMA StartKeeps == ASSUME IInv, Start PROVE IInv'
<1>. USE BoundsAssumption, ConfigAssumption
    DEF vars, row, revs, past, Over, Done, Never, Claimed
<1>1. run' \in Run
    BY DEF IInv, TypeOK, Run, Stage, Time, Start, Complete
<1>2. policy' \in Policy
    BY DEF IInv, TypeOK, Policy, Time, Start, Complete
<1>3. /\ handled' \subseteq Time /\ begun' \in Time \cup {-1}
     /\ clock' \in Time /\ granted' \subseteq Owner
    BY DEF IInv, TypeOK, Start, Complete
<1>4. /\ fresh' \in BOOLEAN /\ recovery' \in BOOLEAN
     /\ uncertain' \in BOOLEAN /\ packed' \in BOOLEAN
    BY DEF IInv, TypeOK, Start, Complete
<1>5. TypeOK'
    BY <1>1, <1>2, <1>3, <1>4 DEF IInv, TypeOK, Observed, Start, Complete
<1>6. SafetyInv'
    BY DEF SafetyInv, IInv, TypeOK, Policy, Run, Time, Stage, Config,
       RunIsApproved, RunsSettled, BegunInWindow, DowntimeConsented,
       ResumeEarned, OutcomeDesired, Progress, Consent, History, Start, Complete
<1>. QED
  BY <1>5, <1>6 DEF IInv, SafetyInv

\* StepFails keeps the invariant.
LEMMA StepFailsKeeps == ASSUME IInv, StepFails PROVE IInv'
<1>. USE BoundsAssumption, ConfigAssumption
    DEF vars, row, revs, past, Over, Done, Never, Claimed
<1>1. run' \in Run
    BY DEF IInv, TypeOK, Run, Stage, Time, StepFails, Failed
<1>2. policy' \in Policy
    BY DEF IInv, TypeOK, Policy, Time, StepFails, Failed
<1>3. /\ handled' \subseteq Time /\ begun' \in Time \cup {-1}
     /\ clock' \in Time /\ granted' \subseteq Owner
    BY DEF IInv, TypeOK, StepFails, Failed
<1>4. /\ fresh' \in BOOLEAN /\ recovery' \in BOOLEAN
     /\ uncertain' \in BOOLEAN /\ packed' \in BOOLEAN
    BY DEF IInv, TypeOK, StepFails, Failed
<1>5. TypeOK'
    BY <1>1, <1>2, <1>3, <1>4 DEF IInv, TypeOK, Observed, StepFails, Failed
<1>6. SafetyInv'
    BY DEF SafetyInv, IInv, TypeOK, Policy, Run, Time, Stage, Config,
       RunIsApproved, RunsSettled, BegunInWindow, DowntimeConsented,
       ResumeEarned, OutcomeDesired, Progress, Consent, History, StepFails,
       Failed
<1>. QED
  BY <1>5, <1>6 DEF IInv, SafetyInv

\* Finish keeps the invariant.
LEMMA FinishKeeps == ASSUME IInv, Finish PROVE IInv'
<1>. USE BoundsAssumption, ConfigAssumption
    DEF vars, row, revs, past, Over, Done, Never, Claimed
<1>1. run' \in Run
    BY DEF IInv, TypeOK, Run, Stage, Time, Finish
<1>2. policy' \in Policy
    BY DEF IInv, TypeOK, Policy, Time, Finish
<1>3. /\ handled' \subseteq Time /\ begun' \in Time \cup {-1}
     /\ clock' \in Time /\ granted' \subseteq Owner
    BY DEF IInv, TypeOK, Finish
<1>4. /\ fresh' \in BOOLEAN /\ recovery' \in BOOLEAN
     /\ uncertain' \in BOOLEAN /\ packed' \in BOOLEAN
    BY DEF IInv, TypeOK, Finish
<1>5. TypeOK'
    BY <1>1, <1>2, <1>3, <1>4 DEF IInv, TypeOK, Observed, Finish
<1>6. SafetyInv'
  <2>1. RunIsApproved'
      BY DEF IInv, TypeOK, Policy, Run, Time, Stage, Config, RunIsApproved,
         RunsSettled, BegunInWindow, DowntimeConsented, ResumeEarned,
         OutcomeDesired, Progress, Consent, History, Finish
  <2>2. RunsSettled'
      BY DEF IInv, TypeOK, Policy, Run, Time, Stage, Config, RunIsApproved,
         RunsSettled, BegunInWindow, DowntimeConsented, ResumeEarned,
         OutcomeDesired, Progress, Consent, History, Finish
  <2>3. BegunInWindow'
      BY DEF IInv, TypeOK, Policy, Run, Time, Stage, Config, RunIsApproved,
         RunsSettled, BegunInWindow, DowntimeConsented, ResumeEarned,
         OutcomeDesired, Progress, Consent, History, Finish
  <2>4. DowntimeConsented'
      BY DEF IInv, TypeOK, Policy, Run, Time, Stage, Config, RunIsApproved,
         RunsSettled, BegunInWindow, DowntimeConsented, ResumeEarned,
         OutcomeDesired, Progress, Consent, History, Finish
  <2>5. ResumeEarned'
      BY DEF IInv, TypeOK, Policy, Run, Time, Stage, Config, RunIsApproved,
         RunsSettled, BegunInWindow, DowntimeConsented, ResumeEarned,
         OutcomeDesired, Progress, Consent, History, Finish
  <2>6. OutcomeDesired'
      BY DEF IInv, TypeOK, Policy, Run, Time, Stage, Config, RunIsApproved,
         RunsSettled, BegunInWindow, DowntimeConsented, ResumeEarned,
         OutcomeDesired, Progress, Consent, History, Finish
  <2>7. Progress'
      BY DEF IInv, TypeOK, Policy, Run, Time, Stage, Config, RunIsApproved,
         RunsSettled, BegunInWindow, DowntimeConsented, ResumeEarned,
         OutcomeDesired, Progress, Consent, History, Finish
  <2>8. Consent'
      BY DEF IInv, TypeOK, Policy, Run, Time, Stage, Config, RunIsApproved,
         RunsSettled, BegunInWindow, DowntimeConsented, ResumeEarned,
         OutcomeDesired, Progress, Consent, History, Finish
  <2>9. History'
      BY DEF IInv, TypeOK, Policy, Run, Time, Stage, Config, RunIsApproved,
         RunsSettled, BegunInWindow, DowntimeConsented, ResumeEarned,
         OutcomeDesired, Progress, Consent, History, Finish
  <2>. QED
    BY <2>1, <2>2, <2>3, <2>4, <2>5, <2>6, <2>7, <2>8, <2>9 DEF SafetyInv
<1>. QED
  BY <1>5, <1>6 DEF IInv, SafetyInv

\* Refuse keeps the invariant.
LEMMA RefuseKeeps == ASSUME IInv, Refuse PROVE IInv'
<1>. USE BoundsAssumption, ConfigAssumption
    DEF vars, row, revs, past, Over, Done, Never, Claimed
<1>1. run' \in Run
    BY DEF IInv, TypeOK, Run, Stage, Time, Refuse, Failed
<1>2. policy' \in Policy
    BY DEF IInv, TypeOK, Policy, Time, Refuse, Failed
<1>3. /\ handled' \subseteq Time /\ begun' \in Time \cup {-1}
     /\ clock' \in Time /\ granted' \subseteq Owner
    BY DEF IInv, TypeOK, Refuse, Failed
<1>4. /\ fresh' \in BOOLEAN /\ recovery' \in BOOLEAN
     /\ uncertain' \in BOOLEAN /\ packed' \in BOOLEAN
    BY DEF IInv, TypeOK, Refuse, Failed
<1>5. TypeOK'
    BY <1>1, <1>2, <1>3, <1>4 DEF IInv, TypeOK, Observed, Refuse, Failed
<1>6. SafetyInv'
    BY DEF SafetyInv, IInv, TypeOK, Policy, Run, Time, Stage, Config,
       RunIsApproved, RunsSettled, BegunInWindow, DowntimeConsented,
       ResumeEarned, OutcomeDesired, Progress, Consent, History, Refuse, Failed
<1>. QED
  BY <1>5, <1>6 DEF IInv, SafetyInv

\* OperateDone keeps the invariant.
LEMMA OperateDoneKeeps == ASSUME IInv, OperateDone PROVE IInv'
<1>. USE BoundsAssumption, ConfigAssumption
    DEF vars, row, revs, past, Over, Done, Never, Claimed
<1>1. run' \in Run
    BY DEF IInv, TypeOK, Run, Stage, Time, OperateDone
<1>2. policy' \in Policy
    BY DEF IInv, TypeOK, Policy, Time, OperateDone
<1>3. /\ handled' \subseteq Time /\ begun' \in Time \cup {-1}
     /\ clock' \in Time /\ granted' \subseteq Owner
    BY DEF IInv, TypeOK, OperateDone
<1>4. /\ fresh' \in BOOLEAN /\ recovery' \in BOOLEAN
     /\ uncertain' \in BOOLEAN /\ packed' \in BOOLEAN
    BY DEF IInv, TypeOK, OperateDone
<1>5. TypeOK'
    BY <1>1, <1>2, <1>3, <1>4 DEF IInv, TypeOK, Observed, OperateDone
<1>6. SafetyInv'
    BY DEF SafetyInv, IInv, TypeOK, Policy, Run, Time, Stage, Config,
       RunIsApproved, RunsSettled, BegunInWindow, DowntimeConsented,
       ResumeEarned, OutcomeDesired, Progress, Consent, History, OperateDone
<1>. QED
  BY <1>5, <1>6 DEF IInv, SafetyInv

\* Nothing happened: the invariant stays.
LEMMA StutterKeeps == ASSUME IInv, UNCHANGED vars PROVE IInv'
<1>. USE DEF vars, row, revs, past, Over, Done, Never, Claimed
<1>1. TypeOK'  BY DEF IInv, TypeOK, Observed
<1>2. SafetyInv'  BY DEF SafetyInv, IInv, RunIsApproved, RunsSettled, BegunInWindow, DowntimeConsented,
  ResumeEarned, OutcomeDesired, Progress, Consent, History
<1>. QED  BY <1>1, <1>2 DEF IInv, SafetyInv

\* The initial state satisfies the invariant.
LEMMA InitHolds == ASSUME Init PROVE IInv
<1>. USE BoundsAssumption, ConfigAssumption DEF Never, Done, Claimed
<1>1. policy \in Policy  BY DEF Init, Policy, Time
<1>2. run \in Run  BY DEF Init, NoRun, Run, Stage, Time
<1>0. 0 \in Time /\ 1 \in 1 .. MaxRevision /\ 0 \in 0 .. MaxRevision  BY DEF Time
<1>3. TypeOK  BY <1>1, <1>2, <1>0 DEF Init, TypeOK, Observed
<1>4. SafetyInv  BY DEF Init, NoRun, SafetyInv, RunIsApproved, RunsSettled, BegunInWindow, DowntimeConsented,
  ResumeEarned, OutcomeDesired, Progress, Consent, History
<1>. QED  BY <1>3, <1>4 DEF IInv, SafetyInv

\* Every state of every run satisfies the inductive invariant, whatever the
\* calendar, the jumps of the clock and the crashes.
THEOREM Invariance == Spec => []IInv
<1>1. Init => IInv  BY InitHolds
<1>2. IInv /\ [Next]_vars => IInv'
  <2>. SUFFICES ASSUME IInv, [Next]_vars PROVE IInv'
    OBVIOUS
  <2>1. CASE UNCHANGED vars  BY <2>1, StutterKeeps
  <2>2. CASE Worker
    BY <2>2, BeginKeeps, AdmitKeeps, ObserveKeeps, DispatchKeeps, StopKeeps, PackKeeps,
       PackedKeeps, StartKeeps, StepFailsKeeps, FinishKeeps, RefuseKeeps, OperateDoneKeeps DEF Worker
  <2>3. ASSUME NEW o \in Owner, Access(o) \/ \E c \in Configs : PutRoutine(o, c) PROVE IInv'
    BY <2>3, AccessKeeps, PutRoutineKeeps
  <2>4. ASSUME NEW d \in {"running", "stopped"}, Operate(d) PROVE IInv'
    BY <2>4, OperateKeeps
  <2>5. ASSUME NEW s \in Time, Claim(s) PROVE IInv'
    BY <2>5, ClaimKeeps
  <2>. QED
    BY <2>1, <2>2, <2>3, <2>4, <2>5, SetClockKeeps, ExitKeeps, PollKeeps, ConfigureKeeps,
       JournalFailsKeeps, CrashKeeps, RestartKeeps DEF Next
<1>. QED  BY <1>1, <1>2, PTL DEF Spec

\* The policy, the revision and the consent a routine was claimed under are the
\* saved ones until it ends (putRoutine and configure refuse a busy ship).
THEOREM RunsApproved == Spec => []RunIsApproved
<1>1. IInv => RunIsApproved  BY DEF IInv
<1>. QED  BY <1>1, Invariance, PTL

\* A running service never holds a routine that nobody works on, nor an
\* unfinished record of one (claimRoutine, finish, reconcileInterrupted).
THEOREM RunsAreSettled == Spec => []RunsSettled
<1>1. IInv => RunsSettled  BY DEF IInv
<1>. QED  BY <1>1, Invariance, PTL

\* The first disruptive step of a routine is taken inside its window, wherever
\* the clock jumped to meanwhile (the two checks of applyRoutine).
THEOREM WindowsKept == Spec => []BegunInWindow
<1>1. IInv => BegunInWindow  BY DEF IInv
<1>. QED  BY <1>1, Invariance, PTL

\* Downtime and resumption need the saved consent, and a resumption needs a
\* finished utility (claimRoutine's intent, applyRoutine's order of steps).
THEOREM ConsentKept == Spec => [](DowntimeConsented /\ ResumeEarned)
<1>1. IInv => DowntimeConsented /\ ResumeEarned  BY DEF IInv
<1>. QED  BY <1>1, Invariance, PTL

\* The desired state claimRoutine saved is the one the steps end in.
THEOREM OutcomesDesired == Spec => []OutcomeDesired
<1>1. IInv => OutcomeDesired  BY DEF IInv
<1>. QED  BY <1>1, Invariance, PTL

\* A slot is handled at most once and never after a later one, though the clock
\* is set back and calendars are replaced (Policy.Due, saved with the claim).
THEOREM SlotsInOrder == Spec => SlotsForward
<1>1. IInv /\ [Next]_vars => [\A s \in handled' \ handled : \A t \in handled : t < s]_vars
  <2>. SUFFICES ASSUME IInv, Next, NEW s \in handled' \ handled, NEW t \in handled PROVE t < s
    OBVIOUS
  <2>1. PICK u \in Time : Claim(u)
    BY DEF Next, Worker, SetClock, Exit, Poll, Configure, JournalFails, Crash, Restart, Access,
      PutRoutine, Operate, Begin, Admit, Observe, Dispatch, Stop, Pack, Packed, Start, StepFails, Finish, Refuse, OperateDone
  <2>2. s = u /\ u > policy.last  BY <2>1 DEF Claim, Due, Later
  <2>3. t <= policy.last /\ t \in Int /\ policy.last \in Int /\ u \in Int
    BY <2>1, BoundsAssumption DEF IInv, History, TypeOK, Policy, Time, Never
  <2>. QED  BY <2>2, <2>3
<1>. QED  BY <1>1, Invariance, PTL DEF Spec, SlotsForward
=============================================================================
