------------------------ MODULE HostActivationProofs ------------------------
(***************************************************************************)
(* The upgrade of a host's management service keeps admission, the state   *)
(* and the accepted work safe, for any generations, bounds and schemas.    *)
(*                                                                         *)
(* One inductive invariant, IInv, ties together what a restart reads back  *)
(* and what the host is in: the saved journal says of the host only what   *)
(* is so (Sound), the installer's copy is at most one save ahead of it     *)
(* (Position), an active manager reads the state and holds its lock        *)
(* (Opened), a closed fence belongs to an unfinished journal (FenceOwned), *)
(* and what an unfinished journal names is retained (Kept).  Each action   *)
(* has one lemma; in each, the first steps give the type of every variable *)
(* and one step follows for each conjunct of the invariant.                *)
(***************************************************************************)
EXTENDS HostActivation, TLAPS

\* A copy that keeps the activation has the type of a journal.
LEMMA CopyTyped ==
    ASSUME mem \in Journal,
           \/ mem' = mem \/ mem' = NoJournal
           \/ \E s \in Stage : mem' = [mem EXCEPT !.stage = s]
    PROVE  mem' \in Journal
<1>1. CASE mem' = NoJournal
  BY <1>1, ActivationAssumption DEF Journal, NoJournal, Stage
<1>2. CASE \E s \in Stage : mem' = [mem EXCEPT !.stage = s]
  <2>1. PICK s \in Stage : mem' = [mem EXCEPT !.stage = s]
    BY <1>2
  <2>. QED
    BY <2>1 DEF Journal
<1>. QED
  BY <1>1, <1>2

\* So does the draft of a new one.
LEMMA NewTyped ==
    ASSUME NEW b \in Generation \cup {None}, NEW s \in Stage, NEW o \in BOOLEAN,
           tokens \in 0 .. MaxTokens, installed \in Generation \cup {None}, New(b, s, o)
    PROVE  mem' \in Journal
BY ActivationAssumption DEF New, Journal

\* The fence takes the copy's token.
LEMMA FenceTyped ==
    ASSUME TypeOK, fence' = fence \/ fence' = [token |-> mem.token, held |-> TRUE]
    PROVE  fence' \in [token : 0 .. MaxTokens, held : BOOLEAN]
<1>1. fence \in [token : 0 .. MaxTokens, held : BOOLEAN] /\ mem.token \in 0 .. MaxTokens
  BY DEF TypeOK, Journal
<1>2. CASE fence' = [token |-> mem.token, held |-> TRUE]
  BY <1>1, <1>2
<1>. QED
  BY <1>1, <1>2

\* And the copy with which the bridge takes the lock.
LEMMA ReachLooking ==
    ASSUME NEW b \in Generation, journal \in Journal, BridgeLock(b)
    PROVE  mem' \in Journal
<1>1. CASE mem' = journal
  BY <1>1
<1>2. CASE mem' = [NoJournal EXCEPT !.offline = TRUE, !.target = b]
  <2>1. mem' = [stage |-> "none", token |-> 0, offline |-> TRUE, prev |-> None, target |-> b]
    BY <1>2 DEF NoJournal
  <2>. QED
    BY <2>1, ActivationAssumption DEF Journal, Stage
<1>. QED
  BY <1>1, <1>2 DEF BridgeLock

-----------------------------------------------------------------------------
(* The steps of the host, its manager and its user *)

\* A manager that starts opens the state it reads, and no other does.
LEMMA ManagerOpensKeeps ==
    ASSUME IInv, ManagerOpens
    PROVE  IInv'
<1>. USE ActivationAssumption DEF ManagerOpens, CanOpen, Accepts, vars, disk, state,
   service, installer, Fault, NoFault
<1>1. mem' \in Journal
  BY DEF IInv, TypeOK
<1>2. pc' \in Place /\ retry' \in BOOLEAN
  BY DEF IInv, TypeOK
<1>3. journal' \in Journal /\ retained' \subseteq Generation
  BY DEF IInv, TypeOK
<1>4. installed' \in Generation \cup {None} /\ schema' \in Nat
  BY DEF IInv, TypeOK
<1>5. fence' \in [token : 0 .. MaxTokens, held : BOOLEAN]
  BY DEF IInv, TypeOK
<1>6. work' \in BOOLEAN /\ enabled' \in BOOLEAN
  BY DEF IInv, TypeOK
<1>7. tokens' \in 0 .. MaxTokens /\ works' \in 0 .. MaxWork
  BY DEF IInv, TypeOK
<1>8. faults' \in 0 .. MaxFaults
  BY DEF IInv, TypeOK
<1>9. unit' \in {"inactive", "starting", "active"}
      /\ exe' \in Generation \cup {None} /\ (unit' = "active" <=> exe' # None)
      /\ failed' \in BOOLEAN /\ (failed' => unit' = "active")
  BY DEF IInv, TypeOK
<1>10. TypeOK'
  BY <1>1, <1>2, <1>3, <1>4, <1>5, <1>6, <1>9, <1>7, <1>8 DEF TypeOK
<1>11. Sound(journal)'
  BY DEF IInv, Sound, Says
<1>12. CopyOf'
  BY DEF IInv, Position, CopyOf, Looking, Drafting, Kept
<1>13. Reached'
  BY DEF IInv, Position, Reached
<1>14. Position'
  BY <1>12, <1>13 DEF Position
<1>15. Opened'
  <2>1. (unit = "active" => schema = Schema[exe])'
    BY DEF IInv, TypeOK
  <2>2. (Locked => unit # "active")'
    BY DEF IInv, Opened, Locked
  <2>3. (installed = None => schema = 0)'
    BY DEF IInv, TypeOK
  <2>4. (journal.stage = "none" /\ installed # None => Accepts(installed, schema))'
    BY DEF IInv, TypeOK
  <2>5. Schema[installed] \in Nat /\ schema \in Nat /\ schema <= Schema[installed]
    BY DEF IInv, TypeOK
  <2>6. (fence.held => ~work /\ schema > Historical)'
    BY <2>5 DEF IInv, Opened, Historical
  <2>. QED
    BY <2>1, <2>2, <2>3, <2>4, <2>6 DEF Opened
<1>16. FenceOwned'
  BY DEF IInv, FenceOwned
<1>17. Kept(journal)'
  BY DEF IInv, Kept
<1>18. (pc # "idle" /\ ~Looking => Sound(mem))'
  BY DEF IInv, Looking, Sound, Says
<1>. QED
  BY <1>10, <1>11, <1>14, <1>15, <1>16, <1>17, <1>18 DEF IInv

\* A manager that refuses the state changes nothing.
LEMMA ManagerRefusesKeeps ==
    ASSUME IInv, ManagerRefuses
    PROVE  IInv'
<1>. USE ActivationAssumption DEF ManagerRefuses, CanOpen, vars, disk, state, service,
   installer, Fault, NoFault
<1>1. mem' \in Journal
  BY DEF IInv, TypeOK
<1>2. pc' \in Place /\ retry' \in BOOLEAN
  BY DEF IInv, TypeOK
<1>3. journal' \in Journal /\ retained' \subseteq Generation
  BY DEF IInv, TypeOK
<1>4. installed' \in Generation \cup {None} /\ schema' \in Nat
  BY DEF IInv, TypeOK
<1>5. fence' \in [token : 0 .. MaxTokens, held : BOOLEAN]
  BY DEF IInv, TypeOK
<1>6. work' \in BOOLEAN /\ enabled' \in BOOLEAN
  BY DEF IInv, TypeOK
<1>7. tokens' \in 0 .. MaxTokens /\ works' \in 0 .. MaxWork
  BY DEF IInv, TypeOK
<1>8. faults' \in 0 .. MaxFaults
  BY DEF IInv, TypeOK
<1>9. unit' \in {"inactive", "starting", "active"}
      /\ exe' \in Generation \cup {None} /\ (unit' = "active" <=> exe' # None)
      /\ failed' \in BOOLEAN /\ (failed' => unit' = "active")
  BY DEF IInv, TypeOK
<1>10. TypeOK'
  BY <1>1, <1>2, <1>3, <1>4, <1>5, <1>6, <1>9, <1>7, <1>8 DEF TypeOK
<1>11. Sound(journal)'
  BY DEF IInv, Sound
<1>12. CopyOf'
  BY DEF IInv, Position, CopyOf, Looking, Drafting, Kept
<1>13. Reached'
  BY DEF IInv, Position, Reached
<1>14. Position'
  BY <1>12, <1>13 DEF Position
<1>15. Opened'
  BY DEF IInv, Opened, Locked
<1>16. FenceOwned'
  BY DEF IInv, FenceOwned
<1>17. Kept(journal)'
  BY DEF IInv, Kept
<1>18. (pc # "idle" /\ ~Looking => Sound(mem))'
  BY DEF IInv, Sound, Looking
<1>. QED
  BY <1>10, <1>11, <1>14, <1>15, <1>16, <1>17, <1>18 DEF IInv

\* A manager that exits leaves the state and the fence.
LEMMA ManagerExitsKeeps ==
    ASSUME IInv, ManagerExits
    PROVE  IInv'
<1>. USE ActivationAssumption DEF ManagerExits, Gone, vars, disk, state, service, installer,
   Fault, NoFault
<1>1. mem' \in Journal
  BY DEF IInv, TypeOK
<1>2. pc' \in Place /\ retry' \in BOOLEAN
  BY DEF IInv, TypeOK
<1>3. journal' \in Journal /\ retained' \subseteq Generation
  BY DEF IInv, TypeOK
<1>4. installed' \in Generation \cup {None} /\ schema' \in Nat
  BY DEF IInv, TypeOK
<1>5. fence' \in [token : 0 .. MaxTokens, held : BOOLEAN]
  BY DEF IInv, TypeOK
<1>6. work' \in BOOLEAN /\ enabled' \in BOOLEAN
  BY DEF IInv, TypeOK
<1>7. tokens' \in 0 .. MaxTokens /\ works' \in 0 .. MaxWork
  BY DEF IInv, TypeOK
<1>8. faults' \in 0 .. MaxFaults
  BY DEF IInv, TypeOK
<1>9. unit' \in {"inactive", "starting", "active"}
      /\ exe' \in Generation \cup {None} /\ (unit' = "active" <=> exe' # None)
      /\ failed' \in BOOLEAN /\ (failed' => unit' = "active")
  BY DEF IInv, TypeOK
<1>10. TypeOK'
  BY <1>1, <1>2, <1>3, <1>4, <1>5, <1>6, <1>9, <1>7, <1>8 DEF TypeOK
<1>11. Sound(journal)'
  BY DEF IInv, Sound
<1>12. CopyOf'
  BY DEF IInv, Position, CopyOf, Looking, Drafting, Kept
<1>13. Reached'
  BY DEF IInv, Position, Reached
<1>14. Position'
  BY <1>12, <1>13 DEF Position
<1>15. Opened'
  BY DEF IInv, Opened, Locked
<1>16. FenceOwned'
  BY DEF IInv, FenceOwned
<1>17. Kept(journal)'
  BY DEF IInv, Kept
<1>18. (pc # "idle" /\ ~Looking => Sound(mem))'
  BY DEF IInv, Sound, Looking
<1>. QED
  BY <1>10, <1>11, <1>14, <1>15, <1>16, <1>17, <1>18 DEF IInv

\* One whose save failed runs on, and keeps them too.
LEMMA ManagerFailsKeeps ==
    ASSUME IInv, ManagerFails
    PROVE  IInv'
<1>. USE ActivationAssumption DEF ManagerFails, Serves, vars, disk, state, service, installer,
   Fault, NoFault
<1>1. mem' \in Journal
  BY DEF IInv, TypeOK
<1>2. pc' \in Place /\ retry' \in BOOLEAN
  BY DEF IInv, TypeOK
<1>3. journal' \in Journal /\ retained' \subseteq Generation
  BY DEF IInv, TypeOK
<1>4. installed' \in Generation \cup {None} /\ schema' \in Nat
  BY DEF IInv, TypeOK
<1>5. fence' \in [token : 0 .. MaxTokens, held : BOOLEAN]
  BY DEF IInv, TypeOK
<1>6. work' \in BOOLEAN /\ enabled' \in BOOLEAN
  BY DEF IInv, TypeOK
<1>7. tokens' \in 0 .. MaxTokens /\ works' \in 0 .. MaxWork
  BY DEF IInv, TypeOK
<1>8. faults' \in 0 .. MaxFaults
  BY DEF IInv, TypeOK
<1>9. unit' \in {"inactive", "starting", "active"}
      /\ exe' \in Generation \cup {None} /\ (unit' = "active" <=> exe' # None)
      /\ failed' \in BOOLEAN /\ (failed' => unit' = "active")
  BY DEF IInv, TypeOK
<1>10. TypeOK'
  BY <1>1, <1>2, <1>3, <1>4, <1>5, <1>6, <1>9, <1>7, <1>8 DEF TypeOK
<1>11. Sound(journal)'
  BY DEF IInv, Sound
<1>12. CopyOf'
  BY DEF IInv, Position, CopyOf, Looking, Drafting, Kept
<1>13. Reached'
  BY DEF IInv, Position, Reached
<1>14. Position'
  BY <1>12, <1>13 DEF Position
<1>15. Opened'
  BY DEF IInv, Opened, Locked
<1>16. FenceOwned'
  BY DEF IInv, FenceOwned
<1>17. Kept(journal)'
  BY DEF IInv, Kept
<1>18. (pc # "idle" /\ ~Looking => Sound(mem))'
  BY DEF IInv, Sound, Looking
<1>. QED
  BY <1>10, <1>11, <1>14, <1>15, <1>16, <1>17, <1>18 DEF IInv

\* Work is accepted only where no fence is held.
LEMMA AdmitKeeps ==
    ASSUME IInv, Admit
    PROVE  IInv'
<1>. USE ActivationAssumption DEF Admit, Serves, vars, disk, state, service, installer, Fault,
   NoFault
<1>1. mem' \in Journal
  BY DEF IInv, TypeOK
<1>2. pc' \in Place /\ retry' \in BOOLEAN
  BY DEF IInv, TypeOK
<1>3. journal' \in Journal /\ retained' \subseteq Generation
  BY DEF IInv, TypeOK
<1>4. installed' \in Generation \cup {None} /\ schema' \in Nat
  BY DEF IInv, TypeOK
<1>5. fence' \in [token : 0 .. MaxTokens, held : BOOLEAN]
  BY DEF IInv, TypeOK
<1>6. work' \in BOOLEAN /\ enabled' \in BOOLEAN
  BY DEF IInv, TypeOK
<1>7. tokens' \in 0 .. MaxTokens /\ works' \in 0 .. MaxWork
  BY DEF IInv, TypeOK
<1>8. faults' \in 0 .. MaxFaults
  BY DEF IInv, TypeOK
<1>9. unit' \in {"inactive", "starting", "active"}
      /\ exe' \in Generation \cup {None} /\ (unit' = "active" <=> exe' # None)
      /\ failed' \in BOOLEAN /\ (failed' => unit' = "active")
  BY DEF IInv, TypeOK
<1>10. TypeOK'
  BY <1>1, <1>2, <1>3, <1>4, <1>5, <1>6, <1>9, <1>7, <1>8 DEF TypeOK
<1>11. Sound(journal)'
  BY DEF IInv, Sound
<1>12. CopyOf'
  BY DEF IInv, Position, CopyOf, Looking, Drafting, Kept
<1>13. Reached'
  BY DEF IInv, Position, Reached
<1>14. Position'
  BY <1>12, <1>13 DEF Position
<1>15. Opened'
  BY DEF IInv, Opened, Locked, Fences
<1>16. FenceOwned'
  BY DEF IInv, FenceOwned
<1>17. Kept(journal)'
  BY DEF IInv, Kept
<1>18. (pc # "idle" /\ ~Looking => Sound(mem))'
  BY DEF IInv, Sound, Looking
<1>. QED
  BY <1>10, <1>11, <1>14, <1>15, <1>16, <1>17, <1>18 DEF IInv

\* Work that ends frees the manager for a fence.
LEMMA FinishWorkKeeps ==
    ASSUME IInv, FinishWork
    PROVE  IInv'
<1>. USE ActivationAssumption DEF FinishWork, vars, disk, state, service, installer,
   Fault, NoFault
<1>1. mem' \in Journal
  BY DEF IInv, TypeOK
<1>2. pc' \in Place /\ retry' \in BOOLEAN
  BY DEF IInv, TypeOK
<1>3. journal' \in Journal /\ retained' \subseteq Generation
  BY DEF IInv, TypeOK
<1>4. installed' \in Generation \cup {None} /\ schema' \in Nat
  BY DEF IInv, TypeOK
<1>5. fence' \in [token : 0 .. MaxTokens, held : BOOLEAN]
  BY DEF IInv, TypeOK
<1>6. work' \in BOOLEAN /\ enabled' \in BOOLEAN
  BY DEF IInv, TypeOK
<1>7. tokens' \in 0 .. MaxTokens /\ works' \in 0 .. MaxWork
  BY DEF IInv, TypeOK
<1>8. faults' \in 0 .. MaxFaults
  BY DEF IInv, TypeOK
<1>9. unit' \in {"inactive", "starting", "active"}
      /\ exe' \in Generation \cup {None} /\ (unit' = "active" <=> exe' # None)
      /\ failed' \in BOOLEAN /\ (failed' => unit' = "active")
  BY DEF IInv, TypeOK
<1>10. TypeOK'
  BY <1>1, <1>2, <1>3, <1>4, <1>5, <1>6, <1>9, <1>7, <1>8 DEF TypeOK
<1>11. Sound(journal)'
  BY DEF IInv, Sound
<1>12. CopyOf'
  BY DEF IInv, Position, CopyOf, Looking, Drafting, Kept
<1>13. Reached'
  BY DEF IInv, Position, Reached
<1>14. Position'
  BY <1>12, <1>13 DEF Position
<1>15. Opened'
  BY DEF IInv, Opened, Locked
<1>16. FenceOwned'
  BY DEF IInv, FenceOwned
<1>17. Kept(journal)'
  BY DEF IInv, Kept
<1>18. (pc # "idle" /\ ~Looking => Sound(mem))'
  BY DEF IInv, Sound, Looking
<1>. QED
  BY <1>10, <1>11, <1>14, <1>15, <1>16, <1>17, <1>18 DEF IInv

\* A unit that is started or stopped by hand leaves every file.
LEMMA ByHandKeeps ==
    ASSUME IInv, ByHand
    PROVE  IInv'
<1>. USE ActivationAssumption DEF ByHand, Gone, vars, disk, state, service, installer, Fault,
   NoFault
<1>1. mem' \in Journal
  BY DEF IInv, TypeOK
<1>2. pc' \in Place /\ retry' \in BOOLEAN
  BY DEF IInv, TypeOK
<1>3. journal' \in Journal /\ retained' \subseteq Generation
  BY DEF IInv, TypeOK
<1>4. installed' \in Generation \cup {None} /\ schema' \in Nat
  BY DEF IInv, TypeOK
<1>5. fence' \in [token : 0 .. MaxTokens, held : BOOLEAN]
  BY DEF IInv, TypeOK
<1>6. work' \in BOOLEAN /\ enabled' \in BOOLEAN
  BY DEF IInv, TypeOK
<1>7. tokens' \in 0 .. MaxTokens /\ works' \in 0 .. MaxWork
  BY DEF IInv, TypeOK
<1>8. faults' \in 0 .. MaxFaults
  BY DEF IInv, TypeOK
<1>9. unit' \in {"inactive", "starting", "active"}
      /\ exe' \in Generation \cup {None} /\ (unit' = "active" <=> exe' # None)
      /\ failed' \in BOOLEAN /\ (failed' => unit' = "active")
  <2>1. unit' \in {"inactive", "starting", "active"}
        /\ exe' \in Generation \cup {None} /\ (unit' = "active" <=> exe' # None)
    BY DEF IInv, TypeOK
  <2>2. unit = "inactive" => failed = FALSE
    BY DEF IInv, TypeOK
  <2>3. failed' = FALSE
    BY <2>2
  <2>. QED
    BY <2>1, <2>3
<1>10. TypeOK'
  BY <1>1, <1>2, <1>3, <1>4, <1>5, <1>6, <1>9, <1>7, <1>8 DEF TypeOK
<1>11. Sound(journal)'
  BY DEF IInv, Sound
<1>12. CopyOf'
  BY DEF IInv, Position, CopyOf, Looking, Drafting, Kept
<1>13. Reached'
  BY DEF IInv, Position, Reached
<1>14. Position'
  BY <1>12, <1>13 DEF Position
<1>15. Opened'
  BY DEF IInv, Opened, Locked
<1>16. FenceOwned'
  BY DEF IInv, FenceOwned
<1>17. Kept(journal)'
  BY DEF IInv, Kept
<1>18. (pc # "idle" /\ ~Looking => Sound(mem))'
  BY DEF IInv, Sound, Looking
<1>. QED
  BY <1>10, <1>11, <1>14, <1>15, <1>16, <1>17, <1>18 DEF IInv

\* The operator of the bridge leaves the journal and the state.
LEMMA ProcedureKeeps ==
    ASSUME IInv, Procedure
    PROVE  IInv'
<1>. USE ActivationAssumption DEF Procedure, Gone, vars, disk, state, service, installer,
   Fault, NoFault
<1>1. mem' \in Journal
  BY DEF IInv, TypeOK
<1>2. pc' \in Place /\ retry' \in BOOLEAN
  BY DEF IInv, TypeOK
<1>3. journal' \in Journal /\ retained' \subseteq Generation
  BY DEF IInv, TypeOK
<1>4. installed' \in Generation \cup {None} /\ schema' \in Nat
  BY DEF IInv, TypeOK
<1>5. fence' \in [token : 0 .. MaxTokens, held : BOOLEAN]
  BY DEF IInv, TypeOK
<1>6. work' \in BOOLEAN /\ enabled' \in BOOLEAN
  BY DEF IInv, TypeOK
<1>7. tokens' \in 0 .. MaxTokens /\ works' \in 0 .. MaxWork
  BY DEF IInv, TypeOK
<1>8. faults' \in 0 .. MaxFaults
  BY DEF IInv, TypeOK
<1>9. unit' \in {"inactive", "starting", "active"}
      /\ exe' \in Generation \cup {None} /\ (unit' = "active" <=> exe' # None)
      /\ failed' \in BOOLEAN /\ (failed' => unit' = "active")
  <2>1. unit' \in {"inactive", "starting", "active"}
        /\ exe' \in Generation \cup {None} /\ (unit' = "active" <=> exe' # None)
    BY DEF IInv, TypeOK
  <2>2. unit = "inactive" => failed = FALSE
    BY DEF IInv, TypeOK
  <2>3. failed' = FALSE
    BY <2>2
  <2>. QED
    BY <2>1, <2>3
<1>10. TypeOK'
  BY <1>1, <1>2, <1>3, <1>4, <1>5, <1>6, <1>9, <1>7, <1>8 DEF TypeOK
<1>11. Sound(journal)'
  BY DEF IInv, Sound
<1>12. CopyOf'
  BY DEF IInv, Position, CopyOf, Looking, Drafting
<1>13. Reached'
  BY DEF IInv, Position, Reached
<1>14. Position'
  BY <1>12, <1>13 DEF Position
<1>15. Opened'
  BY DEF IInv, Opened, Locked
<1>16. FenceOwned'
  BY DEF IInv, FenceOwned
<1>17. Kept(journal)'
  BY DEF IInv, Kept
<1>18. (pc # "idle" /\ ~Looking => Sound(mem))'
  BY DEF IInv, Sound
<1>. QED
  BY <1>10, <1>11, <1>14, <1>15, <1>16, <1>17, <1>18 DEF IInv

\* A reboot ends the service and the installer, and no durable file.
LEMMA RebootKeeps ==
    ASSUME IInv, Reboot
    PROVE  IInv'
<1>. USE ActivationAssumption DEF Reboot, Gone, GiveUp, vars, disk, state, service, installer,
   Fault, NoFault
<1>1. \/ mem' = mem \/ mem' = NoJournal
      \/ \E s \in Stage : mem' = [mem EXCEPT !.stage = s]
  BY DEF Stage
<1>2. mem' \in Journal
  BY <1>1, CopyTyped DEF IInv, TypeOK
<1>3. pc' \in Place /\ retry' \in BOOLEAN
  BY DEF IInv, Place
<1>4. journal' \in Journal /\ retained' \subseteq Generation
  BY DEF IInv, TypeOK
<1>5. installed' \in Generation \cup {None} /\ schema' \in Nat
  BY DEF IInv, TypeOK
<1>6. fence' \in [token : 0 .. MaxTokens, held : BOOLEAN]
  BY DEF IInv, TypeOK
<1>7. work' \in BOOLEAN /\ enabled' \in BOOLEAN
  BY DEF IInv, TypeOK
<1>8. tokens' \in 0 .. MaxTokens /\ works' \in 0 .. MaxWork
  BY DEF IInv, TypeOK
<1>9. faults' \in 0 .. MaxFaults
  BY DEF IInv, TypeOK
<1>10. unit' \in {"inactive", "starting", "active"}
       /\ exe' \in Generation \cup {None} /\ (unit' = "active" <=> exe' # None)
       /\ failed' \in BOOLEAN /\ (failed' => unit' = "active")
  BY DEF IInv, TypeOK
<1>11. TypeOK'
  BY <1>2, <1>3, <1>4, <1>5, <1>6, <1>7, <1>10, <1>8, <1>9 DEF TypeOK
<1>12. Sound(journal)'
  BY DEF IInv, Sound
<1>13. CopyOf'
  BY DEF IInv, Position, CopyOf, Looking, Drafting
<1>14. Reached'
  BY DEF IInv, Position, Reached
<1>15. Position'
  BY <1>13, <1>14 DEF Position
<1>16. Opened'
  BY DEF IInv, Opened, Locked
<1>17. FenceOwned'
  BY DEF IInv, FenceOwned
<1>18. Kept(journal)'
  BY DEF IInv, Kept
<1>19. (pc # "idle" /\ ~Looking => Sound(mem))'
  BY DEF IInv, Sound
<1>. QED
  BY <1>11, <1>12, <1>15, <1>16, <1>17, <1>18, <1>19 DEF IInv

\* An installer that ends leaves the journal it saved last.
LEMMA DieKeeps ==
    ASSUME IInv, Die
    PROVE  IInv'
<1>. USE ActivationAssumption DEF Die, GiveUp, vars, disk, state, service, installer,
   Fault, NoFault
<1>1. \/ mem' = mem \/ mem' = NoJournal
      \/ \E s \in Stage : mem' = [mem EXCEPT !.stage = s]
  BY DEF Stage
<1>2. mem' \in Journal
  BY <1>1, CopyTyped DEF IInv, TypeOK
<1>3. pc' \in Place /\ retry' \in BOOLEAN
  BY DEF IInv, Place
<1>4. journal' \in Journal /\ retained' \subseteq Generation
  BY DEF IInv, TypeOK
<1>5. installed' \in Generation \cup {None} /\ schema' \in Nat
  BY DEF IInv, TypeOK
<1>6. fence' \in [token : 0 .. MaxTokens, held : BOOLEAN]
  BY DEF IInv, TypeOK
<1>7. work' \in BOOLEAN /\ enabled' \in BOOLEAN
  BY DEF IInv, TypeOK
<1>8. tokens' \in 0 .. MaxTokens /\ works' \in 0 .. MaxWork
  BY DEF IInv, TypeOK
<1>9. faults' \in 0 .. MaxFaults
  BY DEF IInv, TypeOK
<1>10. unit' \in {"inactive", "starting", "active"}
       /\ exe' \in Generation \cup {None} /\ (unit' = "active" <=> exe' # None)
       /\ failed' \in BOOLEAN /\ (failed' => unit' = "active")
  BY DEF IInv, TypeOK
<1>11. TypeOK'
  BY <1>2, <1>3, <1>4, <1>5, <1>6, <1>7, <1>10, <1>8, <1>9 DEF TypeOK
<1>12. Sound(journal)'
  BY DEF IInv, Sound
<1>13. CopyOf'
  BY DEF IInv, Position, CopyOf, Looking, Drafting
<1>14. Reached'
  BY DEF IInv, Position, Reached
<1>15. Position'
  BY <1>13, <1>14 DEF Position
<1>16. Opened'
  BY DEF IInv, Opened, Locked
<1>17. FenceOwned'
  BY DEF IInv, FenceOwned
<1>18. Kept(journal)'
  BY DEF IInv, Kept
<1>19. (pc # "idle" /\ ~Looking => Sound(mem))'
  BY DEF IInv, Sound
<1>. QED
  BY <1>11, <1>12, <1>15, <1>16, <1>17, <1>18, <1>19 DEF IInv

\* What a save writes is already so on the host.
LEMMA SaveKeeps ==
    ASSUME IInv, Save
    PROVE  IInv'
<1>. USE ActivationAssumption DEF Save, GiveUp, AfterSave, Settled, Unfinished, vars,
   disk, state, service, installer, Fault, NoFault
<1>1. \/ mem' = mem \/ mem' = NoJournal
      \/ \E s \in Stage : mem' = [mem EXCEPT !.stage = s]
  BY DEF Stage
<1>2. mem' \in Journal
  BY <1>1, CopyTyped DEF IInv, TypeOK
<1>3. pc' \in Place /\ retry' \in BOOLEAN
  BY DEF IInv, TypeOK, Place
<1>4. journal' \in Journal /\ retained' \subseteq Generation
  BY DEF IInv, TypeOK
<1>5. installed' \in Generation \cup {None} /\ schema' \in Nat
  BY DEF IInv, TypeOK
<1>6. fence' \in [token : 0 .. MaxTokens, held : BOOLEAN]
  BY DEF IInv, TypeOK
<1>7. work' \in BOOLEAN /\ enabled' \in BOOLEAN
  BY DEF IInv, TypeOK
<1>8. tokens' \in 0 .. MaxTokens /\ works' \in 0 .. MaxWork
  BY DEF IInv, TypeOK
<1>9. faults' \in 0 .. MaxFaults
  BY DEF IInv, TypeOK
<1>10. unit' \in {"inactive", "starting", "active"}
       /\ exe' \in Generation \cup {None} /\ (unit' = "active" <=> exe' # None)
       /\ failed' \in BOOLEAN /\ (failed' => unit' = "active")
  BY DEF IInv, TypeOK
<1>11. TypeOK'
  BY <1>2, <1>3, <1>4, <1>5, <1>6, <1>7, <1>10, <1>8, <1>9 DEF TypeOK
<1>12. Sound(journal)'
  BY DEF IInv, Looking, Sound
<1>13. CopyOf'
  BY DEF IInv, TypeOK, Position, CopyOf, Looking, Drafting, Journal, Stage
<1>14. Reached'
  <2>1. (pc = "fence" => mem.stage \in {"quiesced", "stopping", "starting", "rollback"})'
    BY DEF IInv, TypeOK
  <2>2. (pc = "stop" => mem.stage \in {"stopping", "rollback"})'
    BY DEF IInv, TypeOK
  <2>3. (pc = "stopped" => mem.stage \in {"stopping", "rollback", "offline-fenced", "verified", "complete"})'
    BY DEF IInv, TypeOK
  <2>4. (pc = "install" => mem.stage \in {"stopping", "rollback", "offline-fenced"})'
    BY DEF IInv, TypeOK
  <2>5. (pc \in {"locked", "migrate"} => mem.offline)'
    BY DEF IInv, Looking, Sound, Says
  <2>6. (pc \in {"ensure", "start", "await"} => mem.stage \notin {"quiesced", "stopping", "offline-prepared", "offline-fenced"})'
    BY DEF IInv, TypeOK
  <2>7. (pc = "start" => mem.stage # "prepared")'
    BY DEF IInv, TypeOK
  <2>8. (pc \in {"start", "await"} /\ mem.stage = "rollback" => installed = mem.prev)'
    BY DEF IInv, TypeOK
  <2>9. (pc = "acquire" => mem.stage = "prepared" \/ (mem.stage = "starting"
        /\ mem.prev = None))'
    BY DEF IInv, TypeOK
  <2>10. (pc = "release" => mem.stage \in {"verified", "rollback-verified"})'
    BY DEF IInv, TypeOK
  <2>11. (pc = "migrate" => mem.stage \in {"offline-prepared", "offline-fenced", "starting"})'
    BY DEF IInv, TypeOK
  <2>12. (retry => pc \in {"await", "acquire"} /\ mem.stage = "starting")'
    BY DEF IInv, Position, Reached
  <2>. QED
    BY <2>1, <2>2, <2>3, <2>4, <2>5, <2>6, <2>7, <2>8, <2>9, <2>10, <2>11, <2>12
       DEF Reached
<1>15. Position'
  BY <1>13, <1>14 DEF Position
<1>16. Opened'
  BY DEF IInv, Opened, Locked, Position, CopyOf
<1>17. FenceOwned'
  BY DEF IInv, TypeOK, FenceOwned, Position, CopyOf, Journal, Sound, Says
<1>18. Kept(journal)'
  BY DEF IInv, Kept, Position, CopyOf
<1>19. (pc # "idle" /\ ~Looking => Sound(mem))'
  BY DEF IInv, Sound, Looking
<1>. QED
  BY <1>11, <1>12, <1>15, <1>16, <1>17, <1>18, <1>19 DEF IInv

\* Both generations are retained before the journal names them.
LEMMA RetainKeeps ==
    ASSUME IInv, Retain
    PROVE  IInv'
<1>. USE ActivationAssumption DEF Retain, GiveUp, vars, disk, state, service, installer,
   Fault, NoFault
<1>1. \/ mem' = mem \/ mem' = NoJournal
      \/ \E s \in Stage : mem' = [mem EXCEPT !.stage = s]
  BY DEF Stage
<1>2. mem' \in Journal
  BY <1>1, CopyTyped DEF IInv, TypeOK
<1>3. pc' \in Place /\ retry' \in BOOLEAN
  BY DEF IInv, TypeOK, Place
<1>4. journal' \in Journal /\ retained' \subseteq Generation
  BY DEF IInv, TypeOK, Journal
<1>5. installed' \in Generation \cup {None} /\ schema' \in Nat
  BY DEF IInv, TypeOK
<1>6. fence' \in [token : 0 .. MaxTokens, held : BOOLEAN]
  BY DEF IInv, TypeOK
<1>7. work' \in BOOLEAN /\ enabled' \in BOOLEAN
  BY DEF IInv, TypeOK
<1>8. tokens' \in 0 .. MaxTokens /\ works' \in 0 .. MaxWork
  BY DEF IInv, TypeOK
<1>9. faults' \in 0 .. MaxFaults
  BY DEF IInv, TypeOK
<1>10. unit' \in {"inactive", "starting", "active"}
       /\ exe' \in Generation \cup {None} /\ (unit' = "active" <=> exe' # None)
       /\ failed' \in BOOLEAN /\ (failed' => unit' = "active")
  BY DEF IInv, TypeOK
<1>11. TypeOK'
  BY <1>2, <1>3, <1>4, <1>5, <1>6, <1>7, <1>10, <1>8, <1>9 DEF TypeOK
<1>12. Sound(journal)'
  BY DEF IInv, Sound
<1>13. CopyOf'
  BY DEF IInv, Position, CopyOf, Looking, Drafting, Kept
<1>14. Reached'
  BY DEF IInv, Position, Reached
<1>15. Position'
  BY <1>13, <1>14 DEF Position
<1>16. Opened'
  BY DEF IInv, Opened, Locked
<1>17. FenceOwned'
  BY DEF IInv, FenceOwned
<1>18. Kept(journal)'
  BY DEF IInv, Kept
<1>19. (pc # "idle" /\ ~Looking => Sound(mem))'
  BY DEF IInv, Sound, Looking
<1>. QED
  BY <1>11, <1>12, <1>15, <1>16, <1>17, <1>18, <1>19 DEF IInv

\* Where an activation goes on is what its stage has reached.
LEMMA ActivateKeeps ==
    ASSUME IInv, Activate
    PROVE  IInv'
<1>. USE ActivationAssumption DEF Activate, GiveUp, SaveAs, vars, disk, state, service,
   installer, Fault, NoFault
<1>1. \/ mem' = mem \/ mem' = NoJournal
      \/ \E s \in Stage : mem' = [mem EXCEPT !.stage = s]
  BY DEF Stage
<1>2. mem' \in Journal
  BY <1>1, CopyTyped DEF IInv, TypeOK
<1>3. pc' \in Place /\ retry' \in BOOLEAN
  BY DEF IInv, TypeOK, Place
<1>4. journal' \in Journal /\ retained' \subseteq Generation
  BY DEF IInv, TypeOK
<1>5. installed' \in Generation \cup {None} /\ schema' \in Nat
  BY DEF IInv, TypeOK
<1>6. fence' \in [token : 0 .. MaxTokens, held : BOOLEAN]
  BY DEF IInv, TypeOK
<1>7. work' \in BOOLEAN /\ enabled' \in BOOLEAN
  BY DEF IInv, TypeOK
<1>8. tokens' \in 0 .. MaxTokens /\ works' \in 0 .. MaxWork
  BY DEF IInv, TypeOK
<1>9. faults' \in 0 .. MaxFaults
  BY DEF IInv, TypeOK
<1>10. unit' \in {"inactive", "starting", "active"}
       /\ exe' \in Generation \cup {None} /\ (unit' = "active" <=> exe' # None)
       /\ failed' \in BOOLEAN /\ (failed' => unit' = "active")
  BY DEF IInv, TypeOK
<1>11. TypeOK'
  BY <1>2, <1>3, <1>4, <1>5, <1>6, <1>7, <1>10, <1>8, <1>9 DEF TypeOK
<1>12. Sound(journal)'
  BY DEF IInv, Sound
<1>13. CopyOf'
  BY DEF IInv, TypeOK, Position, CopyOf, Looking, Drafting, Unfinished, Settled, Kept,
     Journal
<1>14. Reached'
  BY DEF IInv, Position, Reached
<1>15. Position'
  BY <1>13, <1>14 DEF Position
<1>16. Opened'
  BY DEF IInv, TypeOK, Opened, Locked, Journal
<1>17. FenceOwned'
  BY DEF IInv, FenceOwned
<1>18. Kept(journal)'
  BY DEF IInv, Kept
<1>19. (pc # "idle" /\ ~Looking => Sound(mem))'
  BY DEF IInv, TypeOK, Looking, Sound, Journal, Says, Backward
<1>. QED
  BY <1>11, <1>12, <1>15, <1>16, <1>17, <1>18, <1>19 DEF IInv

\* A generation that exited is started once more, and none replaced.
LEMMA EnsureKeeps ==
    ASSUME IInv, Ensure
    PROVE  IInv'
<1>. USE ActivationAssumption DEF Ensure, GiveUp, Waited, Goal, vars, disk, state,
   service, installer, Fault, NoFault
<1>1. \/ mem' = mem \/ mem' = NoJournal
      \/ \E s \in Stage : mem' = [mem EXCEPT !.stage = s]
  BY DEF Stage
<1>2. mem' \in Journal
  BY <1>1, CopyTyped DEF IInv, TypeOK
<1>3. pc' \in Place /\ retry' \in BOOLEAN
  BY DEF IInv, TypeOK, Place
<1>4. journal' \in Journal /\ retained' \subseteq Generation
  BY DEF IInv, TypeOK
<1>5. installed' \in Generation \cup {None} /\ schema' \in Nat
  BY DEF IInv, TypeOK
<1>6. fence' \in [token : 0 .. MaxTokens, held : BOOLEAN]
  BY DEF IInv, TypeOK
<1>7. work' \in BOOLEAN /\ enabled' \in BOOLEAN
  BY DEF IInv, TypeOK
<1>8. tokens' \in 0 .. MaxTokens /\ works' \in 0 .. MaxWork
  BY DEF IInv, TypeOK
<1>9. faults' \in 0 .. MaxFaults
  BY DEF IInv, TypeOK
<1>10. unit' \in {"inactive", "starting", "active"}
       /\ exe' \in Generation \cup {None} /\ (unit' = "active" <=> exe' # None)
       /\ failed' \in BOOLEAN /\ (failed' => unit' = "active")
  BY DEF IInv, TypeOK
<1>11. TypeOK'
  BY <1>2, <1>3, <1>4, <1>5, <1>6, <1>7, <1>10, <1>8, <1>9 DEF TypeOK
<1>12. Sound(journal)'
  BY DEF IInv, Sound
<1>13. CopyOf'
  BY DEF IInv, Position, CopyOf, Looking, Drafting
<1>14. Reached'
  <2>1. (pc = "fence" => mem.stage \in {"quiesced", "stopping", "starting", "rollback"})'
    BY DEF IInv, TypeOK
  <2>2. (pc = "stop" => mem.stage \in {"stopping", "rollback"})'
    BY DEF IInv, TypeOK
  <2>3. (pc = "stopped" => mem.stage \in {"stopping", "rollback", "offline-fenced", "verified", "complete"})'
    BY DEF IInv, TypeOK
  <2>4. (pc = "install" => mem.stage \in {"stopping", "rollback", "offline-fenced"})'
    BY DEF IInv, TypeOK
  <2>5. (pc \in {"locked", "migrate"} => mem.offline)'
    BY DEF IInv, TypeOK
  <2>6. (pc \in {"ensure", "start", "await"} => mem.stage \notin {"quiesced", "stopping", "offline-prepared", "offline-fenced"})'
    BY DEF IInv, Position, Reached
  <2>7. (pc = "start" => mem.stage # "prepared")'
    BY DEF IInv, TypeOK
  <2>8. (pc \in {"start", "await"} /\ mem.stage = "rollback" => installed = mem.prev)'
    BY DEF IInv, Backward
  <2>9. (pc = "acquire" => mem.stage = "prepared" \/ (mem.stage = "starting"
        /\ mem.prev = None))'
    BY DEF IInv, TypeOK
  <2>10. (pc = "release" => mem.stage \in {"verified", "rollback-verified"})'
    BY DEF IInv, TypeOK
  <2>11. (pc = "migrate" => mem.stage \in {"offline-prepared", "offline-fenced", "starting"})'
    BY DEF IInv, TypeOK
  <2>12. (retry => pc \in {"await", "acquire"} /\ mem.stage = "starting")'
    BY DEF IInv, Position, Reached
  <2>. QED
    BY <2>1, <2>2, <2>3, <2>4, <2>5, <2>6, <2>7, <2>8, <2>9, <2>10, <2>11, <2>12
       DEF Reached
<1>15. Position'
  BY <1>13, <1>14 DEF Position
<1>16. Opened'
  BY DEF IInv, Opened, Locked
<1>17. FenceOwned'
  BY DEF IInv, FenceOwned
<1>18. Kept(journal)'
  BY DEF IInv, Kept
<1>19. (pc # "idle" /\ ~Looking => Sound(mem))'
  BY DEF IInv, Sound, Looking
<1>. QED
  BY <1>11, <1>12, <1>15, <1>16, <1>17, <1>18, <1>19 DEF IInv

\* Only a service that was seen to run its generation is verified.
LEMMA AwaitKeeps ==
    ASSUME IInv, Await
    PROVE  IInv'
<1>. USE ActivationAssumption DEF Await, GiveUp, SaveAs, Unverified, FenceKept,
   VerifiedStage, TimesOut, Answers, Serves, vars, disk, state, service, installer, Fault,
   NoFault
<1>1. \/ mem' = mem \/ mem' = NoJournal
      \/ \E s \in Stage : mem' = [mem EXCEPT !.stage = s]
  BY DEF Stage, VerifiedStage
<1>2. mem' \in Journal
  BY <1>1, CopyTyped DEF IInv, TypeOK
<1>3. pc' \in Place /\ retry' \in BOOLEAN
  BY DEF IInv, TypeOK, Place
<1>4. journal' \in Journal /\ retained' \subseteq Generation
  BY DEF IInv, TypeOK
<1>5. installed' \in Generation \cup {None} /\ schema' \in Nat
  BY DEF IInv, TypeOK
<1>6. fence' \in [token : 0 .. MaxTokens, held : BOOLEAN]
  BY DEF IInv, TypeOK
<1>7. work' \in BOOLEAN /\ enabled' \in BOOLEAN
  BY DEF IInv, TypeOK
<1>8. tokens' \in 0 .. MaxTokens /\ works' \in 0 .. MaxWork
  BY DEF IInv, TypeOK
<1>9. faults' \in 0 .. MaxFaults
  BY DEF IInv, TypeOK
<1>10. unit' \in {"inactive", "starting", "active"}
       /\ exe' \in Generation \cup {None} /\ (unit' = "active" <=> exe' # None)
       /\ failed' \in BOOLEAN /\ (failed' => unit' = "active")
  BY DEF IInv, TypeOK
<1>11. TypeOK'
  BY <1>2, <1>3, <1>4, <1>5, <1>6, <1>7, <1>10, <1>8, <1>9 DEF TypeOK
<1>12. Sound(journal)'
  BY DEF IInv, Sound
<1>13. CopyOf'
  BY DEF IInv, TypeOK, Position, CopyOf, Looking, Drafting, Unfinished, Settled, Kept,
     Journal
<1>14. Reached'
  <2>1. (pc = "fence" => mem.stage \in {"quiesced", "stopping", "starting", "rollback"})'
    BY DEF IInv, Position, Reached
  <2>2. (pc = "stop" => mem.stage \in {"stopping", "rollback"})'
    BY DEF IInv, TypeOK
  <2>3. (pc = "stopped" => mem.stage \in {"stopping", "rollback", "offline-fenced", "verified", "complete"})'
    BY DEF IInv, TypeOK
  <2>4. (pc = "install" => mem.stage \in {"stopping", "rollback", "offline-fenced"})'
    BY DEF IInv, TypeOK
  <2>5. (pc \in {"locked", "migrate"} => mem.offline)'
    BY DEF IInv, TypeOK
  <2>6. (pc \in {"ensure", "start", "await"} => mem.stage \notin {"quiesced", "stopping", "offline-prepared", "offline-fenced"})'
    BY DEF IInv, TypeOK
  <2>7. (pc = "start" => mem.stage # "prepared")'
    BY DEF IInv, TypeOK
  <2>8. (pc \in {"start", "await"} /\ mem.stage = "rollback" => installed = mem.prev)'
    BY DEF IInv, TypeOK
  <2>9. (pc = "acquire" => mem.stage = "prepared" \/ (mem.stage = "starting"
        /\ mem.prev = None))'
    BY DEF IInv, TypeOK, Position, Reached, Looking, Unfinished, Settled, Journal, Stage,
       Sound, Says, Reversible, Backward
  <2>10. (pc = "release" => mem.stage \in {"verified", "rollback-verified"})'
    BY DEF IInv, TypeOK
  <2>11. (pc = "migrate" => mem.stage \in {"offline-prepared", "offline-fenced", "starting"})'
    BY DEF IInv, TypeOK
  <2>12. (retry => pc \in {"await", "acquire"} /\ mem.stage = "starting")'
    BY DEF IInv, Position, Reached
  <2>. QED
    BY <2>1, <2>2, <2>3, <2>4, <2>5, <2>6, <2>7, <2>8, <2>9, <2>10, <2>11, <2>12
       DEF Reached
<1>15. Position'
  BY <1>13, <1>14 DEF Position
<1>16. Opened'
  BY DEF IInv, TypeOK, Opened, Locked, Journal
<1>17. FenceOwned'
  BY DEF IInv, FenceOwned
<1>18. Kept(journal)'
  BY DEF IInv, Kept
<1>19. (pc # "idle" /\ ~Looking => Sound(mem))'
  <2>1. Sound(mem) /\ mem = journal /\ mem.stage # "none"
    BY DEF IInv, Position, CopyOf, Looking
  <2>2. CASE mem' = mem \/ pc' = "idle"
    BY <2>1, <2>2 DEF Sound
  <2>3. CASE mem' = [mem EXCEPT !.stage = "rollback"] /\ mem.stage = "starting"
             /\ Reversible(mem)
    BY <2>1, <2>3 DEF IInv, Sound, Says, Reversible
  <2>4. CASE mem' = [mem EXCEPT !.stage = VerifiedStage] /\ FenceKept
            /\ mem.stage \notin Settled \cup {"prepared"}
            /\ ~(mem.prev = None /\ ~fence.held /\ fence.token # mem.token)
    <3>1. CASE mem.stage \in Backward
      <4>1. mem' = [mem EXCEPT !.stage = "rollback-verified"]
            /\ mem.stage \in {"rollback", "rollback-verified"} /\ pc = "await"
        BY <2>4, <3>1 DEF VerifiedStage, Backward, Settled, IInv, FenceKept
      <4>2. mem.prev # None /\ fence.token = mem.token /\ installed = mem.prev
        BY <4>1, <2>1, <2>4 DEF FenceKept, Released, IInv, Position, Reached, Sound,
           Says, Reversible, Backward
      <4>. QED
        BY <2>1, <4>1, <4>2 DEF IInv, Sound, Says, Reversible, Backward
    <3>2. CASE mem.stage \notin Backward
      <4>1. mem' = [mem EXCEPT !.stage = "verified"]
            /\ mem.stage \in {"starting", "verified"} /\ pc = "await"
        BY <2>4, <3>2 DEF VerifiedStage, Backward, Settled, IInv, TypeOK, Journal, Stage,
           Position, Reached
      <4>2. fence.token = mem.token
        BY <4>1, <2>1, <2>4 DEF FenceKept, Released, IInv, FenceOwned
      <4>. QED
        BY <2>1, <4>1, <4>2 DEF IInv, Sound, Says, Backward
    <3>. QED
      BY <3>1, <3>2
  <2>. QED
    BY <2>2, <2>3, <2>4
<1>. QED
  BY <1>11, <1>12, <1>15, <1>16, <1>17, <1>18, <1>19 DEF IInv

\* The fence is taken for the copy that was saved.
LEMMA AcquireKeeps ==
    ASSUME IInv, Acquire
    PROVE  IInv'
<1>. USE ActivationAssumption DEF Acquire, GiveUp, SaveAs, Unverified, Acquirable,
   Answers, Serves, vars, disk, state, service, installer, Fault, NoFault
<1>1. \/ mem' = mem \/ mem' = NoJournal
      \/ \E s \in Stage : mem' = [mem EXCEPT !.stage = s]
  BY DEF Stage
<1>2. mem' \in Journal
  BY <1>1, CopyTyped DEF IInv, TypeOK
<1>3. pc' \in Place /\ retry' \in BOOLEAN
  BY DEF IInv, Place
<1>4. journal' \in Journal /\ retained' \subseteq Generation
  BY DEF IInv, TypeOK
<1>5. installed' \in Generation \cup {None} /\ schema' \in Nat
  BY DEF IInv, TypeOK
<1>6. fence' = fence \/ fence' = [token |-> mem.token, held |-> TRUE]
  OBVIOUS
<1>7. fence' \in [token : 0 .. MaxTokens, held : BOOLEAN]
  BY <1>6, FenceTyped DEF IInv
<1>8. work' \in BOOLEAN /\ enabled' \in BOOLEAN
  BY DEF IInv, TypeOK
<1>9. tokens' \in 0 .. MaxTokens /\ works' \in 0 .. MaxWork
  BY DEF IInv, TypeOK
<1>10. faults' \in 0 .. MaxFaults
  BY DEF IInv, TypeOK
<1>11. unit' \in {"inactive", "starting", "active"}
       /\ exe' \in Generation \cup {None} /\ (unit' = "active" <=> exe' # None)
       /\ failed' \in BOOLEAN /\ (failed' => unit' = "active")
  BY DEF IInv, TypeOK
<1>12. TypeOK'
  BY <1>2, <1>3, <1>4, <1>5, <1>7, <1>8, <1>11, <1>9, <1>10 DEF TypeOK
<1>13. Sound(journal)'
  BY DEF IInv, Position, CopyOf, Reached, Sound, Says
<1>14. CopyOf'
  BY DEF IInv, TypeOK, Position, CopyOf, Reached, Looking, Drafting, Unfinished, Settled,
     Kept, Journal
<1>15. Reached'
  BY DEF IInv, Position, Reached
<1>16. Position'
  BY <1>14, <1>15 DEF Position
<1>17. Opened'
  BY DEF IInv, TypeOK, Opened, Locked, Fences, Journal
<1>18. FenceOwned'
  BY DEF IInv, FenceOwned, Position, CopyOf, Reached, Looking, Unfinished, Settled
<1>19. Kept(journal)'
  BY DEF IInv, Kept
<1>20. (pc # "idle" /\ ~Looking => Sound(mem))'
  BY DEF IInv, TypeOK, Position, Reached, Looking, Sound, Journal, Says, Reversible,
     Backward
<1>. QED
  BY <1>12, <1>13, <1>16, <1>17, <1>18, <1>19, <1>20 DEF IInv

\* Only an idle manager behind its fence is stopped.
LEMMA CheckFenceKeeps ==
    ASSUME IInv, CheckFence
    PROVE  IInv'
<1>. USE ActivationAssumption DEF CheckFence, GiveUp, SaveAs, FenceVerified, vars, disk,
   state, service, installer, Fault, NoFault
<1>1. \/ mem' = mem \/ mem' = NoJournal
      \/ \E s \in Stage : mem' = [mem EXCEPT !.stage = s]
  BY DEF Stage
<1>2. mem' \in Journal
  BY <1>1, CopyTyped DEF IInv, TypeOK
<1>3. pc' \in Place /\ retry' \in BOOLEAN
  BY DEF IInv, TypeOK, Place
<1>4. journal' \in Journal /\ retained' \subseteq Generation
  BY DEF IInv, TypeOK
<1>5. installed' \in Generation \cup {None} /\ schema' \in Nat
  BY DEF IInv, TypeOK
<1>6. fence' \in [token : 0 .. MaxTokens, held : BOOLEAN]
  BY DEF IInv, TypeOK
<1>7. work' \in BOOLEAN /\ enabled' \in BOOLEAN
  BY DEF IInv, TypeOK
<1>8. tokens' \in 0 .. MaxTokens /\ works' \in 0 .. MaxWork
  BY DEF IInv, TypeOK
<1>9. faults' \in 0 .. MaxFaults
  BY DEF IInv, TypeOK
<1>10. unit' \in {"inactive", "starting", "active"}
       /\ exe' \in Generation \cup {None} /\ (unit' = "active" <=> exe' # None)
       /\ failed' \in BOOLEAN /\ (failed' => unit' = "active")
  BY DEF IInv, TypeOK
<1>11. TypeOK'
  BY <1>2, <1>3, <1>4, <1>5, <1>6, <1>7, <1>10, <1>8, <1>9 DEF TypeOK
<1>12. Sound(journal)'
  BY DEF IInv, Sound
<1>13. CopyOf'
  BY DEF IInv, TypeOK, Position, CopyOf, Reached, Looking, Drafting, Unfinished, Settled,
     Kept, Journal
<1>14. Reached'
  BY DEF IInv, Position, Reached
<1>15. Position'
  BY <1>13, <1>14 DEF Position
<1>16. Opened'
  BY DEF IInv, TypeOK, Opened, Locked, Journal
<1>17. FenceOwned'
  BY DEF IInv, FenceOwned
<1>18. Kept(journal)'
  BY DEF IInv, Kept
<1>19. (pc # "idle" /\ ~Looking => Sound(mem))'
  BY DEF IInv, TypeOK, Position, Reached, Looking, Sound, Journal, Says, Backward
<1>. QED
  BY <1>11, <1>12, <1>15, <1>16, <1>17, <1>18, <1>19 DEF IInv

\* The service is stopped under the fence.
LEMMA StopKeeps ==
    ASSUME IInv, Stop
    PROVE  IInv'
<1>. USE ActivationAssumption DEF Stop, Gone, GiveUp, vars, disk, state, service, installer,
   Fault, NoFault
<1>1. \/ mem' = mem \/ mem' = NoJournal
      \/ \E s \in Stage : mem' = [mem EXCEPT !.stage = s]
  BY DEF Stage
<1>2. mem' \in Journal
  BY <1>1, CopyTyped DEF IInv, TypeOK
<1>3. pc' \in Place /\ retry' \in BOOLEAN
  BY DEF IInv, TypeOK, Place
<1>4. journal' \in Journal /\ retained' \subseteq Generation
  BY DEF IInv, TypeOK
<1>5. installed' \in Generation \cup {None} /\ schema' \in Nat
  BY DEF IInv, TypeOK
<1>6. fence' \in [token : 0 .. MaxTokens, held : BOOLEAN]
  BY DEF IInv, TypeOK
<1>7. work' \in BOOLEAN /\ enabled' \in BOOLEAN
  BY DEF IInv, TypeOK
<1>8. tokens' \in 0 .. MaxTokens /\ works' \in 0 .. MaxWork
  BY DEF IInv, TypeOK
<1>9. faults' \in 0 .. MaxFaults
  BY DEF IInv, TypeOK
<1>10. unit' \in {"inactive", "starting", "active"}
       /\ exe' \in Generation \cup {None} /\ (unit' = "active" <=> exe' # None)
       /\ failed' \in BOOLEAN /\ (failed' => unit' = "active")
  <2>1. unit' \in {"inactive", "starting", "active"}
        /\ exe' \in Generation \cup {None} /\ (unit' = "active" <=> exe' # None)
    BY DEF IInv, TypeOK
  <2>2. CASE Gone
    BY <2>1, <2>2
  <2>3. CASE UNCHANGED service
    BY <2>3 DEF IInv, TypeOK
  <2>. QED
    BY <2>2, <2>3
<1>11. TypeOK'
  BY <1>2, <1>3, <1>4, <1>5, <1>6, <1>7, <1>10, <1>8, <1>9 DEF TypeOK
<1>12. Sound(journal)'
  BY DEF IInv, Sound
<1>13. CopyOf'
  BY DEF IInv, Position, CopyOf, Looking, Drafting
<1>14. Reached'
  BY DEF IInv, Position, Reached
<1>15. Position'
  BY <1>13, <1>14 DEF Position
<1>16. Opened'
  BY DEF IInv, Opened, Locked
<1>17. FenceOwned'
  BY DEF IInv, FenceOwned
<1>18. Kept(journal)'
  BY DEF IInv, Kept
<1>19. (pc # "idle" /\ ~Looking => Sound(mem))'
  BY DEF IInv, Sound, Looking
<1>. QED
  BY <1>11, <1>12, <1>15, <1>16, <1>17, <1>18, <1>19 DEF IInv

\* A generation is published, or started, where nothing runs.
LEMMA CheckStoppedKeeps ==
    ASSUME IInv, CheckStopped
    PROVE  IInv'
<1>. USE ActivationAssumption DEF CheckStopped, GiveUp, vars, disk, state, service,
   installer, Fault, NoFault
<1>1. \/ mem' = mem \/ mem' = NoJournal
      \/ \E s \in Stage : mem' = [mem EXCEPT !.stage = s]
  BY DEF Stage
<1>2. mem' \in Journal
  BY <1>1, CopyTyped DEF IInv, TypeOK
<1>3. pc' \in Place /\ retry' \in BOOLEAN
  BY DEF IInv, TypeOK, Place
<1>4. journal' \in Journal /\ retained' \subseteq Generation
  BY DEF IInv, TypeOK
<1>5. installed' \in Generation \cup {None} /\ schema' \in Nat
  BY DEF IInv, TypeOK
<1>6. fence' \in [token : 0 .. MaxTokens, held : BOOLEAN]
  BY DEF IInv, TypeOK
<1>7. work' \in BOOLEAN /\ enabled' \in BOOLEAN
  BY DEF IInv, TypeOK
<1>8. tokens' \in 0 .. MaxTokens /\ works' \in 0 .. MaxWork
  BY DEF IInv, TypeOK
<1>9. faults' \in 0 .. MaxFaults
  BY DEF IInv, TypeOK
<1>10. unit' \in {"inactive", "starting", "active"}
       /\ exe' \in Generation \cup {None} /\ (unit' = "active" <=> exe' # None)
       /\ failed' \in BOOLEAN /\ (failed' => unit' = "active")
  BY DEF IInv, TypeOK
<1>11. TypeOK'
  BY <1>2, <1>3, <1>4, <1>5, <1>6, <1>7, <1>10, <1>8, <1>9 DEF TypeOK
<1>12. Sound(journal)'
  BY DEF IInv, Sound
<1>13. CopyOf'
  BY DEF IInv, Position, CopyOf, Looking, Drafting
<1>14. Reached'
  BY DEF IInv, Position, Reached
<1>15. Position'
  BY <1>13, <1>14 DEF Position
<1>16. Opened'
  BY DEF IInv, Opened, Locked
<1>17. FenceOwned'
  BY DEF IInv, FenceOwned
<1>18. Kept(journal)'
  BY DEF IInv, Kept
<1>19. (pc # "idle" /\ ~Looking => Sound(mem))'
  BY DEF IInv, Sound, Looking
<1>. QED
  BY <1>11, <1>12, <1>15, <1>16, <1>17, <1>18, <1>19 DEF IInv

\* The published generation reads the state that is there.
LEMMA InstallKeeps ==
    ASSUME IInv, Install
    PROVE  IInv'
<1>. USE ActivationAssumption DEF Install, GiveUp, SaveAs, Goal, vars, disk, state,
   service, installer, Fault, NoFault
<1>1. \/ mem' = mem \/ mem' = NoJournal
      \/ \E s \in Stage : mem' = [mem EXCEPT !.stage = s]
  BY DEF Stage
<1>2. mem' \in Journal
  BY <1>1, CopyTyped DEF IInv, TypeOK
<1>3. pc' \in Place /\ retry' \in BOOLEAN
  BY DEF IInv, TypeOK, Place
<1>4. journal' \in Journal /\ retained' \subseteq Generation
  BY DEF IInv, TypeOK
<1>5. installed' \in Generation \cup {None} /\ schema' \in Nat
  BY DEF IInv, TypeOK, Journal
<1>6. fence' \in [token : 0 .. MaxTokens, held : BOOLEAN]
  BY DEF IInv, TypeOK
<1>7. work' \in BOOLEAN /\ enabled' \in BOOLEAN
  BY DEF IInv, TypeOK
<1>8. tokens' \in 0 .. MaxTokens /\ works' \in 0 .. MaxWork
  BY DEF IInv, TypeOK
<1>9. faults' \in 0 .. MaxFaults
  BY DEF IInv, TypeOK
<1>10. unit' \in {"inactive", "starting", "active"}
       /\ exe' \in Generation \cup {None} /\ (unit' = "active" <=> exe' # None)
       /\ failed' \in BOOLEAN /\ (failed' => unit' = "active")
  BY DEF IInv, TypeOK
<1>11. TypeOK'
  BY <1>2, <1>3, <1>4, <1>5, <1>6, <1>7, <1>10, <1>8, <1>9 DEF TypeOK
<1>12. Sound(journal)'
  BY DEF IInv, Position, CopyOf, Reached, Sound, Says
<1>13. CopyOf'
  BY DEF IInv, TypeOK, Position, CopyOf, Reached, Looking, Drafting, Unfinished, Settled,
     Kept, Journal
<1>14. Reached'
  <2>1. (pc = "fence" => mem.stage \in {"quiesced", "stopping", "starting", "rollback"})'
    BY DEF IInv, TypeOK
  <2>2. (pc = "stop" => mem.stage \in {"stopping", "rollback"})'
    BY DEF IInv, TypeOK
  <2>3. (pc = "stopped" => mem.stage \in {"stopping", "rollback", "offline-fenced", "verified", "complete"})'
    BY DEF IInv, TypeOK
  <2>4. (pc = "install" => mem.stage \in {"stopping", "rollback", "offline-fenced"})'
    BY DEF IInv, TypeOK
  <2>5. (pc \in {"locked", "migrate"} => mem.offline)'
    BY DEF IInv, TypeOK
  <2>6. (pc \in {"ensure", "start", "await"} => mem.stage \notin {"quiesced", "stopping", "offline-prepared", "offline-fenced"})'
    BY DEF IInv, TypeOK
  <2>7. (pc = "start" => mem.stage # "prepared")'
    BY DEF IInv, TypeOK
  <2>8. (pc \in {"start", "await"} /\ mem.stage = "rollback" => installed = mem.prev)'
    BY DEF IInv, Backward
  <2>9. (pc = "acquire" => mem.stage = "prepared" \/ (mem.stage = "starting"
        /\ mem.prev = None))'
    BY DEF IInv, TypeOK
  <2>10. (pc = "release" => mem.stage \in {"verified", "rollback-verified"})'
    BY DEF IInv, TypeOK
  <2>11. (pc = "migrate" => mem.stage \in {"offline-prepared", "offline-fenced", "starting"})'
    BY DEF IInv, TypeOK
  <2>12. (retry => pc \in {"await", "acquire"} /\ mem.stage = "starting")'
    BY DEF IInv, Position, Reached
  <2>. QED
    BY <2>1, <2>2, <2>3, <2>4, <2>5, <2>6, <2>7, <2>8, <2>9, <2>10, <2>11, <2>12
       DEF Reached
<1>15. Position'
  BY <1>13, <1>14 DEF Position
<1>16. Opened'
  <2>1. (unit = "active" => schema = Schema[exe])'
    BY DEF IInv, Opened, Locked
  <2>2. (Locked => unit # "active")'
    BY DEF IInv, TypeOK, Opened, Locked, Journal
  <2>3. (installed = None => schema = 0)'
    BY DEF IInv, Opened, Locked, Position, Reached, Looking, Sound, Says, Reversible
  <2>4. (journal.stage = "none" /\ installed # None => Accepts(installed, schema))'
    BY DEF IInv, Position, CopyOf, Looking
  <2>5. (fence.held => ~work /\ schema > Historical)'
    BY DEF IInv, Opened, Locked
  <2>. QED
    BY <2>1, <2>2, <2>3, <2>4, <2>5 DEF Opened
<1>17. FenceOwned'
  BY DEF IInv, FenceOwned
<1>18. Kept(journal)'
  BY DEF IInv, Kept
<1>19. (pc # "idle" /\ ~Looking => Sound(mem))'
  BY DEF IInv, TypeOK, Position, Reached, Looking, Sound, Journal, Says, Backward
<1>. QED
  BY <1>11, <1>12, <1>15, <1>16, <1>17, <1>18, <1>19 DEF IInv

\* A start is of the installed generation.
LEMMA StartKeeps ==
    ASSUME IInv, Start
    PROVE  IInv'
<1>. USE ActivationAssumption DEF Start, GiveUp, StartFailed, SaveAs, Unverified, vars,
   disk, state, service, installer, Fault, NoFault
<1>1. \/ mem' = mem \/ mem' = NoJournal
      \/ \E s \in Stage : mem' = [mem EXCEPT !.stage = s]
  BY DEF Stage
<1>2. mem' \in Journal
  BY <1>1, CopyTyped DEF IInv, TypeOK
<1>3. pc' \in Place /\ retry' \in BOOLEAN
  BY DEF IInv, TypeOK, Place
<1>4. journal' \in Journal /\ retained' \subseteq Generation
  BY DEF IInv, TypeOK
<1>5. installed' \in Generation \cup {None} /\ schema' \in Nat
  BY DEF IInv, TypeOK
<1>6. fence' \in [token : 0 .. MaxTokens, held : BOOLEAN]
  BY DEF IInv, TypeOK
<1>7. work' \in BOOLEAN /\ enabled' \in BOOLEAN
  BY DEF IInv, TypeOK
<1>8. tokens' \in 0 .. MaxTokens /\ works' \in 0 .. MaxWork
  BY DEF IInv, TypeOK
<1>9. faults' \in 0 .. MaxFaults
  BY DEF IInv, TypeOK
<1>10. unit' \in {"inactive", "starting", "active"}
       /\ exe' \in Generation \cup {None} /\ (unit' = "active" <=> exe' # None)
       /\ failed' \in BOOLEAN /\ (failed' => unit' = "active")
  BY DEF IInv, TypeOK
<1>11. TypeOK'
  BY <1>2, <1>3, <1>4, <1>5, <1>6, <1>7, <1>10, <1>8, <1>9 DEF TypeOK
<1>12. Sound(journal)'
  BY DEF IInv, Sound
<1>13. CopyOf'
  BY DEF IInv, TypeOK, Position, CopyOf, Looking, Drafting, Unfinished, Settled, Kept,
     Journal
<1>14. Reached'
  BY DEF IInv, Position, Reached
<1>15. Position'
  BY <1>13, <1>14 DEF Position
<1>16. Opened'
  BY DEF IInv, TypeOK, Opened, Locked, Journal
<1>17. FenceOwned'
  BY DEF IInv, FenceOwned
<1>18. Kept(journal)'
  BY DEF IInv, Kept
<1>19. (pc # "idle" /\ ~Looking => Sound(mem))'
  BY DEF IInv, TypeOK, Looking, Sound, Journal, Says, Reversible
<1>. QED
  BY <1>11, <1>12, <1>15, <1>16, <1>17, <1>18, <1>19 DEF IInv

\* Admission opens before the journal is settled.
LEMMA ReleaseKeeps ==
    ASSUME IInv, Release
    PROVE  IInv'
<1>. USE ActivationAssumption DEF Release, GiveUp, SaveAs, Answers, Serves, vars, disk, state,
   service, installer, Fault, NoFault
<1>1. \/ mem' = mem \/ mem' = NoJournal
      \/ \E s \in Stage : mem' = [mem EXCEPT !.stage = s]
  BY DEF Stage
<1>2. mem' \in Journal
  BY <1>1, CopyTyped DEF IInv, TypeOK
<1>3. pc' \in Place /\ retry' \in BOOLEAN
  BY DEF IInv, Place
<1>4. journal' \in Journal /\ retained' \subseteq Generation
  BY DEF IInv, TypeOK
<1>5. installed' \in Generation \cup {None} /\ schema' \in Nat
  BY DEF IInv, TypeOK
<1>6. fence' \in [token : 0 .. MaxTokens, held : BOOLEAN]
  BY DEF IInv, TypeOK
<1>7. work' \in BOOLEAN /\ enabled' \in BOOLEAN
  BY DEF IInv, TypeOK
<1>8. tokens' \in 0 .. MaxTokens /\ works' \in 0 .. MaxWork
  BY DEF IInv, TypeOK
<1>9. faults' \in 0 .. MaxFaults
  BY DEF IInv, TypeOK
<1>10. unit' \in {"inactive", "starting", "active"}
       /\ exe' \in Generation \cup {None} /\ (unit' = "active" <=> exe' # None)
       /\ failed' \in BOOLEAN /\ (failed' => unit' = "active")
  BY DEF IInv, TypeOK
<1>11. TypeOK'
  BY <1>2, <1>3, <1>4, <1>5, <1>6, <1>7, <1>10, <1>8, <1>9 DEF TypeOK
<1>12. Sound(journal)'
  BY DEF IInv, TypeOK, Position, CopyOf, Reached, Sound, Says
<1>13. CopyOf'
  BY DEF IInv, TypeOK, Position, CopyOf, Reached, Looking, Drafting, Unfinished, Settled,
     Kept, Journal
<1>14. Reached'
  BY DEF IInv, Position, Reached
<1>15. Position'
  BY <1>13, <1>14 DEF Position
<1>16. Opened'
  BY DEF IInv, TypeOK, Opened, Locked, Journal
<1>17. FenceOwned'
  BY DEF IInv, TypeOK, FenceOwned
<1>18. Kept(journal)'
  BY DEF IInv, Kept
<1>19. (pc # "idle" /\ ~Looking => Sound(mem))'
  BY DEF IInv, TypeOK, Position, Reached, Looking, Sound, Journal, Says, Reversible,
     Backward
<1>. QED
  BY <1>11, <1>12, <1>15, <1>16, <1>17, <1>18, <1>19 DEF IInv

\* The bridge looks at a state nobody uses.
LEMMA InspectKeeps ==
    ASSUME IInv, Inspect
    PROVE  IInv'
<1>. USE ActivationAssumption DEF Inspect, GiveUp, New, vars, disk, state, service,
   installer, Fault, NoFault
<1>1. mem.stage = "none" => mem.target \in Generation
  BY DEF IInv, Position, CopyOf
<1>2. \/ mem' = mem \/ mem' = NoJournal
      \/ mem.target \in Generation /\ New(mem.target, "offline-prepared", TRUE)
  <2>1. CASE mem.stage = "none" /\ New(mem.target, "offline-prepared", TRUE)
    BY <1>1, <2>1
  <2>2. CASE mem' = mem \/ mem' = NoJournal
    BY <2>2
  <2>. QED
    BY <2>1, <2>2
<1>3. mem' \in Journal
  BY <1>2, CopyTyped, NewTyped DEF IInv, TypeOK, Stage
<1>4. pc' \in Place /\ retry' \in BOOLEAN
  BY DEF IInv, TypeOK, Place
<1>5. journal' \in Journal /\ retained' \subseteq Generation
  BY DEF IInv, TypeOK
<1>6. installed' \in Generation \cup {None} /\ schema' \in Nat
  BY DEF IInv, TypeOK
<1>7. fence' \in [token : 0 .. MaxTokens, held : BOOLEAN]
  BY DEF IInv, TypeOK
<1>8. work' \in BOOLEAN /\ enabled' \in BOOLEAN
  BY DEF IInv, TypeOK
<1>9. tokens' \in 0 .. MaxTokens /\ works' \in 0 .. MaxWork
  BY DEF IInv, TypeOK
<1>10. faults' \in 0 .. MaxFaults
  BY DEF IInv, TypeOK
<1>11. unit' \in {"inactive", "starting", "active"}
       /\ exe' \in Generation \cup {None} /\ (unit' = "active" <=> exe' # None)
       /\ failed' \in BOOLEAN /\ (failed' => unit' = "active")
  BY DEF IInv, TypeOK
<1>12. TypeOK'
  BY <1>3, <1>4, <1>5, <1>6, <1>7, <1>8, <1>11, <1>9, <1>10 DEF TypeOK
<1>13. Sound(journal)'
  BY DEF IInv, Sound
<1>14. CopyOf'
  BY DEF IInv, Position, CopyOf, Looking, Drafting, Unfinished, Settled
<1>15. Reached'
  BY DEF IInv, Position, Reached
<1>16. Position'
  BY <1>14, <1>15 DEF Position
<1>17. Opened'
  <2>1. (unit = "active" => schema = Schema[exe])'
    BY DEF IInv, Opened, Locked
  <2>2. (Locked => unit # "active")'
    BY DEF IInv, Opened, Locked, Position, Reached
  <2>3. (installed = None => schema = 0)'
    BY DEF IInv, Opened, Locked
  <2>4. (journal.stage = "none" /\ installed # None => Accepts(installed, schema))'
    BY DEF IInv, Opened, Locked
  <2>5. (fence.held => ~work /\ schema > Historical)'
    BY DEF IInv, Opened, Locked
  <2>. QED
    BY <2>1, <2>2, <2>3, <2>4, <2>5 DEF Opened
<1>18. FenceOwned'
  BY DEF IInv, FenceOwned
<1>19. Kept(journal)'
  BY DEF IInv, Kept
<1>20. (pc # "idle" /\ ~Looking => Sound(mem))'
  BY DEF IInv, Position, CopyOf, Looking, Sound, Says, Backward, Accepts
<1>. QED
  BY <1>12, <1>13, <1>16, <1>17, <1>18, <1>19, <1>20 DEF IInv

\* The bridge raises the schema under the lock.
LEMMA MigrateKeeps ==
    ASSUME IInv, Migrate
    PROVE  IInv'
<1>. USE ActivationAssumption DEF Migrate, GiveUp, SaveAs, Continued, vars, disk, state,
   service, installer, Fault, NoFault
<1>1. \/ mem' = mem \/ mem' = NoJournal
      \/ \E s \in Stage : mem' = [mem EXCEPT !.stage = s]
  BY DEF Stage
<1>2. mem' \in Journal
  BY <1>1, CopyTyped DEF IInv, TypeOK
<1>3. pc' \in Place /\ retry' \in BOOLEAN
  BY DEF IInv, Place
<1>4. journal' \in Journal /\ retained' \subseteq Generation
  BY DEF IInv, TypeOK
<1>5. installed' \in Generation \cup {None} /\ schema' \in Nat
  BY DEF IInv, TypeOK, Sound, Says, Position, CopyOf
<1>6. fence' = fence \/ fence' = [token |-> mem.token, held |-> TRUE]
  OBVIOUS
<1>7. fence' \in [token : 0 .. MaxTokens, held : BOOLEAN]
  BY <1>6, FenceTyped DEF IInv
<1>8. work' \in BOOLEAN /\ enabled' \in BOOLEAN
  BY DEF IInv, TypeOK
<1>9. tokens' \in 0 .. MaxTokens /\ works' \in 0 .. MaxWork
  BY DEF IInv, TypeOK
<1>10. faults' \in 0 .. MaxFaults
  BY DEF IInv, TypeOK
<1>11. unit' \in {"inactive", "starting", "active"}
       /\ exe' \in Generation \cup {None} /\ (unit' = "active" <=> exe' # None)
       /\ failed' \in BOOLEAN /\ (failed' => unit' = "active")
  BY DEF IInv, TypeOK
<1>12. TypeOK'
  BY <1>2, <1>3, <1>4, <1>5, <1>7, <1>8, <1>11, <1>9, <1>10 DEF TypeOK
<1>13. Sound(journal)'
  BY DEF IInv, Position, CopyOf, Reached, Sound, Says, Accepts
<1>14. CopyOf'
  BY DEF IInv, TypeOK, Position, CopyOf, Reached, Looking, Drafting, Unfinished, Settled,
     Kept, Journal
<1>15. Reached'
  BY DEF IInv, Position, Reached
<1>16. Position'
  BY <1>14, <1>15 DEF Position
<1>17. Opened'
  <2>1. (unit = "active" => schema = Schema[exe])'
    BY DEF IInv, Opened, Locked, Position, Reached
  <2>2. (Locked => unit # "active")'
    BY DEF IInv, Opened, Locked, Position, Reached
  <2>3. (installed = None => schema = 0)'
    BY DEF IInv, Position, Reached, Looking, Sound, Says
  <2>4. (journal.stage = "none" /\ installed # None => Accepts(installed, schema))'
    BY DEF IInv, Position, CopyOf, Looking
  <2>5. (fence.held => ~work /\ schema > Historical)'
    BY DEF IInv, Opened, Locked, Fences, Position, CopyOf, Sound, Says
  <2>. QED
    BY <2>1, <2>2, <2>3, <2>4, <2>5 DEF Opened
<1>18. FenceOwned'
  BY DEF IInv, FenceOwned, Position, CopyOf, Reached, Looking, Unfinished, Settled
<1>19. Kept(journal)'
  BY DEF IInv, Kept
<1>20. (pc # "idle" /\ ~Looking => Sound(mem))'
  BY DEF IInv, TypeOK, Position, Reached, Looking, Sound, Journal, Says, Backward, Accepts
<1>. QED
  BY <1>12, <1>13, <1>16, <1>17, <1>18, <1>19, <1>20 DEF IInv

\* A command that is run again goes on from the saved journal.
LEMMA ResumeKeeps ==
    ASSUME NEW b \in Generation, IInv, Resume(b)
    PROVE  IInv'
<1>. USE ActivationAssumption DEF Resume, vars, disk, state, service, installer, Fault,
   NoFault
<1>1. mem' \in Journal
  BY DEF IInv, TypeOK
<1>2. pc' \in Place /\ retry' \in BOOLEAN
  BY DEF IInv, Place
<1>3. journal' \in Journal /\ retained' \subseteq Generation
  BY DEF IInv, TypeOK
<1>4. installed' \in Generation \cup {None} /\ schema' \in Nat
  BY DEF IInv, TypeOK
<1>5. fence' \in [token : 0 .. MaxTokens, held : BOOLEAN]
  BY DEF IInv, TypeOK
<1>6. work' \in BOOLEAN /\ enabled' \in BOOLEAN
  BY DEF IInv, TypeOK
<1>7. tokens' \in 0 .. MaxTokens /\ works' \in 0 .. MaxWork
  BY DEF IInv, TypeOK
<1>8. faults' \in 0 .. MaxFaults
  BY DEF IInv, TypeOK
<1>9. unit' \in {"inactive", "starting", "active"}
      /\ exe' \in Generation \cup {None} /\ (unit' = "active" <=> exe' # None)
      /\ failed' \in BOOLEAN /\ (failed' => unit' = "active")
  BY DEF IInv, TypeOK
<1>10. TypeOK'
  BY <1>1, <1>2, <1>3, <1>4, <1>5, <1>6, <1>9, <1>7, <1>8 DEF TypeOK
<1>11. Sound(journal)'
  BY DEF IInv, Sound
<1>12. CopyOf'
  BY DEF IInv, Position, CopyOf, Looking, Drafting
<1>13. Reached'
  BY DEF IInv, Position, Reached
<1>14. Position'
  BY <1>12, <1>13 DEF Position
<1>15. Opened'
  BY DEF IInv, Opened, Locked
<1>16. FenceOwned'
  BY DEF IInv, FenceOwned
<1>17. Kept(journal)'
  BY DEF IInv, Kept
<1>18. (pc # "idle" /\ ~Looking => Sound(mem))'
  BY DEF IInv, Sound
<1>. QED
  BY <1>10, <1>11, <1>14, <1>15, <1>16, <1>17, <1>18 DEF IInv

\* A new activation is drafted only where none is unfinished.
LEMMA PrepareKeeps ==
    ASSUME NEW b \in Generation, Fences(b), IInv, Prepare(b)
    PROVE  IInv'
<1>. USE ActivationAssumption DEF Prepare, New, Answers, Serves, vars, disk, state, service,
   installer, Fault, NoFault
<1>1. New(b, "prepared", FALSE)
  OBVIOUS
<1>2. mem' \in Journal
  BY <1>1, NewTyped DEF IInv, TypeOK, Stage
<1>3. pc' \in Place /\ retry' \in BOOLEAN
  BY DEF IInv, TypeOK, Place
<1>4. journal' \in Journal /\ retained' \subseteq Generation
  BY DEF IInv, TypeOK
<1>5. installed' \in Generation \cup {None} /\ schema' \in Nat
  BY DEF IInv, TypeOK
<1>6. fence' \in [token : 0 .. MaxTokens, held : BOOLEAN]
  BY DEF IInv, TypeOK
<1>7. work' \in BOOLEAN /\ enabled' \in BOOLEAN
  BY DEF IInv, TypeOK
<1>8. tokens' \in 0 .. MaxTokens /\ works' \in 0 .. MaxWork
  BY DEF IInv, TypeOK
<1>9. faults' \in 0 .. MaxFaults
  BY DEF IInv, TypeOK
<1>10. unit' \in {"inactive", "starting", "active"}
       /\ exe' \in Generation \cup {None} /\ (unit' = "active" <=> exe' # None)
       /\ failed' \in BOOLEAN /\ (failed' => unit' = "active")
  BY DEF IInv, TypeOK
<1>11. TypeOK'
  BY <1>2, <1>3, <1>4, <1>5, <1>6, <1>7, <1>10, <1>8, <1>9 DEF TypeOK
<1>12. Sound(journal)'
  BY DEF IInv, Sound
<1>13. CopyOf'
  BY DEF IInv, Position, CopyOf, Looking
<1>14. Reached'
  BY DEF IInv, Position, Reached
<1>15. Position'
  BY <1>13, <1>14 DEF Position
<1>16. Opened'
  BY DEF IInv, Opened, Locked
<1>17. FenceOwned'
  BY DEF IInv, FenceOwned
<1>18. Kept(journal)'
  BY DEF IInv, Kept
<1>19. (pc # "idle" /\ ~Looking => Sound(mem))'
  BY DEF IInv, Sound, Opened, Says, Backward, Accepts
<1>. QED
  BY <1>11, <1>12, <1>15, <1>16, <1>17, <1>18, <1>19 DEF IInv

\* A bridge that finds its manager running has only to look at it.
LEMMA BridgeVerifyKeeps ==
    ASSUME NEW b \in Generation, IInv, BridgeVerify(b)
    PROVE  IInv'
<1>. USE ActivationAssumption DEF BridgeVerify, vars, disk, state, service, installer,
   Fault, NoFault
<1>1. mem' \in Journal
  BY DEF IInv, TypeOK
<1>2. pc' \in Place /\ retry' \in BOOLEAN
  BY DEF IInv, Place
<1>3. journal' \in Journal /\ retained' \subseteq Generation
  BY DEF IInv, TypeOK
<1>4. installed' \in Generation \cup {None} /\ schema' \in Nat
  BY DEF IInv, TypeOK
<1>5. fence' \in [token : 0 .. MaxTokens, held : BOOLEAN]
  BY DEF IInv, TypeOK
<1>6. work' \in BOOLEAN /\ enabled' \in BOOLEAN
  BY DEF IInv, TypeOK
<1>7. tokens' \in 0 .. MaxTokens /\ works' \in 0 .. MaxWork
  BY DEF IInv, TypeOK
<1>8. faults' \in 0 .. MaxFaults
  BY DEF IInv, TypeOK
<1>9. unit' \in {"inactive", "starting", "active"}
      /\ exe' \in Generation \cup {None} /\ (unit' = "active" <=> exe' # None)
      /\ failed' \in BOOLEAN /\ (failed' => unit' = "active")
  BY DEF IInv, TypeOK
<1>10. TypeOK'
  BY <1>1, <1>2, <1>3, <1>4, <1>5, <1>6, <1>9, <1>7, <1>8 DEF TypeOK
<1>11. Sound(journal)'
  BY DEF IInv, Sound
<1>12. CopyOf'
  BY DEF IInv, Position, CopyOf, Looking, Drafting
<1>13. Reached'
  BY DEF IInv, Position, Reached
<1>14. Position'
  BY <1>12, <1>13 DEF Position
<1>15. Opened'
  BY DEF IInv, Opened, Locked
<1>16. FenceOwned'
  BY DEF IInv, FenceOwned
<1>17. Kept(journal)'
  BY DEF IInv, Kept
<1>18. (pc # "idle" /\ ~Looking => Sound(mem))'
  BY DEF IInv, Sound
<1>. QED
  BY <1>10, <1>11, <1>14, <1>15, <1>16, <1>17, <1>18 DEF IInv

\* The bridge takes the lock of a service that is stopped.
LEMMA BridgeLockKeeps ==
    ASSUME NEW b \in Generation, IInv, BridgeLock(b)
    PROVE  IInv'
<1>. USE ActivationAssumption DEF BridgeLock, vars, disk, state, service, installer,
   Fault, NoFault
<1>1. mem' \in Journal
  BY ReachLooking DEF IInv, TypeOK
<1>2. pc' \in Place /\ retry' \in BOOLEAN
  BY DEF IInv, Place
<1>3. journal' \in Journal /\ retained' \subseteq Generation
  BY DEF IInv, TypeOK
<1>4. installed' \in Generation \cup {None} /\ schema' \in Nat
  BY DEF IInv, TypeOK
<1>5. fence' \in [token : 0 .. MaxTokens, held : BOOLEAN]
  BY DEF IInv, TypeOK
<1>6. work' \in BOOLEAN /\ enabled' \in BOOLEAN
  BY DEF IInv, TypeOK
<1>7. tokens' \in 0 .. MaxTokens /\ works' \in 0 .. MaxWork
  BY DEF IInv, TypeOK
<1>8. faults' \in 0 .. MaxFaults
  BY DEF IInv, TypeOK
<1>9. unit' \in {"inactive", "starting", "active"}
      /\ exe' \in Generation \cup {None} /\ (unit' = "active" <=> exe' # None)
      /\ failed' \in BOOLEAN /\ (failed' => unit' = "active")
  BY DEF IInv, TypeOK
<1>10. TypeOK'
  BY <1>1, <1>2, <1>3, <1>4, <1>5, <1>6, <1>9, <1>7, <1>8 DEF TypeOK
<1>11. Sound(journal)'
  BY DEF IInv, Sound
<1>12. CopyOf'
  BY DEF IInv, Position, CopyOf, Looking, Drafting, NoJournal
<1>13. Reached'
  BY DEF IInv, Position, Reached, NoJournal
<1>14. Position'
  BY <1>12, <1>13 DEF Position
<1>15. Opened'
  BY DEF IInv, Opened, Locked
<1>16. FenceOwned'
  BY DEF IInv, FenceOwned
<1>17. Kept(journal)'
  BY DEF IInv, Kept
<1>18. (pc # "idle" /\ ~Looking => Sound(mem))'
  <2>1. CASE mem' = journal
    BY <2>1 DEF IInv, Sound
  <2>2. CASE mem' = [NoJournal EXCEPT !.offline = TRUE, !.target = b]
    BY <2>2 DEF NoJournal, Looking
  <2>. QED
    BY <2>1, <2>2
<1>. QED
  BY <1>10, <1>11, <1>14, <1>15, <1>16, <1>17, <1>18 DEF IInv

-----------------------------------------------------------------------------
(* The inductive invariant *)

\* A host that was never upgraded satisfies it.
LEMMA InitIInv == Init => IInv
<1>. SUFFICES ASSUME Init PROVE IInv
  OBVIOUS
<1>1. NoJournal \in Journal
  BY ActivationAssumption DEF NoJournal, Journal, Stage
<1>2. TypeOK
  <2>1. journal \in Journal /\ mem \in Journal /\ pc \in Place
    BY <1>1 DEF Init, Place
  <2>2. installed \in Generation \cup {None} /\ schema \in Nat
        /\ retained \subseteq Generation
    BY DEF Init, Historical
  <2>3. fence \in [token : 0 .. MaxTokens, held : BOOLEAN]
    BY ActivationAssumption DEF Init
  <2>4. tokens \in 0 .. MaxTokens /\ faults \in 0 .. MaxFaults /\ works \in 0 .. MaxWork
    BY ActivationAssumption DEF Init
  <2>. QED
    BY <2>1, <2>2, <2>3, <2>4 DEF Init, TypeOK
<1>3. Sound(journal) /\ FenceOwned /\ Kept(journal)
  BY DEF Init, Sound, Says, FenceOwned, Kept, NoJournal, Backward
<1>4. Position
  BY DEF Init, Position, CopyOf, Reached, Looking, Drafting
<1>5. Opened
  BY ActivationAssumption DEF Init, Opened, Locked, Accepts, NoJournal, Historical
<1>. QED
  BY <1>2, <1>3, <1>4, <1>5 DEF IInv, Init

\* A step that changes nothing keeps it.
LEMMA StutterKeeps == IInv /\ UNCHANGED vars => IInv'
<1>. SUFFICES ASSUME IInv, UNCHANGED vars PROVE IInv'
  OBVIOUS
<1>. USE DEF vars, disk, state, service, installer
<1>1. TypeOK' /\ Opened' /\ FenceOwned' /\ Kept(journal)'
  BY DEF IInv, TypeOK, Opened, Locked, FenceOwned, Kept
<1>2. Sound(journal)' /\ Sound(mem)' = Sound(mem) /\ Looking' = Looking
  BY DEF IInv, Sound, Looking
<1>3. Position'
  BY DEF IInv, Position, CopyOf, Reached, Looking, Drafting, Kept
<1>. QED
  BY <1>1, <1>2, <1>3 DEF IInv

\* Every step of the host, the manager, its user and the installer keeps it.
LEMMA NextIInv == IInv /\ [Next]_vars => IInv'
<1>. SUFFICES ASSUME IInv, [Next]_vars PROVE IInv'
  OBVIOUS
<1>1. CASE World
  BY <1>1, ManagerOpensKeeps, ManagerRefusesKeeps, ManagerExitsKeeps, ManagerFailsKeeps, AdmitKeeps,
     FinishWorkKeeps,
     ByHandKeeps, ProcedureKeeps, RebootKeeps, DieKeeps DEF World, Manager
<1>2. CASE Step
  BY <1>2, RetainKeeps, SaveKeeps, ActivateKeeps, EnsureKeeps, AwaitKeeps, AcquireKeeps,
     CheckFenceKeeps, StopKeeps, CheckStoppedKeeps, InstallKeeps, StartKeeps, ReleaseKeeps,
     InspectKeeps, MigrateKeeps DEF Step, Online
<1>3. CASE Begin
  BY <1>3, ResumeKeeps, PrepareKeeps, BridgeVerifyKeeps, BridgeLockKeeps DEF Begin
<1>4. CASE UNCHANGED vars
  BY <1>4, StutterKeeps
<1>. QED
  BY <1>1, <1>2, <1>3, <1>4 DEF Next

\* The journal, its copy and the host agree at every step of an upgrade.
THEOREM Inductive == Spec => []IInv
<1>1. Init => IInv
  BY InitIInv
<1>2. IInv /\ [Next]_vars => IInv'
  BY NextIInv
<1>. QED
  BY <1>1, <1>2, PTL DEF Spec

-----------------------------------------------------------------------------
(* What it gives *)

\* The journal, the host, its manager and the installer have their shape.
THEOREM TypeCorrect == Spec => []TypeOK
<1>1. IInv => TypeOK
  BY DEF IInv
<1>. QED
  BY <1>1, Inductive, PTL

\* Admission is never left closed by an activation nobody will go on with.
THEOREM FenceNeverOrphaned == Spec => []FenceOwned
<1>1. IInv => FenceOwned
  BY DEF IInv
<1>. QED
  BY <1>1, Inductive, PTL

\* At any interruption a generation is at hand that reads the state.
THEOREM AlwaysRecoverable == Spec => []Recoverable
<1>1. IInv => Recoverable
  <2>. SUFFICES ASSUME IInv PROVE Recoverable
    OBVIOUS
  <2>. USE ActivationAssumption
  <2>1. CASE Unfinished(journal) /\ journal.stage \in Backward
    <3>1. Goal(journal) = journal.prev /\ journal.prev # None
          /\ journal.prev \in Generation
          /\ journal.target \in Generation /\ schema \in Nat
          /\ schema <= Schema[journal.target]
          /\ Schema[journal.target] <= Schema[journal.prev]
      BY <2>1 DEF IInv, TypeOK, Journal, Sound, Says, Reversible, Accepts, Goal,
         Unfinished, Settled
    <3>2. journal.prev \in retained
      BY <3>1 DEF IInv, Kept
    <3>. QED
      BY <2>1, <3>1, <3>2 DEF Recoverable, Accepts
  <2>2. CASE Unfinished(journal) /\ journal.stage \notin Backward
    <3>1. Goal(journal) = journal.target /\ journal.target \in Generation
          /\ Accepts(journal.target, schema)
      BY <2>2 DEF IInv, Sound, Says, Goal, Unfinished, Settled
    <3>2. journal.target \in retained
      BY <3>1 DEF IInv, Kept
    <3>. QED
      BY <2>2, <3>1, <3>2 DEF Recoverable
  <2>3. CASE ~Unfinished(journal)
    <3>. SUFFICES ASSUME installed # None PROVE Accepts(installed, schema)
      BY <2>3 DEF Recoverable
    <3>1. CASE journal.stage = "none"
      BY <3>1 DEF IInv, Opened
    <3>2. CASE journal.stage = "complete"
      BY <3>2 DEF IInv, Sound, Says
    <3>3. CASE journal.stage = "rolled-back"
      <4>1. installed = journal.prev /\ journal.prev \in Generation
            /\ journal.target \in Generation /\ schema \in Nat
            /\ schema <= Schema[journal.target]
            /\ Schema[journal.target] <= Schema[journal.prev]
        BY <3>3 DEF IInv, TypeOK, Journal, Sound, Says, Reversible, Backward, Accepts
      <4>. QED
        BY <4>1 DEF Accepts
    <3>. QED
      BY <2>3, <3>1, <3>2, <3>3 DEF Unfinished, Settled
  <2>. QED
    BY <2>1, <2>2, <2>3
<1>. QED
  BY <1>1, Inductive, PTL

\* What the installer stops for an upgrade is idle with admission closed, and
\* it migrates no state that a manager uses.
THEOREM NoWorkTaken == Spec => WorkUntouched
<1>1. IInv /\ [Next]_vars =>
        [/\ Stop /\ unit = "active" /\ mem.prev # None => ~work
         /\ Migrate /\ schema' # schema => ~work /\ unit # "active"]_vars
  <2>. SUFFICES ASSUME IInv
       PROVE  /\ Stop /\ unit = "active" /\ mem.prev # None => ~work
              /\ Migrate /\ schema' # schema => ~work /\ unit # "active"
    OBVIOUS
  <2>1. ASSUME Stop, mem.prev # None PROVE ~work
    <3>1. mem.stage \in {"stopping", "rollback"} /\ Sound(mem)
      BY <2>1 DEF Stop, IInv, Position, CopyOf, Reached, Looking
    <3>2. fence.held
      BY <2>1, <3>1 DEF Sound, Says
    <3>. QED
      BY <3>2 DEF IInv, Opened
  <2>2. ASSUME Migrate PROVE unit # "active"
    BY <2>2 DEF Migrate, Locked, IInv, Position, Reached, Opened
  <2>3. ASSUME Migrate, schema' # schema PROVE ~work
    BY <2>3 DEF Migrate
  <2>. QED
    BY <2>1, <2>2, <2>3
<1>. QED
  BY <1>1, Inductive, PTL DEF Spec, WorkUntouched

-----------------------------------------------------------------------------
(* What the installer meets is what it left *)

\* What a journal and its copy say of the generation that is installed.
LEMMA InstalledKnown ==
    ASSUME IInv
    PROVE  /\ journal.stage # "none" => installed \in {journal.prev, journal.target}
           /\ journal.stage \in Released => installed = Waited(journal)
           /\ pc = "save" /\ mem.stage \in Released => installed = Waited(mem)
BY DEF IInv, Sound, Says, Released, Waited, Goal, Backward, Looking, Position, CopyOf

\* A step that saves nothing keeps what is known of what runs.
LEMMA RunsOn ==
    ASSUME RunsKnown, journal' = journal,
           unit' = "active" => unit = "active" /\ exe' = exe,
           pc' = "save" => mem'.stage \notin Released \cup {"prepared", "offline-prepared"},
           pc' # "retain"
    PROVE  RunsKnown'
BY DEF RunsKnown, Drafting, Released, Waited, Goal, Backward

\* While no manager is active there is nothing to know.
LEMMA RunsIdle == unit' # "active" => RunsKnown'
BY DEF RunsKnown

\* A manager that starts is started from what is installed.
LEMMA RunsWorld == IInv /\ RunsKnown /\ World => RunsKnown'
<1>. SUFFICES ASSUME IInv, RunsKnown, World PROVE RunsKnown'
  OBVIOUS
<1>. USE DEF disk, state, service, installer
<1>1. CASE ManagerOpens
  <2>1. CASE unit' = "active"
    <3>1. exe' = installed
      BY <1>1, <2>1 DEF ManagerOpens
    <3>. QED
      BY <1>1, <3>1, InstalledKnown
      DEF ManagerOpens, RunsKnown, Drafting, Released, Waited, Goal, Backward
  <2>. QED
    BY <2>1, RunsIdle
<1>2. CASE ManagerRefuses \/ ManagerExits \/ ByHand \/ Procedure \/ Reboot
  <2>1. unit' # "active"
    BY <1>2 DEF ManagerRefuses, ManagerExits, ByHand, Procedure, Reboot
  <2>. QED
    BY <2>1, RunsIdle
<1>3. CASE ManagerFails \/ Admit \/ FinishWork
  BY <1>3 DEF ManagerFails, Admit, Serves, FinishWork, RunsKnown, Drafting, Released, Waited, Goal,
    Backward
<1>4. CASE Die
  BY <1>4, RunsOn DEF Die, GiveUp
<1>. QED
  BY <1>1, <1>2, <1>3, <1>4 DEF World, Manager

\* A save writes the copy, of which the same is known.
LEMMA RunsSaved == IInv /\ RunsKnown /\ Save => RunsKnown'
<1>. SUFFICES ASSUME IInv, RunsKnown, Save PROVE RunsKnown'
  OBVIOUS
<1>1. unit' = unit /\ exe' = exe /\ journal' \in {journal, mem} /\ pc' \notin {"save", "retain"}
  BY DEF Save, AfterSave, GiveUp, service
<1>2. pc = "save"
  BY DEF Save
<1>3. CASE journal' = journal
  BY <1>1, <1>3, RunsOn
<1>4. CASE journal' = mem
  <2>1. unit = "active" => exe \in {mem.prev, mem.target}
    <3>1. CASE Drafting
      BY <1>2, <3>1 DEF RunsKnown, IInv, Sound, Says, Looking, Position, CopyOf
    <3>2. CASE ~Drafting
      <4>1. journal.stage # "none" /\ mem = [journal EXCEPT !.stage = mem.stage]
        BY <1>2, <3>2 DEF IInv, Position, CopyOf, Unfinished, Settled
      <4>2. mem.prev = journal.prev /\ mem.target = journal.target
        BY <4>1 DEF IInv, TypeOK, Journal
      <4>. QED
        BY <4>1, <4>2 DEF RunsKnown
    <3>. QED
      BY <3>1, <3>2
  <2>. QED
    BY <1>1, <1>2, <1>4, <2>1 DEF RunsKnown, Drafting, Released, Waited, Goal, Backward
<1>. QED
  BY <1>1, <1>3, <1>4

\* A stage that is set in the copy leaves what the copy is heading for.
LEMMA StageSet ==
    ASSUME NEW s, mem \in Journal, SaveAs(s)
    PROVE  mem'.stage = s /\ mem'.prev = mem.prev /\ mem'.target = mem.target /\ pc' = "save"
BY DEF SaveAs, Journal

\* Where verification failed, the copy is at most set to a rollback.
LEMMA UnverifiedRuns ==
    ASSUME RunsKnown, mem \in Journal, journal' = journal, UNCHANGED exe,
           unit' = "active" => unit = "active", Unverified
    PROVE  RunsKnown'
<1>1. CASE SaveAs("rollback")
  BY <1>1, StageSet, RunsOn DEF Released
<1>2. CASE pc' \in {"fence", "idle"}
  BY <1>2, RunsOn
<1>. QED
  BY <1>1, <1>2 DEF Unverified, GiveUp

\* What is verified runs.
LEMMA VerifiedRuns ==
    ASSUME RunsKnown, mem \in Journal, journal' = journal, UNCHANGED <<unit, exe>>,
           exe = Waited(mem), mem.stage # "prepared",
           NEW s \in Released, s \in Backward <=> mem.stage \in Backward, SaveAs(s)
    PROVE  RunsKnown'
<1>1. mem'.stage = s /\ mem'.prev = mem.prev /\ mem'.target = mem.target /\ pc' = "save"
  BY StageSet
<1>2. Waited(mem') = Waited(mem)
  BY <1>1 DEF Waited, Goal, Released
<1>3. ~Drafting'
  BY <1>1 DEF Drafting, Released
<1>. QED
  BY <1>1, <1>2, <1>3 DEF RunsKnown, service, Waited, Goal, Backward

\* The installer's other steps verify what runs before they say so.
LEMMA RunsOnline == IInv /\ RunsKnown /\ Online => RunsKnown'
<1>. SUFFICES ASSUME IInv, RunsKnown, Online PROVE RunsKnown'
  OBVIOUS
<1>. USE DEF disk, state, service, installer
<1>1. mem \in Journal
  BY DEF IInv, TypeOK
<1>2. CASE Retain
  <2>1. CASE GiveUp
    BY <1>2, <2>1, RunsOn DEF Retain, GiveUp
  <2>2. CASE pc' = "save" /\ mem' = mem
    <3>1. mem.stage \in {"prepared", "offline-prepared"} /\ Drafting
      BY <1>2 DEF Retain, IInv, Position, CopyOf, Drafting
    <3>. QED
      BY <1>2, <2>2, <3>1 DEF Retain, RunsKnown, Drafting, Released, Waited, Goal, Backward
  <2>. QED
    BY <1>2, <2>1, <2>2 DEF Retain
<1>3. CASE Save
  BY <1>3, RunsSaved
<1>4. CASE Activate
  <2>1. CASE SaveAs("quiesced")
    BY <1>1, <1>4, <2>1, StageSet, RunsOn DEF Activate, Released
  <2>2. CASE pc' \notin {"save", "retain"}
    BY <1>4, <2>2, RunsOn DEF Activate
  <2>. QED
    BY <1>4, <2>1, <2>2 DEF Activate, GiveUp
<1>5. CASE Ensure
  BY <1>5, RunsOn DEF Ensure, GiveUp
<1>6. CASE Await
  <2>1. CASE Unverified
    BY <1>1, <1>6, <2>1, UnverifiedRuns DEF Await
  <2>2. CASE pc' \in {"acquire", "idle"}
    BY <1>6, <2>2, RunsOn DEF Await
  <2>3. CASE /\ Answers(Waited(mem)) /\ SaveAs(VerifiedStage)
             /\ mem.stage \notin Settled \cup {"prepared"}
    <3>1. /\ VerifiedStage \in Released
          /\ VerifiedStage \in Backward <=> mem.stage \in Backward
      BY DEF VerifiedStage, Released, Backward
    <3>. QED
      BY <1>1, <1>6, <2>3, <3>1, VerifiedRuns DEF Await, Answers, Serves
  <2>. QED
    BY <1>6, <2>1, <2>2, <2>3 DEF Await, GiveUp
<1>7. CASE Acquire
  <2>1. CASE Unverified
    BY <1>1, <1>7, <2>1, UnverifiedRuns DEF Acquire
  <2>2. CASE mem.stage = "prepared" /\ SaveAs("quiesced")
    BY <1>1, <1>7, <2>2, StageSet, RunsOn DEF Acquire, Released
  <2>3. CASE mem.stage # "prepared" /\ Acquirable /\ SaveAs("verified")
    <3>1. mem.stage = "starting"
      BY <1>7, <2>3 DEF Acquire, IInv, Position, Reached
    <3>2. "verified" \in Released /\ ("verified" \in Backward <=> mem.stage \in Backward)
      BY <3>1 DEF Released, Backward
    <3>. QED
      BY <1>1, <1>7, <2>3, <3>2, VerifiedRuns DEF Acquire, Acquirable, Answers, Serves
  <2>. QED
    BY <1>7, <2>1, <2>2, <2>3 DEF Acquire
<1>8. CASE CheckFence
  <2>1. CASE SaveAs("stopping")
    BY <1>1, <1>8, <2>1, StageSet, RunsOn DEF CheckFence, Released
  <2>2. CASE pc' \in {"stop", "idle"}
    BY <1>8, <2>2, RunsOn DEF CheckFence
  <2>. QED
    BY <1>8, <2>1, <2>2 DEF CheckFence, GiveUp
<1>9. CASE Stop \/ CheckStopped
  BY <1>9, RunsOn DEF Stop, CheckStopped, GiveUp
<1>10. CASE Install
  <2>1. CASE SaveAs("starting")
    BY <1>1, <1>10, <2>1, StageSet, RunsOn DEF Install, Released
  <2>2. CASE pc' \in {"start", "idle"}
    BY <1>10, <2>2, RunsOn DEF Install
  <2>. QED
    BY <1>10, <2>1, <2>2 DEF Install, GiveUp
<1>11. CASE Start
  <2>1. UNCHANGED exe /\ journal' = journal /\ (unit' = "active" => unit = "active")
    BY <1>11 DEF Start
  <2>2. CASE Unverified
    BY <1>1, <2>1, <2>2, UnverifiedRuns
  <2>3. CASE pc' \in {"await", "idle"}
    BY <2>1, <2>3, RunsOn
  <2>. QED
    BY <1>11, <2>2, <2>3 DEF Start, StartFailed, GiveUp
<1>12. CASE Release
  <2>1. mem.stage \in {"verified", "rollback-verified"}
    BY <1>12 DEF Release, IInv, Position, Reached
  <2>2. CASE GiveUp
    BY <1>12, <2>2, RunsOn DEF Release, GiveUp
  <2>3. CASE mem.stage = "verified" /\ SaveAs("complete") /\ Answers(Waited(mem))
    <3>1. "complete" \in Released /\ ("complete" \in Backward <=> mem.stage \in Backward)
      BY <2>3 DEF Released, Backward
    <3>. QED
      BY <1>1, <1>12, <2>3, <3>1, VerifiedRuns DEF Release, Answers, Serves
  <2>4. CASE mem.stage = "rollback-verified" /\ SaveAs("rolled-back") /\ Answers(Waited(mem))
    <3>1. "rolled-back" \in Released /\ ("rolled-back" \in Backward <=> mem.stage \in Backward)
      BY <2>4 DEF Released, Backward
    <3>. QED
      BY <1>1, <1>12, <2>4, <3>1, VerifiedRuns DEF Release, Answers, Serves
  <2>. QED
    BY <1>12, <2>1, <2>2, <2>3, <2>4 DEF Release
<1>. QED
  BY <1>2, <1>3, <1>4, <1>5, <1>6, <1>7, <1>8, <1>9, <1>10, <1>11, <1>12 DEF Online

\* Of the generations that run, nothing else is known than the steps keep.
LEMMA RunsStep == IInv /\ RunsKnown /\ [Next]_vars => RunsKnown'
<1>. SUFFICES ASSUME IInv, RunsKnown, [Next]_vars PROVE RunsKnown'
  OBVIOUS
<1>. USE DEF disk, state, service, installer
<1>1. CASE World
  BY <1>1, RunsWorld
<1>2. CASE Online
  BY <1>2, RunsOnline
<1>3. CASE Inspect \/ Migrate
  <2>1. unit' # "active"
    BY <1>3 DEF Inspect, Migrate, Locked, IInv, Position, Reached, Opened
  <2>. QED
    BY <2>1, RunsIdle
<1>4. CASE Begin
  <2>1. PICK b \in Generation : Resume(b) \/ Prepare(b) \/ BridgeVerify(b) \/ BridgeLock(b)
    BY <1>4 DEF Begin
  <2>2. CASE Resume(b) \/ BridgeVerify(b)
    BY <2>2, RunsOn DEF Resume, BridgeVerify
  <2>3. CASE Prepare(b)
    <3>1. unit = "active" => exe = installed
      BY <2>3 DEF Prepare, Answers, Serves
    <3>2. UNCHANGED <<journal, unit, exe, installed>> /\ pc' = "retain"
      BY <2>3 DEF Prepare, New
    <3>. QED
      BY <3>1, <3>2 DEF RunsKnown, Released, Waited, Goal, Backward
  <2>4. CASE BridgeLock(b)
    BY <2>4, RunsIdle DEF BridgeLock
  <2>. QED
    BY <2>1, <2>2, <2>3, <2>4
<1>5. CASE UNCHANGED vars
  BY <1>5 DEF vars, RunsKnown, Drafting, Released, Waited, Goal, Backward
<1>. QED
  BY <1>1, <1>2, <1>3, <1>4, <1>5 DEF Next, Step

\* A step that leaves the host, and writes no draft, keeps what a bridge knows.
LEMMA BridgeRests ==
    ASSUME BridgeKnown, UNCHANGED <<journal, installed, schema, fence>>,
           ~Drafting', pc' # "migrate"
    PROVE  BridgeKnown'
BY DEF BridgeKnown, Bridged

\* What has gone past the bridge's first stage has nothing to know of it.
LEMMA BridgePast ==
    ASSUME journal' = journal, journal.stage # "offline-prepared",
           ~Drafting', pc' # "migrate"
    PROVE  BridgeKnown'
BY DEF BridgeKnown, Bridged

\* Only a manager that reads what is there opens it, and none under the lock.
LEMMA BridgeWorld == IInv /\ BridgeKnown /\ World => BridgeKnown'
<1>. SUFFICES ASSUME IInv, BridgeKnown, World PROVE BridgeKnown'
  OBVIOUS
<1>. USE ActivationAssumption DEF disk, state, service, installer
<1>1. CASE ManagerOpens
  <2>1. ~Locked /\ installed # None /\ schema <= Schema[installed] /\ schema' = Schema[installed]
    BY <1>1 DEF ManagerOpens, CanOpen, Accepts
  <2>2. UNCHANGED <<journal, installed, fence, pc, mem>> /\ work' = FALSE
    BY <1>1 DEF ManagerOpens
  <2>3. Bridged(journal)'
    <3>. SUFFICES ASSUME journal.stage = "offline-prepared" PROVE Bridged(journal)'
      BY <2>2 DEF Bridged
    <3>1. installed = journal.prev /\ Schema[installed] = Historical
      BY DEF BridgeKnown, Bridged
    <3>2. schema \in Nat /\ (fence.held => schema > Historical)
      BY DEF IInv, TypeOK, Opened
    <3>3. schema = Historical
      <4>1. CASE fence.held
        BY <2>1, <3>1, <3>2, <4>1 DEF Historical
      <4>2. CASE ~fence.held
        BY <4>2 DEF BridgeKnown, Bridged
      <4>. QED
        BY <4>1, <4>2
    <3>. QED
      BY <2>1, <2>2, <3>1, <3>3 DEF BridgeKnown, Bridged
  <2>4. Drafting => mem.stage # "offline-prepared"
    <3>1. Drafting /\ mem.stage = "offline-prepared" => mem.offline
      BY DEF IInv, Sound, Says, Drafting, Looking
    <3>. QED
      BY <2>1, <3>1 DEF Drafting, Locked
  <2>. QED
    BY <2>2, <2>3, <2>4 DEF BridgeKnown, Bridged, Drafting
<1>2. CASE ManagerRefuses \/ ManagerExits \/ ManagerFails \/ ByHand \/ Procedure
  BY <1>2 DEF ManagerRefuses, ManagerExits, ManagerFails, ByHand, Procedure, BridgeKnown,
    Bridged, Drafting
<1>3. CASE Admit
  <2>1. UNCHANGED <<journal, installed, schema, fence, pc, mem>> /\ ~Locked
    BY <1>3 DEF Admit, Serves, IInv, Opened
  <2>2. ~(pc = "migrate")
    BY <2>1 DEF Locked, IInv, Position, Reached
  <2>3. ~(Drafting /\ mem.stage = "offline-prepared")
    <3>1. Drafting /\ mem.stage = "offline-prepared" => mem.offline
      BY DEF IInv, Sound, Says, Drafting, Looking
    <3>. QED
      BY <2>1, <3>1 DEF Drafting, Locked
  <2>. QED
    BY <2>1, <2>2, <2>3 DEF BridgeKnown, Bridged, Drafting
<1>4. CASE FinishWork
  BY <1>4 DEF FinishWork, BridgeKnown, Bridged, Drafting
<1>5. CASE Reboot \/ Die
  BY <1>5, BridgeRests DEF Reboot, Die, GiveUp, Drafting
<1>. QED
  BY <1>1, <1>2, <1>3, <1>4, <1>5 DEF World, Manager

\* A save writes a draft as what it knows, or something past it.
LEMMA BridgeSaved == IInv /\ BridgeKnown /\ Save => BridgeKnown'
<1>. SUFFICES ASSUME IInv, BridgeKnown, Save PROVE BridgeKnown'
  OBVIOUS
<1>. USE DEF disk, state, service, installer
<1>1. UNCHANGED <<installed, schema, fence, work>> /\ journal' \in {journal, mem}
  BY DEF Save
<1>2. ~Drafting' /\ (pc' = "migrate" => mem.stage = "offline-prepared")
  BY DEF Save, AfterSave, GiveUp, Drafting
<1>3. pc = "save" /\ (mem.stage = "offline-prepared" => Drafting)
  BY DEF Save, Drafting
<1>4. Bridged(mem)
  BY <1>3 DEF BridgeKnown, Bridged
<1>5. Bridged(journal)'
  BY <1>1, <1>4 DEF BridgeKnown, Bridged
<1>6. pc' = "migrate" => ~work'
  BY <1>1, <1>2, <1>3 DEF BridgeKnown
<1>. QED
  BY <1>2, <1>5, <1>6 DEF BridgeKnown

\* A stage that is set past the draft leaves no draft.
LEMMA SetPast ==
    ASSUME NEW s, mem \in Journal, SaveAs(s), s \notin {"prepared", "offline-prepared"}
    PROVE  ~Drafting' /\ pc' # "migrate"
BY StageSet DEF Drafting

\* Nor does what follows a failed verification.
LEMMA UnverifiedPast == mem \in Journal /\ Unverified => ~Drafting' /\ pc' # "migrate"
BY SetPast DEF Unverified, GiveUp, Drafting

\* The online steps touch the fence and the executable only past that stage.
LEMMA BridgeOnline == IInv /\ BridgeKnown /\ Online => BridgeKnown'
<1>. SUFFICES ASSUME IInv, BridgeKnown, Online PROVE BridgeKnown'
  OBVIOUS
<1>. USE DEF disk, state, service, installer
<1>1. mem \in Journal
  BY DEF IInv, TypeOK
<1>2. CASE Retain
  <2>1. CASE GiveUp
    BY <1>2, <2>1, BridgeRests DEF Retain, GiveUp, Drafting
  <2>2. CASE pc' = "save" /\ mem' = mem
    BY <1>2, <2>2 DEF Retain, BridgeKnown, Bridged, Drafting
  <2>. QED
    BY <1>2, <2>1, <2>2 DEF Retain
<1>3. CASE Save
  BY <1>3, BridgeSaved
<1>4. CASE Activate \/ CheckFence \/ Await
  <2>1. UNCHANGED <<journal, installed, schema, fence>>
    BY <1>4 DEF Activate, CheckFence, Await
  <2>2. ~Drafting' /\ pc' # "migrate"
    <3>1. CASE Activate
      BY <1>1, <3>1, SetPast DEF Activate, GiveUp, Drafting
    <3>2. CASE CheckFence
      BY <1>1, <3>2, SetPast DEF CheckFence, GiveUp, Drafting
    <3>3. CASE Await
      BY <1>1, <3>3, SetPast, UnverifiedPast DEF Await, VerifiedStage, GiveUp, Drafting
    <3>. QED
      BY <1>4, <3>1, <3>2, <3>3
  <2>. QED
    BY <2>1, <2>2, BridgeRests
<1>5. CASE Ensure \/ Stop \/ CheckStopped
  BY <1>5, BridgeRests DEF Ensure, Stop, CheckStopped, GiveUp, Drafting
<1>6. CASE Acquire
  <2>1. journal' = journal /\ journal.stage # "offline-prepared"
    BY <1>6 DEF Acquire, IInv, Position, CopyOf, Reached, Looking
  <2>2. ~Drafting' /\ pc' # "migrate"
    BY <1>1, <1>6, SetPast, UnverifiedPast DEF Acquire
  <2>. QED
    BY <2>1, <2>2, BridgePast
<1>7. CASE Install
  <2>1. journal' = journal /\ journal.stage # "offline-prepared"
    BY <1>7 DEF Install, IInv, Position, CopyOf, Reached, Looking
  <2>2. ~Drafting' /\ pc' # "migrate"
    BY <1>1, <1>7, SetPast DEF Install, GiveUp, Drafting
  <2>. QED
    BY <2>1, <2>2, BridgePast
<1>8. CASE Start
  <2>1. UNCHANGED <<journal, installed, schema, fence>>
    BY <1>8 DEF Start
  <2>2. ~Drafting' /\ pc' # "migrate"
    BY <1>1, <1>8, UnverifiedPast DEF Start, StartFailed, GiveUp, Drafting
  <2>. QED
    BY <2>1, <2>2, BridgeRests
<1>9. CASE Release
  <2>1. journal' = journal /\ journal.stage # "offline-prepared"
    BY <1>9 DEF Release, IInv, Position, CopyOf, Reached, Looking
  <2>2. ~Drafting' /\ pc' # "migrate"
    BY <1>1, <1>9, SetPast DEF Release, GiveUp, Drafting
  <2>. QED
    BY <2>1, <2>2, BridgePast
<1>. QED
  BY <1>2, <1>3, <1>4, <1>5, <1>6, <1>7, <1>8, <1>9 DEF Online

\* The bridge looks before it writes, and writes under the lock.
LEMMA BridgeStep == IInv /\ BridgeKnown /\ [Next]_vars => BridgeKnown'
<1>. SUFFICES ASSUME IInv, BridgeKnown, [Next]_vars PROVE BridgeKnown'
  OBVIOUS
<1>. USE ActivationAssumption DEF disk, state, service, installer
<1>1. CASE World
  BY <1>1, BridgeWorld
<1>2. CASE Online
  BY <1>2, BridgeOnline
<1>3. CASE Inspect
  <2>1. UNCHANGED <<journal, installed, schema, fence, work>>
    BY <1>3 DEF Inspect
  <2>2. CASE GiveUp
    BY <2>1, <2>2, BridgeRests DEF GiveUp, Drafting
  <2>3. CASE pc' = "stopped"
    BY <2>1, <2>3, BridgeRests DEF Drafting
  <2>4. CASE pc' = "migrate" /\ ~work
    BY <2>1, <2>4 DEF BridgeKnown, Bridged, Drafting
  <2>5. CASE /\ New(mem.target, "offline-prepared", TRUE)
             /\ Schema[installed] = Historical /\ schema = Historical
             /\ fence.token = 0 /\ ~work
    BY <2>1, <2>5 DEF New, BridgeKnown, Bridged, Drafting
  <2>. QED
    BY <1>3, <2>2, <2>3, <2>4, <2>5 DEF Inspect
<1>4. CASE Migrate
  <2>1. UNCHANGED <<journal, installed>> /\ ~Drafting' /\ pc' # "migrate"
    <3>1. mem \in Journal
      BY DEF IInv, TypeOK
    <3>. QED
      BY <1>4, <3>1, SetPast DEF Migrate, GiveUp, Drafting
  <2>2. CASE UNCHANGED <<schema, fence>>
    BY <2>1, <2>2, BridgeRests
  <2>3. CASE schema' = Schema[mem.target] /\ fence' = [token |-> mem.token, held |-> TRUE]
    <3>1. mem = journal /\ mem.stage # "none"
      BY <1>4 DEF Migrate, IInv, Position, CopyOf, Looking
    <3>2. Schema[mem.target] > Historical /\ Schema[mem.target] # Historical
      <4>1. mem.target \in Generation /\ Fences(mem.target)
        BY <3>1 DEF IInv, Sound, Says
      <4>. QED
        BY <4>1 DEF Fences, Historical
    <3>3. Bridged(journal)'
      BY <2>1, <2>3, <3>1, <3>2 DEF BridgeKnown, Bridged
    <3>. QED
      BY <2>1, <3>3 DEF BridgeKnown
  <2>. QED
    BY <1>4, <2>2, <2>3 DEF Migrate
<1>5. CASE Begin
  <2>1. PICK b \in Generation : Resume(b) \/ Prepare(b) \/ BridgeVerify(b) \/ BridgeLock(b)
    BY <1>5 DEF Begin
  <2>2. CASE Resume(b) \/ BridgeVerify(b) \/ BridgeLock(b)
    BY <2>2, BridgeRests DEF Resume, BridgeVerify, BridgeLock, Drafting
  <2>3. CASE Prepare(b)
    BY <2>3 DEF Prepare, New, BridgeKnown, Bridged, Drafting
  <2>. QED
    BY <2>1, <2>2, <2>3
<1>6. CASE UNCHANGED vars
  BY <1>6 DEF vars, BridgeKnown, Bridged, Drafting
<1>. QED
  BY <1>1, <1>2, <1>3, <1>4, <1>5, <1>6 DEF Next, Step

\* From what is known of the journal, of what runs and of the bridge it follows
\* that each step finds what it looks for.
LEMMA KnownUnhindered == IInv /\ RunsKnown /\ BridgeKnown => Unhindered
<1>. SUFFICES ASSUME IInv, RunsKnown, BridgeKnown PROVE Unhindered
  OBVIOUS
<1>. USE ActivationAssumption
<1>1. ASSUME pc \in {"fence", "install", "migrate", "release"}
      PROVE  /\ mem = journal /\ mem.stage # "none" /\ Sound(mem)
             /\ mem.target \in Generation /\ Fences(mem.target)
  BY <1>1 DEF IInv, Position, CopyOf, Looking, Sound, Says
<1>2. ASSUME pc = "fence", mem.prev # None, unit # "starting", ~failed PROVE FenceVerified
  <2>1. fence.held /\ fence.token = mem.token
    BY <1>1, <1>2 DEF IInv, Position, Reached, Sound, Says
  <2>2. unit \in {"inactive", "active"}
    BY <1>2 DEF IInv, TypeOK
  <2>3. ASSUME unit = "active" PROVE exe \in {mem.prev, mem.target} /\ Fences(exe)
    <3>1. exe \in {mem.prev, mem.target}
      BY <1>1, <1>2, <2>3 DEF RunsKnown
    <3>2. schema = Schema[exe] /\ schema > Historical
      BY <2>1, <2>3 DEF IInv, Opened
    <3>. QED
      BY <3>1, <3>2 DEF Fences
  <2>. QED
    BY <1>2, <2>1, <2>2, <2>3 DEF FenceVerified, Answers, Serves
<1>3. ASSUME pc = "install" PROVE Goal(mem) \in retained
  <2>1. Kept(mem) /\ mem.stage \in {"stopping", "rollback", "offline-fenced"}
    BY <1>1, <1>3 DEF IInv, Position, Reached
  <2>2. mem.stage \in Backward => mem.prev # None
    BY <1>1, <1>3 DEF Sound, Says, Reversible
  <2>3. mem.target # None
    BY <1>1, <1>3
  <2>. QED
    BY <2>1, <2>2, <2>3 DEF Goal, Kept
<1>4. ASSUME pc = "migrate" PROVE Continued /\ ~work
  <2>1. mem.stage \in {"offline-prepared", "offline-fenced", "starting"} /\ mem.offline
    BY <1>4 DEF IInv, Position, Reached
  <2>2. CASE mem.stage = "offline-prepared"
    BY <1>1, <1>4, <2>2 DEF BridgeKnown, Bridged, Continued
  <2>3. CASE mem.stage # "offline-prepared"
    <3>1. fence = [token |-> mem.token, held |-> TRUE]
      BY <1>1, <1>4, <2>1, <2>3 DEF Sound, Says
    <3>2. schema \in Nat /\ schema > Historical
      BY <3>1 DEF IInv, TypeOK, Opened
    <3>. QED
      BY <1>4, <3>1, <3>2 DEF BridgeKnown, Continued, Historical
  <2>. QED
    BY <1>4, <2>2, <2>3 DEF BridgeKnown
<1>5. ASSUME pc = "release", unit = "active", ~failed
      PROVE  Answers(Waited(mem)) /\ fence.token = mem.token
  <2>1. mem.stage \in {"verified", "rollback-verified"}
    BY <1>5 DEF IInv, Position, Reached
  <2>2. exe = Waited(mem)
    BY <1>1, <1>5, <2>1 DEF RunsKnown, Released
  <2>3. fence.token = mem.token
    BY <1>1, <1>5, <2>1 DEF Sound, Says
  <2>4. Fences(Waited(mem))
    <3>1. CASE mem.stage = "verified"
      BY <1>1, <1>5, <3>1 DEF Waited, Goal, Backward
    <3>2. CASE mem.stage = "rollback-verified"
      <4>1. Waited(mem) = mem.prev /\ mem.prev # None /\ Schema[mem.target] <= Schema[mem.prev]
        BY <1>1, <1>5, <3>2 DEF Waited, Goal, Backward, Sound, Says, Reversible, Accepts
      <4>2. mem.prev \in Generation /\ Schema[mem.prev] \in Nat /\ Schema[mem.target] \in Nat
        BY <1>1, <1>5, <4>1 DEF IInv, TypeOK, Journal
      <4>. QED
        BY <1>1, <1>5, <4>1, <4>2 DEF Fences, Historical
    <3>. QED
      BY <2>1, <3>1, <3>2
  <2>. QED
    BY <1>5, <2>2, <2>3, <2>4 DEF Answers, Serves
<1>. QED
  BY <1>2, <1>3, <1>4, <1>5 DEF Unhindered

\* However often it is interrupted, and whatever the user starts and stops, the
\* installer meets what its journal says, beside a manager that has not failed:
\* it never refuses its own work.
THEOREM NeverHindered == Spec => []Unhindered
<1>1. Init => RunsKnown /\ BridgeKnown
  BY DEF Init, NoJournal, RunsKnown, BridgeKnown, Bridged, Drafting
<1>2. IInv /\ RunsKnown /\ BridgeKnown /\ [Next]_vars => (RunsKnown /\ BridgeKnown)'
  BY RunsStep, BridgeStep
<1>3. IInv /\ RunsKnown /\ BridgeKnown => Unhindered
  BY KnownUnhindered
<1>. QED
  BY <1>1, <1>2, <1>3, Inductive, PTL DEF Spec

-----------------------------------------------------------------------------
(* The upgrade as those who use the host see it *)

\* The copy loses nothing of its activation's number, and no save is made.
CopyKept ==
    /\ journal' = journal
    /\ \/ mem' \in {mem, NoJournal, journal}
       \/ mem.stage # "none" /\ \E s \in Stage : mem' = [mem EXCEPT !.stage = s]

\* Such a step leaves every journal numbered.
LEMMA CopyNumbered == TypeOK /\ Numbered /\ CopyKept => Numbered'
<1>. SUFFICES ASSUME TypeOK, Numbered, CopyKept PROVE Numbered'
  OBVIOUS
<1>1. CASE mem' \in {mem, NoJournal, journal}
  BY <1>1 DEF CopyKept, Numbered, NoJournal
<1>2. CASE mem.stage # "none" /\ \E s \in Stage : mem' = [mem EXCEPT !.stage = s]
  <2>1. PICK s \in Stage : mem' = [mem EXCEPT !.stage = s]
    BY <1>2
  <2>2. mem'.token = mem.token /\ mem.token # 0
    BY <1>2, <2>1 DEF TypeOK, Journal, Numbered
  <2>. QED
    BY <2>2 DEF CopyKept, Numbered
<1>. QED
  BY <1>1, <1>2 DEF CopyKept

\* The host, its manager and its user do not touch a journal.
LEMMA WorldCopies == World => CopyKept
BY DEF World, Manager, ManagerOpens, ManagerRefuses, ManagerExits, ManagerFails, Admit, Serves,
   FinishWork, ByHand, Procedure, Reboot, Die, GiveUp, CopyKept, disk, installer

\* Past the draft, an online step sets at most the stage of the copy.
LEMMA OnlineCopies == IInv /\ Online /\ pc \notin {"retain", "save"} => CopyKept
<1>. SUFFICES ASSUME IInv, Online, pc \notin {"retain", "save"} PROVE CopyKept
  OBVIOUS
<1>. USE DEF CopyKept, SaveAs, GiveUp, disk, Stage
<1>1. pc \notin {"idle", "locked"} => mem.stage # "none"
  BY DEF IInv, Position, CopyOf, Looking
<1>2. Unverified => \/ mem' \in {mem, NoJournal}
                    \/ \E s \in Stage : mem' = [mem EXCEPT !.stage = s]
  BY DEF Unverified
<1>3. ASSUME Activate PROVE CopyKept
  BY <1>1, <1>3 DEF Activate
<1>4. ASSUME Ensure PROVE CopyKept
  BY <1>4 DEF Ensure
<1>5. ASSUME Await PROVE CopyKept
  BY <1>1, <1>2, <1>5 DEF Await, VerifiedStage
<1>6. ASSUME Acquire PROVE CopyKept
  BY <1>1, <1>2, <1>6 DEF Acquire
<1>7. ASSUME CheckFence PROVE CopyKept
  BY <1>1, <1>7 DEF CheckFence
<1>8. ASSUME Stop \/ CheckStopped PROVE CopyKept
  BY <1>8 DEF Stop, CheckStopped
<1>9. ASSUME Install PROVE CopyKept
  BY <1>1, <1>9 DEF Install
<1>10. ASSUME Start PROVE CopyKept
  BY <1>1, <1>2, <1>10 DEF Start, StartFailed
<1>11. ASSUME Release PROVE CopyKept
  BY <1>1, <1>11 DEF Release
<1>12. ~Retain /\ ~Save
  BY DEF Retain, Save
<1>. QED
  BY <1>3, <1>4, <1>5, <1>6, <1>7, <1>8, <1>9, <1>10, <1>11, <1>12 DEF Online

\* A new draft takes the next number.
LEMMA DraftNumbered ==
    ASSUME NEW b, NEW s, NEW o, TypeOK, Numbered, New(b, s, o), journal' = journal
    PROVE  Numbered'
BY DEF New, Numbered, TypeOK

\* Every journal, saved or being written, is that of a numbered activation.
LEMMA NumberedStep == IInv /\ Numbered /\ [Next]_vars => Numbered'
<1>. SUFFICES ASSUME IInv, Numbered, [Next]_vars PROVE Numbered'
  OBVIOUS
<1>1. TypeOK
  BY DEF IInv
<1>2. CASE World
  BY <1>1, <1>2, WorldCopies, CopyNumbered
<1>3. CASE Online /\ pc \notin {"retain", "save"}
  BY <1>1, <1>3, OnlineCopies, CopyNumbered
<1>4. CASE Online /\ pc \in {"retain", "save"}
  <2>1. CASE Retain
    <3>1. CopyKept
      BY <2>1 DEF Retain, CopyKept, GiveUp
    <3>. QED
      BY <1>1, <3>1, CopyNumbered
  <2>2. CASE Save
    BY <2>2 DEF Save, GiveUp, Numbered, NoJournal
  <2>. QED
    BY <1>4, <2>1, <2>2 DEF Online, Activate, Ensure, Await, Acquire, CheckFence, Stop,
       CheckStopped, Install, Start, Release
<1>5. CASE Inspect
  <2>1. CASE CopyKept
    BY <1>1, <2>1, CopyNumbered
  <2>2. CASE New(mem.target, "offline-prepared", TRUE)
    BY <1>1, <1>5, <2>2, DraftNumbered DEF Inspect, disk
  <2>. QED
    BY <1>5, <2>1, <2>2 DEF Inspect, CopyKept, GiveUp, disk
<1>6. CASE Migrate
  <2>1. mem.stage # "none"
    BY <1>6 DEF Migrate, IInv, Position, CopyOf, Looking
  <2>2. CopyKept
    BY <1>6, <2>1 DEF Migrate, CopyKept, SaveAs, GiveUp, Stage
  <2>. QED
    BY <1>1, <2>2, CopyNumbered
<1>7. CASE Begin
  <2>1. PICK b \in Generation : Resume(b) \/ Prepare(b) \/ BridgeVerify(b) \/ BridgeLock(b)
    BY <1>7 DEF Begin
  <2>2. CASE Resume(b) \/ BridgeVerify(b)
    <3>1. CopyKept
      BY <2>2 DEF Resume, BridgeVerify, CopyKept, disk
    <3>. QED
      BY <1>1, <3>1, CopyNumbered
  <2>3. CASE Prepare(b)
    BY <1>1, <2>3, DraftNumbered DEF Prepare, disk
  <2>4. CASE BridgeLock(b)
    BY <2>4 DEF BridgeLock, Numbered, NoJournal, disk
  <2>. QED
    BY <2>1, <2>2, <2>3, <2>4
<1>8. CASE UNCHANGED vars
  BY <1>8 DEF vars, disk, installer, Numbered
<1>. QED
  BY <1>2, <1>3, <1>4, <1>5, <1>6, <1>7, <1>8 DEF Next, Step

\* No journal is ever written without the number of its activation.
THEOREM AlwaysNumbered == Spec => []Numbered
<1>1. Init => Numbered
  BY DEF Init, Numbered, NoJournal
<1>2. IInv /\ Numbered /\ [Next]_vars => Numbered'
  BY NumberedStep
<1>. QED
  BY <1>1, <1>2, Inductive, PTL DEF Spec

\* A step of what is promised, or one that it does not show.
PromisedStep ==
    [Upgraded!Upgrade]_<<fence, work, <<>>, installed>>

\* A step that leaves the fence, the work and the executable is none of them.
LEMMA PromiseStutters ==
    ASSUME UNCHANGED <<fence, work, installed>>
    PROVE  PromisedStep
BY DEF PromisedStep

\* The manager opens, admits and finishes work only while admission is open.
LEMMA ServePromised ==
    ASSUME IInv, ManagerOpens \/ Admit \/ FinishWork
    PROVE  PromisedStep
<1>. USE DEF ManagerOpens, Admit, Serves, FinishWork, disk, state
<1>1. work' \in BOOLEAN /\ UNCHANGED <<fence, installed>>
  BY DEF IInv, TypeOK
<1>2. CASE ~fence.held
  <2>1. Upgraded!Serve
    BY <1>1, <1>2 DEF Upgraded!Serve
  <2>. QED
    BY <1>1, <2>1 DEF PromisedStep, Upgraded!Upgrade, Upgraded!Next
<1>3. CASE fence.held
  <2>1. ~work /\ schema > Historical
    BY <1>3 DEF IInv, Opened
  <2>2. ~Admit
    BY <1>3, <2>1, ActivationAssumption DEF IInv, TypeOK, Opened, Fences
  <2>3. work' = work
    BY <2>1, <2>2 DEF IInv, TypeOK
  <2>. QED
    BY <1>1, <2>3, PromiseStutters
<1>. QED
  BY <1>2, <1>3

\* A fence is taken under the copy's number, over an idle manager, and either
\* it is this activation's already or its number is a new one.
LEMMA ClosePromised ==
    ASSUME IInv, mem.token # 0, ~work, UNCHANGED <<work, installed>>,
           fence.held => fence.token = mem.token,
           ~fence.held => fence.token # mem.token,
           fence' = [token |-> mem.token, held |-> TRUE]
    PROVE  PromisedStep
<1>1. fence \in [token : 0 .. MaxTokens, held : BOOLEAN] /\ mem.token \in 1 .. MaxTokens
  BY DEF IInv, TypeOK, Journal
<1>2. CASE fence.held
  <2>1. fence' = fence
    BY <1>1, <1>2
  <2>. QED
    BY <2>1, PromiseStutters
<1>3. CASE ~fence.held
  <2>1. Upgraded!Close(mem.token)
    BY <1>3 DEF Upgraded!Close
  <2>. QED
    BY <1>1, <2>1 DEF PromisedStep, Upgraded!Upgrade, Upgraded!Next
<1>. QED
  BY <1>2, <1>3

\* Asking the manager for the fence is such a step,
LEMMA AcquirePromised ==
    ASSUME IInv, Numbered, Acquire
    PROVE  PromisedStep
<1>1. mem.token # 0
  BY DEF Acquire, IInv, Position, CopyOf, Looking, Numbered
<1>2. CASE fence' = fence
  BY <1>2, PromiseStutters DEF Acquire
<1>3. CASE Acquirable /\ fence' = [token |-> mem.token, held |-> TRUE]
  <2>1. ~work /\ UNCHANGED <<work, installed>> /\ (fence.held <=> fence.token = mem.token)
    BY <1>3 DEF Acquire, Acquirable
  <2>. QED
    BY <1>1, <1>3, <2>1, ClosePromised
<1>. QED
  BY <1>2, <1>3 DEF Acquire

\* and so is the bridge's migration, which brings the fence along.
LEMMA MigratePromised ==
    ASSUME IInv, Numbered, Migrate
    PROVE  PromisedStep
<1>1. mem.token # 0
  BY DEF Migrate, IInv, Position, CopyOf, Looking, Numbered
<1>2. CASE fence' = fence
  BY <1>2, PromiseStutters DEF Migrate
<1>3. CASE Continued /\ ~work /\ fence' = [token |-> mem.token, held |-> TRUE]
  <2>1. UNCHANGED <<work, installed>>
    BY DEF Migrate
  <2>2. (fence.held => fence.token = mem.token) /\ (~fence.held => fence.token # mem.token)
    BY <1>1, <1>3 DEF Continued, IInv, Opened, Historical
  <2>. QED
    BY <1>1, <1>3, <2>1, <2>2, ClosePromised
<1>. QED
  BY <1>2, <1>3 DEF Migrate

\* Admission is opened again, or was open.
LEMMA ReleasePromised ==
    ASSUME IInv, Release
    PROVE  PromisedStep
<1>1. UNCHANGED <<work, installed>>
      /\ (fence' = fence \/ fence' = [fence EXCEPT !.held = FALSE])
  BY DEF Release
<1>2. fence \in [token : 0 .. MaxTokens, held : BOOLEAN]
  BY DEF IInv, TypeOK
<1>3. CASE fence.held /\ fence' = [fence EXCEPT !.held = FALSE]
  <2>1. Upgraded!Open
    BY <1>1, <1>3 DEF Upgraded!Open
  <2>. QED
    BY <1>1, <2>1 DEF PromisedStep, Upgraded!Upgrade, Upgraded!Next
<1>4. CASE ~fence.held \/ fence' = fence
  <2>1. fence' = fence
    BY <1>1, <1>2, <1>4
  <2>. QED
    BY <1>1, <2>1, PromiseStutters
<1>. QED
  BY <1>1, <1>3, <1>4

\* A manager is replaced only under its fence; the first one replaces none.
LEMMA InstallPromised ==
    ASSUME IInv, Install
    PROVE  PromisedStep
<1>1. UNCHANGED <<fence, work>> /\ installed' \in {installed, Goal(mem)}
  BY DEF Install, state
<1>2. Sound(mem) /\ mem.stage \in {"stopping", "rollback", "offline-fenced"} /\ mem \in Journal
  BY DEF Install, IInv, Position, Reached, Looking, TypeOK
<1>3. CASE installed' = installed
  BY <1>1, <1>3, PromiseStutters
<1>4. CASE installed' # installed
  <2>1. Goal(mem) \in Generation /\ (installed = None \/ fence.held)
    <3>1. CASE mem.prev # None
      BY <1>2, <3>1 DEF Sound, Says, Goal, Journal
    <3>2. CASE mem.prev = None
      <4>1. Goal(mem) = mem.target /\ installed \in {None, mem.target}
            /\ mem.target \in Generation
        BY <1>2, <3>2 DEF Sound, Says, Goal, Backward, Reversible
      <4>. QED
        BY <1>1, <1>4, <4>1
    <3>. QED
      BY <3>1, <3>2
  <2>2. Upgraded!Replace(Goal(mem))
    BY <1>1, <1>4, <2>1 DEF Upgraded!Replace
  <2>. QED
    BY <2>1, <2>2 DEF PromisedStep, Upgraded!Upgrade
<1>. QED
  BY <1>3, <1>4

\* Every step of an upgrade is one that was promised, or none.
LEMMA NextPromised == IInv /\ Numbered /\ [Next]_vars => PromisedStep
<1>. SUFFICES ASSUME IInv, Numbered, [Next]_vars PROVE PromisedStep
  OBVIOUS
<1>. USE DEF disk, state
<1>1. CASE World
  <2>1. CASE ManagerOpens \/ Admit \/ FinishWork
    BY <2>1, ServePromised
  <2>2. CASE \/ ManagerRefuses \/ ManagerExits \/ ManagerFails \/ ByHand \/ Procedure
             \/ Reboot \/ Die
    BY <2>2, PromiseStutters DEF ManagerRefuses, ManagerExits, ManagerFails, ByHand, Procedure,
      Reboot, Die
  <2>. QED
    BY <1>1, <2>1, <2>2 DEF World, Manager
<1>2. CASE Step
  <2>1. CASE Acquire \/ Migrate \/ Release \/ Install
    BY <2>1, AcquirePromised, MigratePromised, ReleasePromised, InstallPromised
  <2>2. CASE Retain \/ Save \/ Activate \/ Ensure \/ Await \/ CheckFence \/ Stop
             \/ CheckStopped \/ Start \/ Inspect
    BY <2>2, PromiseStutters DEF Retain, Save, Activate, Ensure, Await, CheckFence, Stop,
       CheckStopped, Start, Inspect
  <2>. QED
    BY <1>2, <2>1, <2>2 DEF Step, Online
<1>3. CASE Begin
  BY <1>3, PromiseStutters DEF Begin, Resume, Prepare, BridgeVerify, BridgeLock
<1>4. CASE UNCHANGED vars
  BY <1>4, PromiseStutters DEF vars
<1>. QED
  BY <1>1, <1>2, <1>3, <1>4 DEF Next

\* An upgrade of the host, through any failure of the installer, the manager
\* and the host itself, implements what those who use the host are promised.
THEOREM UpgradePromise == Spec => ImplementsUpgrade
<1>1. Init => Upgraded!Init
  BY DEF Init, Upgraded!Init
<1>2. IInv /\ Numbered /\ [Next]_vars
        => [Upgraded!Upgrade]_<<fence, work, <<>>, installed>>
  BY NextPromised DEF PromisedStep
<1>. QED
  BY <1>1, <1>2, Inductive, AlwaysNumbered, PTL
     DEF Spec, ImplementsUpgrade, Upgraded!UpgradeSpec
=============================================================================
