------------------------- MODULE PowerHelperProofs -------------------------
(***************************************************************************)
(* What the Linux helper guarantees for any number of jobs and any fault   *)
(* classes.                                                                *)
(***************************************************************************)
EXTENDS PowerHelper, TLAPS

\* A job nobody asked for has no countdown and was not powered off; a
\* callback runs only as the service of its job, and owns active.json once it
\* has decided; a pending unit belongs to a job that is neither powered off
\* nor confirmed as cancelled.
UnitInv ==
    \A j \in Job :
        /\ j \notin asked => unit[j] = "none" /\ j \notin powered
        /\ fpc[j] # "off" => unit[j] = "service"
        /\ fpc[j] = "power" => owner = j
        /\ unit[j] \in Pending => j \notin powered /\ j \notin confirmed

\* What the daemon knows of the job in service at each step of a request.
DaemonInv ==
    /\ dpc # "idle" => djob \in Job
    /\ dpc = "intent" => owner = NoJob
    /\ dpc \notin {"idle", "intent"} => owner = djob
    /\ dpc \in {"intent", "systemdrun"} => djob \in asked /\ unit[djob] = "none" /\ djob \notin powered
    /\ dpc \in {"intent", "systemdrun", "unverified", "seal", "rollback"} => djob \notin confirmed
    /\ dpc \in {"remove", "release"} => unit[djob] \notin Pending

\* The inductive invariant behind every theorem of this module.
HInv ==
    /\ HelperTypeOK
    /\ PendingHasState
    /\ UnitInv
    /\ DaemonInv

LEMMA HelperInit == Init => HInv
  BY HelperAssumption DEF Init, HInv, HelperTypeOK, PendingHasState, UnitInv, DaemonInv,
     Phase, DaemonStep, FireStep, Pending

\* One step per action; each keeps the whole invariant.
LEMMA HelperStep == HInv /\ [Next]_vars => HInv'
  <1> SUFFICES ASSUME HInv, [Next]_vars PROVE HInv'
    OBVIOUS
  <1> USE HelperAssumption DEF HInv, HelperTypeOK, PendingHasState, UnitInv, DaemonInv, Phase, DaemonStep, FireStep, Pending
  <1>1. ASSUME NEW j \in Job, Schedule(j) PROVE HInv'
    BY <1>1, SMTT(30) DEF Schedule, Begin, fileVars, daemonVars, unitVars
  <1>2. ASSUME NEW j \in Job, Cancel(j) PROVE HInv'
    BY <1>2, SMTT(30) DEF Cancel, Begin, fileVars, daemonVars, unitVars
  <1>3. ASSUME NEW j \in Job, Reconcile(j) PROVE HInv'
    BY <1>3, SMTT(30) DEF Reconcile, Begin, fileVars, daemonVars, unitVars
  <1>4. CASE SaveIntent
    BY <1>4, SMTT(30) DEF SaveIntent, SaveActive, SaveFails, To, Answer, fileVars, daemonVars, unitVars
  <1>5. CASE SystemdRun
    BY <1>5, SMTT(30) DEF SystemdRun, To, fileVars, daemonVars, unitVars
  <1>6. CASE SaveUnverified
    BY <1>6, SMTT(30) DEF SaveUnverified, SaveActive, SaveFails, Answer, fileVars, daemonVars, unitVars
  <1>7. CASE SaveScheduled
    BY <1>7, SMTT(30) DEF SaveScheduled, SaveActive, SaveFails, To, Answer, fileVars, daemonVars, unitVars
  <1>8. CASE Rollback
    BY <1>8, SMTT(30) DEF Rollback, StopUnits, Answer, fileVars, daemonVars, unitVars
  <1>9. CASE StopForCancel
    BY <1>9, SMTT(30) DEF StopForCancel, StopUnits, UnitsInactive, To, fileVars, daemonVars, unitVars
  <1>10. CASE VerifyStopped
    BY <1>10, SMTT(30) DEF VerifyStopped, UnitsInactive, To, Answer, fileVars, daemonVars, unitVars
  <1>11. CASE RemoveAndConfirm
    BY <1>11, SMTT(30) DEF RemoveAndConfirm, RemoveActive, Answer, fileVars, daemonVars, unitVars
  <1>12. CASE Inspect
    BY <1>12, SMTT(30) DEF Inspect, UnitsInactive, To, Answer, fileVars, daemonVars, unitVars
  <1>13. CASE ReleaseState
    BY <1>13, SMTT(30) DEF ReleaseState, RemoveActive, Answer, fileVars, daemonVars, unitVars
  <1>14. CASE DaemonCrash
    BY <1>14, SMTT(30) DEF DaemonCrash, Answer, fileVars, daemonVars, unitVars
  <1>15. ASSUME NEW j \in Job, TimerElapse(j) PROVE HInv'
    BY <1>15, SMTT(30) DEF TimerElapse, fileVars, daemonVars, unitVars
  <1>16. ASSUME NEW j \in Job, FireLock(j) PROVE HInv'
    BY <1>16, SMTT(30) DEF FireLock, EndService, fileVars, daemonVars, unitVars
  <1>17. ASSUME NEW j \in Job, FireCheck(j) PROVE HInv'
    BY <1>17, SMTT(30) DEF FireCheck, SaveActive, SaveFails, KeepOn, EndService, fileVars, daemonVars, unitVars
  <1>18. ASSUME NEW j \in Job, FirePower(j) PROVE HInv'
    BY <1>18, SMTT(30) DEF FirePower, SaveActive, SaveFails, KeepOn, EndService, fileVars, daemonVars, unitVars
  <1>19. ASSUME NEW j \in Job, FireCrash(j) PROVE HInv'
    BY <1>19, SMTT(30) DEF FireCrash, EndService, fileVars, daemonVars, unitVars
  <1>20. ASSUME NEW j \in Job, ClockTurns(j) PROVE HInv'
    BY <1>20, SMTT(30) DEF ClockTurns, fileVars, daemonVars, unitVars
  <1>21. CASE Reboot
    BY <1>21, SMTT(30) DEF Reboot, fileVars, daemonVars, unitVars
  <1>22. CASE UNCHANGED vars
    BY <1>22 DEF vars, fileVars, daemonVars, unitVars
  <1>. QED
    BY <1>1, <1>2, <1>3, <1>4, <1>5, <1>6, <1>7, <1>8, <1>9, <1>10, <1>11, <1>12, <1>13, <1>14, <1>15, <1>16, <1>17, <1>18, <1>19, <1>20, <1>21, <1>22 DEF Next

THEOREM HelperInvariant == Spec => []HInv
  <1>1. Init => HInv
    BY HelperInit
  <1>2. HInv /\ [Next]_vars => HInv'
    BY HelperStep
  <1> QED
    BY <1>1, <1>2, PTL DEF Spec

\* The helper's state stays well formed and active.lock has one owner, the
\* daemon in a request or a callback that decides (process, firePrepared).
THEOREM HelperTypeCorrect == Spec => []HelperTypeOK
  <1>1. HInv => HelperTypeOK
    BY DEF HInv
  <1> QED
    BY <1>1, HelperInvariant, PTL

\* No timer or service unit ever outlives its job's active.json (schedule,
\* cancel and reconcile against crashes, failing saves and reboots).
THEOREM NoForgottenCountdown == Spec => []PendingHasState
  <1>1. HInv => PendingHasState
    BY DEF HInv
  <1> QED
    BY <1>1, HelperInvariant, PTL

-----------------------------------------------------------------------------
\* With reliable saves, phase "scheduled" is on disk only behind an answer
\* with the receipt, and only that phase lets a callback go on.
SealedInv ==
    /\ phase = "scheduled" /\ owner \in Job => owner \in sealed
    /\ \A j \in Job : fpc[j] = "power" => j \in sealed
    /\ powered \subseteq sealed

LEMMA SealedStep ==
  ASSUME "save_fails" \notin HelperFaults
  PROVE  HInv /\ SealedInv /\ [Next]_vars => SealedInv'
  <1> SUFFICES ASSUME HInv, SealedInv, [Next]_vars PROVE SealedInv'
    OBVIOUS
  <1>0. ~Fails("save_fails")
    BY DEF Fails
  <1> USE <1>0, HelperAssumption DEF SealedInv, HInv, HelperTypeOK, DaemonInv, DaemonStep, Phase
  <1>1. ASSUME NEW j \in Job, Schedule(j) PROVE SealedInv'
    BY <1>1 DEF Schedule, Begin, fileVars, daemonVars, unitVars
  <1>2. ASSUME NEW j \in Job, Cancel(j) PROVE SealedInv'
    BY <1>2 DEF Cancel, Begin, fileVars, daemonVars, unitVars
  <1>3. ASSUME NEW j \in Job, Reconcile(j) PROVE SealedInv'
    BY <1>3 DEF Reconcile, Begin, fileVars, daemonVars, unitVars
  <1>4. CASE SaveIntent
    BY <1>4 DEF SaveIntent, SaveActive, SaveFails, To, Answer, fileVars, daemonVars, unitVars
  <1>5. CASE SystemdRun
    BY <1>5 DEF SystemdRun, To, fileVars, daemonVars, unitVars
  <1>6. CASE SaveUnverified
    BY <1>6 DEF SaveUnverified, SaveActive, SaveFails, Answer, fileVars, daemonVars, unitVars
  <1>7. CASE SaveScheduled
    BY <1>7 DEF SaveScheduled, SaveActive, SaveFails, To, Answer, fileVars, daemonVars, unitVars
  <1>8. CASE Rollback
    BY <1>8 DEF Rollback, StopUnits, Answer, fileVars, daemonVars, unitVars
  <1>9. CASE StopForCancel
    BY <1>9 DEF StopForCancel, StopUnits, UnitsInactive, To, fileVars, daemonVars, unitVars
  <1>10. CASE VerifyStopped
    BY <1>10 DEF VerifyStopped, UnitsInactive, To, Answer, fileVars, daemonVars, unitVars
  <1>11. CASE RemoveAndConfirm
    BY <1>11 DEF RemoveAndConfirm, RemoveActive, Answer, fileVars, daemonVars, unitVars
  <1>12. CASE Inspect
    BY <1>12 DEF Inspect, UnitsInactive, To, Answer, fileVars, daemonVars, unitVars
  <1>13. CASE ReleaseState
    BY <1>13 DEF ReleaseState, RemoveActive, Answer, fileVars, daemonVars, unitVars
  <1>14. CASE DaemonCrash
    BY <1>14 DEF DaemonCrash, Answer, fileVars, daemonVars, unitVars
  <1>15. ASSUME NEW j \in Job, TimerElapse(j) PROVE SealedInv'
    BY <1>15 DEF TimerElapse, fileVars, daemonVars, unitVars
  <1>16. ASSUME NEW j \in Job, FireLock(j) PROVE SealedInv'
    BY <1>16 DEF FireLock, EndService, fileVars, daemonVars, unitVars
  <1>17. ASSUME NEW j \in Job, FireCheck(j) PROVE SealedInv'
    BY <1>17 DEF FireCheck, SaveActive, SaveFails, KeepOn, EndService, fileVars, daemonVars, unitVars
  <1>18. ASSUME NEW j \in Job, FirePower(j) PROVE SealedInv'
    BY <1>18 DEF FirePower, SaveActive, SaveFails, KeepOn, EndService, fileVars, daemonVars, unitVars
  <1>19. ASSUME NEW j \in Job, FireCrash(j) PROVE SealedInv'
    BY <1>19 DEF FireCrash, EndService, fileVars, daemonVars, unitVars
  <1>20. ASSUME NEW j \in Job, ClockTurns(j) PROVE SealedInv'
    BY <1>20 DEF ClockTurns, fileVars, daemonVars, unitVars
  <1>21. CASE Reboot
    BY <1>21 DEF Reboot, fileVars, daemonVars, unitVars
  <1>22. CASE UNCHANGED vars
    BY <1>22 DEF vars, fileVars, daemonVars, unitVars
  <1>. QED
    BY <1>1, <1>2, <1>3, <1>4, <1>5, <1>6, <1>7, <1>8, <1>9, <1>10, <1>11, <1>12, <1>13, <1>14, <1>15, <1>16, <1>17, <1>18, <1>19, <1>20, <1>21, <1>22 DEF Next

\* While saving active.json does not fail, poweroff is only requested for a
\* job whose receipt was persisted (firePrepared's phase check).
THEOREM FiresOnlyWhatWasSealed ==
  ASSUME "save_fails" \notin HelperFaults
  PROVE  Spec => []FiresOnlySealed
  <1>1. Init => SealedInv
    BY HelperAssumption DEF Init, SealedInv
  <1>2. HInv /\ SealedInv /\ [Next]_vars => SealedInv'
    BY SealedStep
  <1>3. SealedInv => FiresOnlySealed
    BY DEF SealedInv, FiresOnlySealed
  <1> QED
    BY <1>1, <1>2, <1>3, HelperInvariant, PTL DEF Spec

-----------------------------------------------------------------------------

-----------------------------------------------------------------------------
\* What the four kinds of steps of the backend need of the helper's state.
LEMMA Unseen ==
  ASSUME HInv, powered' = powered, confirmed' = confirmed,
         \A j \in Job : unit'[j] \in Pending <=> unit[j] \in Pending
  PROVE  UNCHANGED <<Countdown, confirmed>>
  BY DEF Countdown

LEMMA Lapses ==
  ASSUME HInv, NEW j \in Job, unit[j] \in Pending, unit' = [unit EXCEPT ![j] = "gone"],
         powered' = powered, confirmed' = confirmed
  PROVE  Backend!Lapse(j)
  BY DEF HInv, HelperTypeOK, UnitInv, Pending, Countdown, Backend!Lapse

LEMMA Confirms ==
  ASSUME HInv, NEW j \in Job, unit[j] \notin Pending, unit' = unit,
         powered' = powered, confirmed' = confirmed \cup {j}
  PROVE  Backend!Confirm(j)
  BY DEF HInv, HelperTypeOK, Pending, Countdown, Backend!Confirm

LEMMA Accepts ==
  ASSUME HInv, dpc = "systemdrun", unit' = [unit EXCEPT ![djob] = "timer"],
         powered' = powered, confirmed' = confirmed
  PROVE  djob \in Job /\ Backend!Accept(djob)
  <1>1. djob \in Job /\ owner = djob /\ unit[djob] = "none"
        /\ djob \notin powered /\ djob \notin confirmed
    BY DEF HInv, DaemonInv
  <1>2. \A k \in Job : Countdown[k] # "armed"
    BY <1>1 DEF HInv, PendingHasState, Countdown, Pending
  <1>3. Countdown[djob] = "off"
    BY <1>1 DEF Countdown, Pending
  <1>4. Countdown' = [Countdown EXCEPT ![djob] = "armed"]
    BY <1>1 DEF HInv, HelperTypeOK, Countdown, Pending
  <1> QED
    BY <1>1, <1>2, <1>3, <1>4 DEF Backend!Accept

\* A service that ends without poweroff is a lapse.
LEMMA Ends ==
  ASSUME HInv, NEW j \in Job, fpc[j] # "off", EndService(j),
         powered' = powered, confirmed' = confirmed
  PROVE  Backend!Lapse(j)
  <1>1. unit[j] \in Pending
    BY DEF HInv, UnitInv, Pending
  <1> QED
    BY <1>1, Lapses DEF EndService

\* Stopping units is a lapse or nothing a caller sees.
LEMMA Stops ==
  ASSUME HInv, NEW j \in Job, StopUnits(j), confirmed' = confirmed
  PROVE  Backend!Lapse(j) \/ UNCHANGED <<Countdown, confirmed>>
  <1>1. CASE unit[j] \in Pending
    BY <1>1, Lapses DEF StopUnits
  <1>2. CASE unit[j] \notin Pending
    <2>1. \A k \in Job : unit'[k] = unit[k]
      BY <1>2 DEF StopUnits, HInv, HelperTypeOK
    <2> QED
      BY <2>1, Unseen DEF StopUnits
  <1> QED
    BY <1>1, <1>2

LEMMA Fires ==
  ASSUME HInv, NEW j \in Job, fpc[j] = "power", EndService(j),
         powered' = powered \cup {j}, confirmed' = confirmed
  PROVE  Backend!Fire(j)
  <1>1. unit[j] \in Pending /\ j \notin powered /\ j \notin confirmed
    BY DEF HInv, UnitInv, Pending
  <1>2. Countdown' = [Countdown EXCEPT ![j] = "fired"]
    BY <1>1 DEF HInv, HelperTypeOK, EndService, Countdown, Pending
  <1> QED
    BY <1>1, <1>2 DEF Countdown, Backend!Fire

\* Only one unit can be pending when the machine goes down.
LEMMA Reboots ==
  ASSUME HInv, Reboot
  PROVE  Backend!Next \/ UNCHANGED <<Countdown, confirmed>>
  <1> USE DEF Reboot, unitVars
  <1>1. CASE owner \in Job /\ unit[owner] \in Pending
    <2>1. \A k \in Job : unit[k] \in Pending => k = owner
      BY DEF HInv, PendingHasState
    <2>2. unit' = [unit EXCEPT ![owner] = "gone"]
      BY <1>1, <2>1 DEF HInv, HelperTypeOK
    <2> QED
      BY <1>1, <2>2, Lapses DEF Backend!Next
  <1>2. CASE ~(owner \in Job /\ unit[owner] \in Pending)
    <2>1. \A k \in Job : unit[k] \notin Pending
      BY <1>2 DEF HInv, PendingHasState
    <2>2. \A k \in Job : unit'[k] = unit[k]
      BY <2>1 DEF HInv, HelperTypeOK
    <2> QED
      BY <2>2, Unseen
  <1> QED
    BY <1>1, <1>2

\* Every step of the helper is a step of a power backend or invisible.
LEMMA RefinementStep == HInv /\ [Next]_vars => [Backend!Next]_<<Countdown, confirmed>>
  <1> SUFFICES ASSUME HInv, [Next]_vars
               PROVE  Backend!Next \/ UNCHANGED <<Countdown, confirmed>>
    OBVIOUS
  <1> USE DEF fileVars, daemonVars, unitVars
  <1>1. ASSUME NEW j \in Job, Schedule(j)
        PROVE  Backend!Next \/ UNCHANGED <<Countdown, confirmed>>
    <2>1. UNCHANGED Countdown
      BY <1>1 DEF Schedule, Countdown
    <2>2. confirmed' = confirmed \/ confirmed' = confirmed \ {j}
      BY <1>1 DEF Schedule
    <2> QED
      BY <2>1, <2>2 DEF Backend!Open, Backend!Next
  <1>2. ASSUME NEW j \in Job, Cancel(j)
        PROVE  Backend!Next \/ UNCHANGED <<Countdown, confirmed>>
    <2>1. CASE confirmed' = confirmed
      BY <1>2, <2>1, Unseen DEF Cancel
    <2>2. CASE owner = NoJob /\ confirmed' = confirmed \cup {j}
      <3>1. unit[j] \notin Pending
        BY <2>2, HelperAssumption DEF HInv, PendingHasState
      <3> QED
        BY <1>2, <2>2, <3>1, Confirms DEF Cancel, Backend!Next
    <2> QED
      BY <1>2, <2>1, <2>2 DEF Cancel
  <1>3. CASE SystemdRun
    <2>1. CASE unit' = [unit EXCEPT ![djob] = "timer"]
      BY <1>3, <2>1, Accepts DEF SystemdRun, Backend!Next
    <2>2. CASE unit' = unit
      BY <1>3, <2>2, Unseen DEF SystemdRun
    <2> QED
      BY <1>3, <2>1, <2>2 DEF SystemdRun
  <1>4. CASE Rollback \/ StopForCancel
    <2>1. djob \in Job
      BY <1>4 DEF Rollback, StopForCancel, HInv, DaemonInv
    <2>2. confirmed' = confirmed /\ (StopUnits(djob) \/ UNCHANGED unitVars)
      BY <1>4 DEF Rollback, StopForCancel
    <2> QED
      BY <2>1, <2>2, Stops, Unseen DEF Backend!Next
  <1>5. CASE RemoveAndConfirm
    <2>1. djob \in Job /\ unit[djob] \notin Pending
      BY <1>5 DEF RemoveAndConfirm, HInv, DaemonInv
    <2>2. CASE confirmed' = confirmed
      BY <1>5, <2>2, Unseen DEF RemoveAndConfirm
    <2>3. CASE confirmed' = confirmed \cup {djob}
      BY <1>5, <2>1, <2>3, Confirms DEF RemoveAndConfirm, Backend!Next
    <2> QED
      BY <1>5, <2>2, <2>3 DEF RemoveAndConfirm
  <1>6. ASSUME NEW j \in Job, TimerElapse(j)
        PROVE  Backend!Next \/ UNCHANGED <<Countdown, confirmed>>
    <2>1. \A k \in Job : unit'[k] \in Pending <=> unit[k] \in Pending
      BY <1>6 DEF TimerElapse, HInv, HelperTypeOK, Pending
    <2> QED
      BY <1>6, <2>1, Unseen DEF TimerElapse
  <1>7. ASSUME NEW j \in Job, FireLock(j)
        PROVE  Backend!Next \/ UNCHANGED <<Countdown, confirmed>>
    <2>1. fpc[j] # "off" /\ powered' = powered /\ confirmed' = confirmed
      BY <1>7 DEF FireLock
    <2>2. EndService(j) \/ unit' = unit
      BY <1>7 DEF FireLock
    <2> QED
      BY <2>1, <2>2, Ends, Unseen DEF Backend!Next
  <1>8. ASSUME NEW j \in Job, FireCheck(j)
        PROVE  Backend!Next \/ UNCHANGED <<Countdown, confirmed>>
    <2>1. fpc[j] # "off" /\ powered' = powered /\ confirmed' = confirmed
      BY <1>8 DEF FireCheck
    <2>2. EndService(j) \/ unit' = unit
      BY <1>8 DEF FireCheck, KeepOn
    <2> QED
      BY <2>1, <2>2, Ends, Unseen DEF Backend!Next
  <1>9. ASSUME NEW j \in Job, FirePower(j)
        PROVE  Backend!Next \/ UNCHANGED <<Countdown, confirmed>>
    <2>1. fpc[j] = "power" /\ EndService(j) /\ confirmed' = confirmed
      BY <1>9 DEF FirePower, KeepOn
    <2>2. powered' = powered \/ powered' = powered \cup {j}
      BY <1>9 DEF FirePower
    <2> QED
      BY <2>1, <2>2, Ends, Fires DEF Backend!Next
  <1>10. ASSUME NEW j \in Job, FireCrash(j)
         PROVE  Backend!Next \/ UNCHANGED <<Countdown, confirmed>>
    BY <1>10, Ends DEF FireCrash, Backend!Next
  <1>11. CASE Reboot
    BY <1>11, Reboots
  <1>12. CASE \/ SaveIntent \/ SaveUnverified \/ SaveScheduled \/ VerifyStopped
              \/ Inspect \/ ReleaseState \/ DaemonCrash
              \/ \E j \in Job : Reconcile(j) \/ ClockTurns(j)
              \/ UNCHANGED vars
    <2>1. unit' = unit /\ powered' = powered /\ confirmed' = confirmed
      BY <1>12 DEF SaveIntent, SaveUnverified, SaveScheduled, VerifyStopped, Inspect,
         ReleaseState, DaemonCrash, Reconcile, ClockTurns, vars
    <2> QED
      BY <2>1, Unseen
  <1> QED
    BY <1>1, <1>2, <1>3, <1>4, <1>5, <1>6, <1>7, <1>8, <1>9, <1>10, <1>11, <1>12 DEF Next

\* The helper implements a power backend: at most one countdown on the
\* machine, and no poweroff behind a confirmed cancellation, whatever
\* requests, callbacks, crashes and reboots interleave.
THEOREM HelperIsABackend == Spec => ImplementsBackend
  <1>1. Init => Backend!Init
    BY DEF Init, Backend!Init, Countdown, Pending
  <1>2. HInv /\ [Next]_vars => [Backend!Next]_<<Countdown, confirmed>>
    BY RefinementStep
  <1> QED
    BY <1>1, <1>2, HelperInvariant, PTL DEF Spec, ImplementsBackend, Backend!Spec, Backend!vars
=============================================================================
