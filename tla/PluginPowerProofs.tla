------------------------- MODULE PluginPowerProofs -------------------------
(***************************************************************************)
(* What holds of PluginPower for any jobs, invocations and faults.         *)
(***************************************************************************)
EXTENDS PluginPower, TLAPS

-----------------------------------------------------------------------------
(* Type correctness: how the helpers keep each part, then every action.    *)

\* UpdateJob transactions.
LEMMA WriteJobType ==
    ASSUME JobType, NEW j \in Job, NEW s \in State, NEW bump, NEW c \in BOOLEAN,
           WriteJob(j, s, bump, c)
    PROVE  JobType'
BY DEF JobType, WriteJob

\* What an action leaves alone keeps its type.
LEMMA FrameType ==
    ASSUME TypeOK
    PROVE  /\ UNCHANGED jobVars => JobType'
           /\ UNCHANGED recVars => RecordType'
           /\ UNCHANGED <<pend, early>> => MarkerType'
           /\ UNCHANGED backVars => BackendType'
           /\ UNCHANGED lock => LockType'
           /\ UNCHANGED supVars => SupType'
           /\ UNCHANGED actVars => ActorType'
           /\ UNCHANGED wpc => WorkerType'
BY DEF TypeOK, JobType, RecordType, MarkerType, BackendType, LockType, SupType, ActorType,
       WorkerType, jobVars, recVars, backVars, supVars, actVars

\* Steps of a supervisor, of an invocation and of a worker, and the lock.
LEMMA StepType ==
    ASSUME TypeOK
    PROVE  /\ \A j \in Job, pc \in SupStep :
                Goto(j, pc) /\ UNCHANGED <<sgen, snap>> => SupType'
           /\ \A a \in Actor :
                \A pc \in { "idle", "plain", "marker", "update", "launch", "cleanup",
                            "request", "authority", "direct", "done" } :
                  Step(a, pc) /\ UNCHANGED need => ActorType'
           /\ \A a \in Actor, pc \in WorkStep : Work(a, pc) => WorkerType'
           /\ \A p : Release(p) => LockType'
<1>1. ASSUME NEW j \in Job, NEW pc \in SupStep, Goto(j, pc), UNCHANGED <<sgen, snap>>
      PROVE  SupType'
  BY <1>1 DEF TypeOK, SupType, Goto
<1>2. ASSUME NEW a \in Actor,
             NEW pc \in { "idle", "plain", "marker", "update", "launch", "cleanup",
                          "request", "authority", "direct", "done" },
             Step(a, pc), UNCHANGED need
      PROVE  ActorType'
  BY <1>2 DEF TypeOK, ActorType, Step
<1>3. ASSUME NEW a \in Actor, NEW pc \in WorkStep, Work(a, pc)  PROVE WorkerType'
  BY <1>3 DEF TypeOK, WorkerType, Work
<1>4. ASSUME NEW p, Release(p)  PROVE LockType'
  BY <1>4 DEF TypeOK, LockType, Release
<1>. QED
  BY <1>1, <1>2, <1>3, <1>4

\* A supervisor that reads the job.
LEMMA LoadJobType ==
    ASSUME TypeOK, NEW j \in Job, NEW pc \in SupStep,
           Goto(j, pc), LoadJob(j), UNCHANGED sgen
    PROVE  SupType'
<1>1. [st |-> st[j], gen |-> gen[j], creq |-> creq[j]] \in [st : State, gen : Nat, creq : BOOLEAN]
  BY DEF TypeOK, JobType
<1>. QED
  BY <1>1 DEF TypeOK, SupType, Goto, LoadJob

\* Recovery resolutions and the answers of the backend.
LEMMA CallType ==
    ASSUME TypeOK, NEW j \in Job
    PROVE  /\ (ResolveCancelled(j) \/ ResolveNoAction(j)) /\ UNCHANGED <<env, call, seal>>
                => RecordType'
           /\ CancelConfirmed(j) \/ CancelUnconfirmed(j) => BackendType'
           /\ ScheduleAccepted(j) \/ ScheduleOutcomeUnknown(j)
                => /\ timer' \in [Job -> {"off", "armed", "fired"}]
                   /\ queued' \in [Job -> BOOLEAN]
<1>1. ASSUME ResolveCancelled(j) \/ ResolveNoAction(j), UNCHANGED <<env, call, seal>>
      PROVE  RecordType'
  BY <1>1 DEF TypeOK, RecordType, ResolveCancelled, ResolveNoAction
<1>2. ASSUME CancelConfirmed(j) \/ CancelUnconfirmed(j)  PROVE BackendType'
  BY <1>2 DEF TypeOK, BackendType, CancelConfirmed, CancelUnconfirmed
<1>3. ASSUME ScheduleAccepted(j)
      PROVE  timer' \in [Job -> {"off", "armed", "fired"}] /\ queued' \in [Job -> BOOLEAN]
  BY <1>3 DEF TypeOK, BackendType, ScheduleAccepted
<1>4. ASSUME ScheduleOutcomeUnknown(j)
      PROVE  timer' \in [Job -> {"off", "armed", "fired"}] /\ queued' \in [Job -> BOOLEAN]
  BY <1>3, <1>4 DEF TypeOK, BackendType, ScheduleOutcomeUnknown
<1>. QED
  BY <1>1, <1>2, <1>3, <1>4

\* The supervisor's steps.
LEMMA SupervisorType ==
    ASSUME TypeOK, NEW j \in Job, Arm(j) \/ Supervisor(j) \/ SupCrash(j)
    PROVE  TypeOK'
<1>0. st[j] \in State /\ creq[j] \in BOOLEAN
  BY DEF TypeOK, JobType
<1>1. CASE Arm(j)
  BY <1>0, FrameType, WriteJobType, StepType, <1>1 DEF TypeOK, Arm, State, Unresolved,
     Terminal, SupStep, Holding, Cancelling, Observing
<1>2. CASE SupRun(j)
  BY <1>0, FrameType, StepType, <1>2 DEF TypeOK, SupRun, SupStep, Holding, Cancelling
<1>3. CASE SupFail(j)
  BY <1>0, FrameType, WriteJobType, StepType, <1>3 DEF TypeOK, SupFail, State, Unresolved,
     Terminal, LeaveSchedule, SupStep, Holding, Cancelling
<1>4. CASE SupLock(j)
  <2>1. LockType'
    BY <1>0, <1>4 DEF TypeOK, LockType, SupLock
  <2>. QED
    BY <1>0, FrameType, StepType, <1>4, <2>1 DEF TypeOK, SupLock, SupStep, Holding,
       Cancelling
<1>5. CASE SupInventory(j)
  <2>. QED
    BY <1>0, FrameType, StepType, <1>5 DEF TypeOK, SupInventory, SupStep, Holding,
       Cancelling
<1>6. CASE SupLoad(j)
  <2>1. SupType'
    BY <1>0, <1>6, LoadJobType DEF TypeOK, SupType, SupLoad, LeaveSchedule, SupStep,
       Holding, Cancelling
  <2>. QED
    BY <1>0, FrameType, StepType, <1>6, <2>1 DEF TypeOK, SupLoad, LeaveSchedule, SupStep,
       Holding, Cancelling
<1>7. CASE SupCheck1(j)
  <2>1. SupType'
    BY <1>0, <1>7 DEF TypeOK, SupType, SupCheck1, JobType, Goto, SupStep, Holding,
       Cancelling
  <2>. QED
    BY <1>0, FrameType, StepType, <1>7, <2>1 DEF TypeOK, SupCheck1, SupStep, Holding,
       Cancelling
<1>8. CASE SupCheck2(j)
  BY <1>0, FrameType, StepType, <1>8 DEF TypeOK, SupCheck2, SupStep, Holding, Cancelling
<1>9. CASE SupEnvelope(j)
  <2>1. RecordType'
    BY <1>0, <1>9 DEF TypeOK, RecordType, SupEnvelope
  <2>. QED
    BY <1>0, FrameType, StepType, <1>9, <2>1 DEF TypeOK, SupEnvelope, SupStep, Holding,
       Cancelling
<1>10. CASE SupIntent(j)
  <2>1. MarkerType'
    BY <1>0, <1>10 DEF TypeOK, MarkerType, SupIntent
  <2>. QED
    BY <1>0, FrameType, WriteJobType, StepType, <1>10, <2>1 DEF TypeOK, SupIntent, State,
       Unresolved, Terminal, LeaveSchedule, SupStep, Holding, Cancelling
<1>11. CASE SupCheck3(j)
  BY <1>0, FrameType, StepType, <1>11 DEF TypeOK, SupCheck3, SupStep, Holding, Cancelling
<1>12. CASE SupAbort(j)
  BY <1>0, FrameType, StepType, CallType, <1>12 DEF TypeOK, SupAbort, LeaveSchedule,
     SupStep, Holding, Cancelling
<1>13. CASE SupAborted(j)
  BY <1>0, FrameType, WriteJobType, StepType, <1>13 DEF TypeOK, SupAborted, State,
     Unresolved, Terminal, LeaveSchedule, SupStep, Holding, Cancelling
<1>14. CASE SupCall(j)
  BY <1>0, FrameType, StepType, <1>14 DEF TypeOK, SupCall, SupStep, Holding, Cancelling
<1>15. CASE SupCallWrite(j)
  <2>1. RecordType'
    BY <1>0, <1>15 DEF TypeOK, RecordType, SupCallWrite
  <2>. QED
    BY <1>0, FrameType, StepType, <1>15, <2>1 DEF TypeOK, SupCallWrite, SupStep, Holding,
       Cancelling
<1>16. CASE SupSchedule(j)
  <2>1. BackendType'
    BY <1>0, <1>16, CallType DEF TypeOK, BackendType, SupSchedule
  <2>. QED
    BY <1>0, FrameType, StepType, <1>16, <2>1 DEF TypeOK, SupSchedule, SupStep, Holding,
       Cancelling
<1>17. CASE SupUnknown(j)
  BY <1>0, FrameType, StepType, <1>17 DEF TypeOK, SupUnknown, LeaveSchedule, SupStep,
     Holding, Cancelling
<1>18. CASE SupSeal(j)
  <2>1. RecordType'
    BY <1>0, <1>18 DEF TypeOK, RecordType, SupSeal
  <2>. QED
    BY <1>0, FrameType, StepType, <1>18, <2>1 DEF TypeOK, SupSeal, SupStep, Holding,
       Cancelling
<1>19. CASE SupCheck4(j)
  BY <1>0, FrameType, StepType, <1>19 DEF TypeOK, SupCheck4, SupStep, Holding, Cancelling
<1>20. CASE SupCommit(j)
  BY <1>0, FrameType, WriteJobType, StepType, <1>20 DEF TypeOK, SupCommit, State,
     Unresolved, Terminal, LeaveSchedule, SupStep, Holding, Cancelling
<1>21. CASE SupCancel(j)
  BY <1>0, FrameType, StepType, CallType, <1>21 DEF TypeOK, SupCancel, CancelConfirmed,
     CancelUnconfirmed, SupStep, Holding, Cancelling
<1>22. CASE SupCancelResolve(j)
  BY <1>0, FrameType, StepType, CallType, <1>22 DEF TypeOK, SupCancelResolve, SupStep,
     Holding, Cancelling
<1>23. CASE SupCancelled(j)
  BY <1>0, FrameType, WriteJobType, StepType, <1>23 DEF TypeOK, SupCancelled, State,
     Unresolved, Terminal, LeaveSchedule, SupStep, Holding, Cancelling
<1>24. CASE SupCancelFailed(j)
  BY <1>0, FrameType, WriteJobType, StepType, <1>24 DEF TypeOK, SupCancelFailed, State,
     Unresolved, Terminal, LeaveSchedule, SupStep, Holding, Cancelling
<1>25. CASE SupRollback(j)
  BY <1>0, FrameType, StepType, CallType, <1>25 DEF TypeOK, SupRollback, CancelConfirmed,
     CancelUnconfirmed, SupStep, Holding, Cancelling
<1>26. CASE SupRollbackResolve(j)
  BY <1>0, FrameType, StepType, CallType, <1>26 DEF TypeOK, SupRollbackResolve, SupStep,
     Holding, Cancelling
<1>27. CASE SupRolledBack(j)
  BY <1>0, FrameType, WriteJobType, StepType, <1>27 DEF TypeOK, SupRolledBack, State,
     Unresolved, Terminal, LeaveSchedule, SupStep, Holding, Cancelling
<1>28. CASE SupMonitor(j)
  <2>1. SupType'
    BY <1>0, <1>28, LoadJobType DEF TypeOK, SupType, SupMonitor, SupStep, Holding,
       Cancelling
  <2>. QED
    BY <1>0, FrameType, StepType, <1>28, <2>1 DEF TypeOK, SupMonitor, SupStep, Holding,
       Cancelling
<1>29. CASE SupWatch(j)
  BY <1>0, FrameType, StepType, <1>29 DEF TypeOK, SupWatch, SupStep, Holding, Cancelling
<1>30. CASE SupCrash(j)
  BY <1>0, FrameType, StepType, <1>30 DEF TypeOK, SupCrash, LeaveSchedule, SupStep,
     Holding, Cancelling
<1>. QED
  BY <1>1, <1>2, <1>3, <1>4, <1>5, <1>6, <1>7, <1>8, <1>9, <1>10, <1>11, <1>12, <1>13,
     <1>14, <1>15, <1>16, <1>17, <1>18, <1>19, <1>20, <1>21, <1>22, <1>23, <1>24, <1>25,
     <1>26, <1>27, <1>28, <1>29, <1>30 DEF Supervisor

\* The backend's own steps.
LEMMA BackendStepType ==
    ASSUME TypeOK, NEW j \in Job, Backend(j)
    PROVE  TypeOK'
<1>0. TypeOK
  OBVIOUS
<1>1. CASE Deadline(j)
  <2>1. BackendType'
    BY <1>0, <1>1 DEF TypeOK, BackendType, Deadline
  <2>. QED
    BY <1>0, FrameType, <1>1, <2>1 DEF TypeOK, Deadline
<1>2. CASE Fire(j)
  <2>1. BackendType'
    BY <1>0, <1>2 DEF TypeOK, BackendType, Fire
  <2>. QED
    BY <1>0, FrameType, <1>2, <2>1 DEF TypeOK, Fire
<1>3. CASE LateSchedule(j)
  <2>1. BackendType'
    BY <1>0, <1>3 DEF TypeOK, BackendType, LateSchedule
  <2>. QED
    BY <1>0, FrameType, <1>3, <2>1 DEF TypeOK, LateSchedule
<1>. QED
  BY <1>1, <1>2, <1>3 DEF Backend

\* What a prompt, a Stop and a session end write.
LEMMA HookEffectType ==
    ASSUME TypeOK, NEW h \in Hook, HookEffect(h)
    PROVE  JobType'
<1>. DEFINE j == Target[h]
<1>0. j \in Job /\ creq[j] \in BOOLEAN /\ st[j] \in State
  BY PowerAssumption DEF TypeOK, JobType, Hook, Actor
<1>. HIDE DEF j
<1>1. ASSUME UNCHANGED jobVars  PROVE JobType'
  BY <1>1, FrameType
<1>2. ASSUME NEW s \in State, NEW bump, NEW c \in BOOLEAN, WriteJob(j, s, bump, c)
      PROVE  JobType'
  BY <1>0, <1>2, WriteJobType DEF TypeOK
<1>3. PromptEffect(j) => JobType'
  BY <1>0, <1>1, <1>2
     DEF PromptEffect, RequestPowerCancellation, State, Observing, Terminal
<1>4. StopEffect(j) => JobType'
  BY <1>0, <1>1, <1>2
     DEF StopEffect, RequestPowerCancellation, State, Observing, Terminal
<1>5. SessionEndEffect(j) => JobType'
  BY <1>0, <1>1, <1>2
     DEF SessionEndEffect, RequestPowerCancellation, State, Observing, Terminal
<1>6. \A c \in {creq[j], FALSE} : WriteJob(j, "REFUSED", TRUE, c) => JobType'
  BY <1>0, <1>2 DEF State, Terminal
<1>. QED
  BY <1>0, <1>3, <1>4, <1>5, <1>6 DEF HookEffect, j

\* The hook handlers' steps.
LEMMA HookStepType ==
    ASSUME TypeOK, NEW h \in Hook, HookHandler(h) \/ HookCrash(h)
    PROVE  TypeOK'
<1>0. /\ h \in Actor /\ Target[h] \in Job
      /\ st[Target[h]] \in State /\ creq[Target[h]] \in BOOLEAN
  BY PowerAssumption DEF TypeOK, JobType, Hook, Actor
<1>1. CASE HookCapture(h)
  BY <1>0, FrameType, StepType, <1>1 DEF TypeOK, HookCapture
<1>2. CASE HookMarker(h)
  <2>1. MarkerType'
    BY <1>0, <1>2 DEF TypeOK, MarkerType, HookMarker
  <2>2. ActorType'
    BY <1>0, <1>2 DEF TypeOK, ActorType, HookMarker, Step
  <2>. QED
    BY <1>0, FrameType, StepType, <1>2, <2>1, <2>2 DEF TypeOK, HookMarker
<1>3. CASE HookUpdate(h)
  BY <1>0, HookEffectType, FrameType, StepType, <1>3 DEF TypeOK, HookUpdate
<1>4. CASE HookLaunch(h)
  <2>1. WorkerType'
    BY <1>0, <1>4 DEF TypeOK, WorkerType, HookLaunch, WorkStep
  <2>. QED
    BY <1>0, FrameType, WriteJobType, StepType, <1>4, <2>1 DEF TypeOK, HookLaunch, State,
       Unresolved, Terminal, RequestPowerCancellation
<1>5. CASE HookCleanup(h)
  <2>1. MarkerType'
    BY <1>0, <1>5 DEF TypeOK, MarkerType, HookCleanup
  <2>. QED
    BY <1>0, FrameType, StepType, <1>5, <2>1 DEF TypeOK, HookCleanup
<1>6. CASE HookCrash(h)
  BY <1>0, FrameType, StepType, <1>6 DEF TypeOK, HookCrash
<1>. QED
  BY <1>1, <1>2, <1>3, <1>4, <1>5, <1>6 DEF HookHandler

\* The cancel commands' steps.
LEMMA CancellerType ==
    ASSUME TypeOK, NEW a \in Cli \cup Mcp, Canceller(a)
    PROVE  TypeOK'
<1>0. /\ a \in Actor /\ Target[a] \in Job
      /\ st[Target[a]] \in State /\ creq[Target[a]] \in BOOLEAN
  BY PowerAssumption DEF TypeOK, JobType, Actor
<1>1. CASE CancelLoad(a)
  BY <1>0, FrameType, StepType, <1>1 DEF TypeOK, CancelLoad
<1>2. CASE CancelRequest(a)
  <2>1. WorkerType'
    BY <1>0, <1>2 DEF TypeOK, WorkerType, CancelRequest, WorkStep
  <2>. QED
    BY <1>0, FrameType, WriteJobType, StepType, <1>2, <2>1 DEF TypeOK, CancelRequest,
       State, Unresolved, Terminal, RequestPowerCancellation
<1>3. CASE McpAuthority(a)
  <2>1. WorkerType'
    BY <1>0, <1>3 DEF TypeOK, WorkerType, McpAuthority, WorkStep
  <2>. QED
    BY <1>0, FrameType, StepType, <1>3, <2>1 DEF TypeOK, McpAuthority
<1>4. CASE CancelDirect(a)
  BY <1>0, FrameType, WriteJobType, StepType, <1>4 DEF TypeOK, CancelDirect, State,
     Unresolved, Terminal
<1>. QED
  BY <1>1, <1>2, <1>3, <1>4 DEF Canceller

\* The workers' steps.
LEMMA WorkerStepType ==
    ASSUME TypeOK, NEW a \in Actor, Worker(a) \/ WorkerCrash(a)
    PROVE  TypeOK'
<1>0. /\ Target[a] \in Job
      /\ st[Target[a]] \in State /\ creq[Target[a]] \in BOOLEAN
  BY PowerAssumption DEF TypeOK, JobType
<1>1. CASE WorkerLock(a)
  <2>1. LockType'
    BY <1>0, <1>1 DEF TypeOK, LockType, WorkerLock
  <2>. QED
    BY <1>0, FrameType, WriteJobType, StepType, <1>1, <2>1 DEF TypeOK, WorkerLock, State,
       Unresolved, Terminal, WorkStep, Settling
<1>2. CASE WorkerRetry(a)
  <2>1. LockType'
    BY <1>0, <1>2 DEF TypeOK, LockType, WorkerRetry
  <2>. QED
    BY <1>0, FrameType, StepType, <1>2, <2>1 DEF TypeOK, WorkerRetry, WorkStep, Settling
<1>3. CASE CliLock(a)
  <2>1. LockType'
    BY <1>0, <1>3 DEF TypeOK, LockType, CliLock
  <2>. QED
    BY <1>0, FrameType, StepType, <1>3, <2>1 DEF TypeOK, CliLock, WorkStep, Settling
<1>4. CASE WorkerLoad(a)
  BY <1>0, FrameType, StepType, <1>4 DEF TypeOK, WorkerLoad, WorkDone, WorkStep, Settling
<1>5. CASE WorkerFence(a)
  BY <1>0, FrameType, WriteJobType, StepType, <1>5 DEF TypeOK, WorkerFence, State,
     Unresolved, Terminal, WorkStep, Settling
<1>6. CASE WorkerSettle(a)
  BY <1>0, FrameType, StepType, <1>6 DEF TypeOK, WorkerSettle, WorkStep, Settling
<1>7. CASE WorkerNoAction(a)
  BY <1>0, FrameType, StepType, CallType, <1>7 DEF TypeOK, WorkerNoAction, WorkStep,
     Settling
<1>8. CASE WorkerCancel(a)
  BY <1>0, FrameType, StepType, CallType, <1>8 DEF TypeOK, WorkerCancel, CancelConfirmed,
     CancelUnconfirmed, WorkStep, Settling
<1>9. CASE WorkerResolve(a)
  BY <1>0, FrameType, StepType, CallType, <1>9 DEF TypeOK, WorkerResolve, WorkStep,
     Settling
<1>10. CASE WorkerUnconfirmed(a)
  BY <1>0, FrameType, WriteJobType, StepType, <1>10 DEF TypeOK, WorkerUnconfirmed, State,
     Unresolved, Terminal, WorkDone, WorkStep, Settling
<1>11. CASE WorkerPersist(a)
  BY <1>0, FrameType, WriteJobType, StepType, <1>11 DEF TypeOK, WorkerPersist, State,
     Unresolved, Terminal, WorkDone, WorkStep, Settling
<1>12. CASE WorkerComplete(a)
  <2>1. MarkerType'
    BY <1>0, <1>12 DEF TypeOK, MarkerType, WorkerComplete
  <2>. QED
    BY <1>0, FrameType, StepType, <1>12, <2>1 DEF TypeOK, WorkerComplete, WorkDone,
       WorkStep, Settling
<1>13. CASE WorkerCrash(a)
  BY <1>0, FrameType, StepType, <1>13 DEF TypeOK, WorkerCrash, WorkDone, WorkStep,
     Settling
<1>. QED
  BY <1>1, <1>2, <1>3, <1>4, <1>5, <1>6, <1>7, <1>8, <1>9, <1>10, <1>11, <1>12, <1>13 DEF
     Worker

\* The initial states are typed, ...
LEMMA TypeCorrectInit == Init => TypeOK
<1>. SUFFICES ASSUME Init PROVE TypeOK
  OBVIOUS
<1>1. NoSnap \in [st : State, gen : Nat, creq : BOOLEAN]
  BY DEF NoSnap, State, Observing
<1>2. JobType /\ RecordType /\ MarkerType /\ BackendType
  BY DEF Init, JobType, RecordType, MarkerType, BackendType, State
<1>3. LockType /\ SupType /\ ActorType /\ WorkerType
  BY <1>1 DEF Init, LockType, SupType, ActorType, WorkerType, SupStep, WorkStep
<1>. QED
  BY <1>2, <1>3 DEF TypeOK

\* ... and every step keeps them so.
LEMMA TypeCorrectStep == TypeOK /\ [Next]_vars => TypeOK'
<1>. SUFFICES ASSUME TypeOK, [Next]_vars PROVE TypeOK'
  OBVIOUS
<1>1. CASE UNCHANGED vars
  BY <1>1, FrameType DEF TypeOK, vars
<1>2. ASSUME NEW j \in Job, Arm(j) \/ Supervisor(j) \/ SupCrash(j) \/ Backend(j)
      PROVE  TypeOK'
  BY <1>2, SupervisorType, BackendStepType
<1>3. ASSUME NEW h \in Hook, HookHandler(h) \/ HookCrash(h)  PROVE TypeOK'
  BY <1>3, HookStepType
<1>4. ASSUME NEW a \in Cli \cup Mcp, Canceller(a)  PROVE TypeOK'
  BY <1>4, CancellerType
<1>5. ASSUME NEW a \in Actor, Worker(a) \/ WorkerCrash(a)  PROVE TypeOK'
  BY <1>5, WorkerStepType
<1>. QED
  BY <1>1, <1>2, <1>3, <1>4, <1>5 DEF Next

\* Type correctness of job.json, the recovery records, the markers, the backend
\* and every process, for any jobs, invocations and faults.
THEOREM TypeCorrect == Spec => []TypeOK
BY TypeCorrectInit, TypeCorrectStep, PTL DEF Spec

-----------------------------------------------------------------------------
(* The inductive invariant.  Who is past the machine lock holds it, so that *)
(* the records of a job between the last check and the call start are not   *)
(* settled by anybody else; the call counter follows the call-start record; *)
(* and while a supervisor holds the lock past the inventory no other job    *)
(* has an action.                                                           *)

LockInv ==
    /\ \A j \in Job : spc[j] \in Holding => lock = j
    /\ \A a \in Actor : wpc[a] \in Settling => lock = a

CallInv ==
    \A j \in Job :
      /\ calls[j] <= 1 /\ (calls[j] = 1 => call[j])
      /\ spc[j] = "backend" => call[j] /\ calls[j] = 0
      /\ spc[j] = "callwrite" => ~call[j] /\ res[j] = "none"
      /\ ~call[j] => timer[j] = "off" /\ ~queued[j]
      /\ res[j] = "no_action" => ~call[j]

SealInv ==
    \A j \in Job :
      st[j] = "ACTION_SCHEDULED" \/ spc[j] \in {"load4", "check4", "commit"}
        => call[j] /\ seal[j]

AloneInv ==
    /\ OneUnresolved
    /\ \A j, k \in Job :
         j # k /\ spc[j] \in Holding \ {"inventory"} => ~HasUnresolvedPowerAction(k)

\* A supervisor keeps the lock discipline by moving within the locked region,
\* by leaving it and releasing, or by acquiring a free lock.
LEMMA SupervisorKeepsLock ==
    ASSUME TypeOK, LockInv, NEW j \in Job, NEW pc, Goto(j, pc), UNCHANGED wpc,
           \/ UNCHANGED lock /\ (pc \in Holding => spc[j] \in Holding)
           \/ Release(j) /\ pc \notin Holding
           \/ lock = NoOne /\ lock' = j
    PROVE  LockInv'
<1>1. /\ j \notin Actor /\ NoOne \notin Job /\ NoOne \notin Actor
      /\ spc \in [Job -> SupStep]
  BY PowerAssumption DEF TypeOK, SupType
<1>2. ASSUME NEW k \in Job, spc'[k] \in Holding  PROVE lock' = k
  BY <1>1, <1>2 DEF LockInv, Goto, Release
<1>3. ASSUME NEW a \in Actor, wpc'[a] \in Settling  PROVE lock' = a
  BY <1>1, <1>3 DEF LockInv, Release
<1>. QED
  BY <1>2, <1>3 DEF LockInv

\* So does a worker.
LEMMA WorkerKeepsLock ==
    ASSUME TypeOK, LockInv, NEW a \in Actor, NEW pc, Work(a, pc), UNCHANGED spc,
           \/ UNCHANGED lock /\ (pc \in Settling => wpc[a] \in Settling)
           \/ Release(a) /\ pc \notin Settling
           \/ lock = NoOne /\ lock' = a
    PROVE  LockInv'
<1>1. /\ a \notin Job /\ NoOne \notin Job /\ NoOne \notin Actor
      /\ wpc \in [Actor -> WorkStep]
  BY PowerAssumption DEF TypeOK, WorkerType
<1>2. ASSUME NEW b \in Actor, wpc'[b] \in Settling  PROVE lock' = b
  BY <1>1, <1>2 DEF LockInv, Work, Release
<1>3. ASSUME NEW j \in Job, spc'[j] \in Holding  PROVE lock' = j
  BY <1>1, <1>3 DEF LockInv, Release
<1>. QED
  BY <1>2, <1>3 DEF LockInv

\* Nobody settles a job whose supervisor is in the locked region.
LEMMA Excluded ==
    ASSUME TypeOK, LockInv, NEW a \in Actor, wpc[a] \in Settling, NEW j \in Job
    PROVE  spc[j] \notin Holding
BY PowerAssumption DEF LockInv

\* The supervisor's steps keep the lock discipline.
LEMMA SupervisorLockInv ==
    ASSUME TypeOK, LockInv, NEW j \in Job, Arm(j) \/ Supervisor(j) \/ SupCrash(j)
    PROVE  LockInv'
<1>1. CASE Arm(j)
  BY <1>1, SupervisorKeepsLock DEF Arm, Holding
<1>2. CASE SupRun(j)
  BY <1>2, SupervisorKeepsLock DEF SupRun, Holding
<1>3. CASE SupFail(j)
  BY <1>3, SupervisorKeepsLock DEF SupFail, LeaveSchedule, Holding
<1>4. CASE SupLock(j)
  BY <1>4, SupervisorKeepsLock DEF SupLock, Holding
<1>5. CASE SupInventory(j)
  BY <1>5, SupervisorKeepsLock DEF SupInventory, Holding
<1>6. CASE SupLoad(j)
  BY <1>6, SupervisorKeepsLock DEF SupLoad, LeaveSchedule, Holding
<1>7. CASE SupCheck1(j)
  BY <1>7, SupervisorKeepsLock DEF SupCheck1, Holding
<1>8. CASE SupCheck2(j)
  BY <1>8, SupervisorKeepsLock DEF SupCheck2, Holding
<1>9. CASE SupEnvelope(j)
  BY <1>9, SupervisorKeepsLock DEF SupEnvelope, Holding
<1>10. CASE SupIntent(j)
  BY <1>10, SupervisorKeepsLock DEF SupIntent, LeaveSchedule, Holding
<1>11. CASE SupCheck3(j)
  BY <1>11, SupervisorKeepsLock DEF SupCheck3, Holding
<1>12. CASE SupAbort(j)
  BY <1>12, SupervisorKeepsLock DEF SupAbort, LeaveSchedule, Holding
<1>13. CASE SupAborted(j)
  BY <1>13, SupervisorKeepsLock DEF SupAborted, LeaveSchedule, Holding
<1>14. CASE SupCall(j)
  BY <1>14, SupervisorKeepsLock DEF SupCall, Holding
<1>15. CASE SupCallWrite(j)
  BY <1>15, SupervisorKeepsLock DEF SupCallWrite, Holding
<1>16. CASE SupSchedule(j)
  BY <1>16, SupervisorKeepsLock DEF SupSchedule, Holding
<1>17. CASE SupUnknown(j)
  BY <1>17, SupervisorKeepsLock DEF SupUnknown, LeaveSchedule, Holding
<1>18. CASE SupSeal(j)
  BY <1>18, SupervisorKeepsLock DEF SupSeal, Holding
<1>19. CASE SupCheck4(j)
  BY <1>19, SupervisorKeepsLock DEF SupCheck4, Holding
<1>20. CASE SupCommit(j)
  BY <1>20, SupervisorKeepsLock DEF SupCommit, LeaveSchedule, Holding
<1>21. CASE SupCancel(j)
  BY <1>21, SupervisorKeepsLock DEF SupCancel, Holding
<1>22. CASE SupCancelResolve(j)
  BY <1>22, SupervisorKeepsLock DEF SupCancelResolve, Holding
<1>23. CASE SupCancelled(j)
  BY <1>23, SupervisorKeepsLock DEF SupCancelled, LeaveSchedule, Holding, Cancelling
<1>24. CASE SupCancelFailed(j)
  BY <1>24, SupervisorKeepsLock DEF SupCancelFailed, LeaveSchedule, Holding, Cancelling
<1>25. CASE SupRollback(j)
  BY <1>25, SupervisorKeepsLock DEF SupRollback, Holding
<1>26. CASE SupRollbackResolve(j)
  BY <1>26, SupervisorKeepsLock DEF SupRollbackResolve, Holding
<1>27. CASE SupRolledBack(j)
  BY <1>27, SupervisorKeepsLock DEF SupRolledBack, LeaveSchedule, Holding
<1>28. CASE SupMonitor(j)
  BY <1>28, SupervisorKeepsLock DEF SupMonitor, Holding
<1>29. CASE SupWatch(j)
  BY <1>29, SupervisorKeepsLock DEF SupWatch, Holding
<1>30. CASE SupCrash(j)
  BY <1>30, SupervisorKeepsLock DEF SupCrash, LeaveSchedule, Holding
<1>. QED
  BY <1>1, <1>2, <1>3, <1>4, <1>5, <1>6, <1>7, <1>8, <1>9, <1>10, <1>11, <1>12, <1>13,
     <1>14, <1>15, <1>16, <1>17, <1>18, <1>19, <1>20, <1>21, <1>22, <1>23, <1>24, <1>25,
     <1>26, <1>27, <1>28, <1>29, <1>30 DEF Supervisor

\* So do the workers', ...
LEMMA WorkerLockInv ==
    ASSUME TypeOK, LockInv, NEW a \in Actor, Worker(a) \/ WorkerCrash(a)
    PROVE  LockInv'
<1>1. CASE WorkerLock(a)
  BY <1>1, WorkerKeepsLock DEF WorkerLock, Settling, supVars
<1>2. CASE WorkerRetry(a)
  BY <1>2, WorkerKeepsLock DEF WorkerRetry, Settling, supVars
<1>3. CASE CliLock(a)
  BY <1>3, WorkerKeepsLock DEF CliLock, Settling, supVars
<1>4. CASE WorkerLoad(a)
  BY <1>4, WorkerKeepsLock DEF WorkerLoad, WorkDone, Settling, supVars
<1>5. CASE WorkerFence(a)
  BY <1>5, WorkerKeepsLock DEF WorkerFence, Settling, supVars
<1>6. CASE WorkerSettle(a)
  BY <1>6, WorkerKeepsLock DEF WorkerSettle, Settling, supVars
<1>7. CASE WorkerNoAction(a)
  BY <1>7, WorkerKeepsLock DEF WorkerNoAction, Settling, supVars
<1>8. CASE WorkerCancel(a)
  BY <1>8, WorkerKeepsLock DEF WorkerCancel, Settling, supVars
<1>9. CASE WorkerResolve(a)
  BY <1>9, WorkerKeepsLock DEF WorkerResolve, Settling, supVars
<1>10. CASE WorkerUnconfirmed(a)
  BY <1>10, WorkerKeepsLock DEF WorkerUnconfirmed, WorkDone, Settling, supVars
<1>11. CASE WorkerPersist(a)
  BY <1>11, WorkerKeepsLock DEF WorkerPersist, WorkDone, Settling, supVars
<1>12. CASE WorkerComplete(a)
  BY <1>12, WorkerKeepsLock DEF WorkerComplete, WorkDone, Settling, supVars
<1>13. CASE WorkerCrash(a)
  BY <1>13, WorkerKeepsLock DEF WorkerCrash, WorkDone, Settling, supVars
<1>. QED
  BY <1>1, <1>2, <1>3, <1>4, <1>5, <1>6, <1>7, <1>8, <1>9, <1>10, <1>11, <1>12, <1>13 DEF
     Worker

\* ... the hooks', ...
LEMMA HookLockInv ==
    ASSUME TypeOK, LockInv, NEW h \in Hook, HookHandler(h) \/ HookCrash(h)
    PROVE  LockInv'
<1>0. h \in Actor
  BY DEF Hook, Actor
<1>1. CASE HookCapture(h)
  BY <1>1, <1>0 DEF HookCapture, LockInv, supVars
<1>2. CASE HookMarker(h)
  BY <1>2, <1>0 DEF HookMarker, LockInv, supVars
<1>3. CASE HookUpdate(h)
  BY <1>3, <1>0 DEF HookUpdate, LockInv, supVars
<1>4. CASE HookLaunch(h)
  BY <1>4, <1>0, WorkerKeepsLock DEF HookLaunch, Work, Settling, LockInv, supVars
<1>5. CASE HookCleanup(h)
  BY <1>5, <1>0 DEF HookCleanup, LockInv, supVars
<1>6. CASE HookCrash(h)
  BY <1>6, <1>0 DEF HookCrash, LockInv, supVars
<1>. QED
  BY <1>1, <1>2, <1>3, <1>4, <1>5, <1>6 DEF HookHandler

\* ... and the cancel commands'.
LEMMA CancellerLockInv ==
    ASSUME TypeOK, LockInv, NEW a \in Cli \cup Mcp, Canceller(a)
    PROVE  LockInv'
<1>0. a \in Actor
  BY DEF Actor
<1>1. CASE CancelLoad(a)
  BY <1>1, <1>0 DEF CancelLoad, LockInv, supVars
<1>2. CASE CancelRequest(a)
  BY <1>2, <1>0, WorkerKeepsLock DEF CancelRequest, Work, Settling, LockInv, supVars
<1>3. CASE McpAuthority(a)
  BY <1>3, <1>0, WorkerKeepsLock DEF McpAuthority, Work, Settling, LockInv, supVars
<1>4. CASE CancelDirect(a)
  BY <1>4, <1>0 DEF CancelDirect, LockInv, supVars
<1>. QED
  BY <1>1, <1>2, <1>3, <1>4 DEF Canceller

\* A supervisor that neither calls the backend nor touches its records.
LEMMA SupervisorKeepsCall ==
    ASSUME TypeOK, CallInv, NEW j \in Job, NEW pc, Goto(j, pc),
           pc \notin {"backend", "callwrite"},
           UNCHANGED <<call, res, timer, queued, calls>>
    PROVE  CallInv'
BY DEF TypeOK, SupType, CallInv, Goto

\* The backend's answer to a cancellation only ever stops a countdown.
LEMMA CancelKeepsCall ==
    ASSUME TypeOK, CallInv, NEW j \in Job, CancelConfirmed(j) \/ CancelUnconfirmed(j),
           UNCHANGED <<call, res>>, NEW pc, Goto(j, pc) \/ UNCHANGED spc,
           pc \notin {"backend", "callwrite"}
    PROVE  CallInv'
BY DEF TypeOK, SupType, BackendType, CallInv, CancelConfirmed, CancelUnconfirmed, Goto

\* A resolution by somebody else never falls between the last look and the call.
LEMMA ResolveKeepsCall ==
    ASSUME TypeOK, CallInv, NEW j \in Job, ResolveCancelled(j) \/ ResolveNoAction(j),
           UNCHANGED <<call, timer, queued, calls>>,
           \/ UNCHANGED spc /\ spc[j] \notin Holding
           \/ \E pc : Goto(j, pc) /\ pc \notin {"backend", "callwrite"}
    PROVE  CallInv'
BY DEF TypeOK, SupType, RecordType, CallInv, ResolveCancelled, ResolveNoAction, Goto, Holding

\* The supervisor's steps keep the call boundary; SupCall and SupCallWrite rely on
\* the resolution that nobody else can write under the lock.
LEMMA SupervisorCallInv ==
    ASSUME TypeOK, LockInv, CallInv, NEW j \in Job,
           Arm(j) \/ Supervisor(j) \/ SupCrash(j)
    PROVE  CallInv'
<1>1. CASE Arm(j)
  BY <1>1, SupervisorKeepsCall DEF Arm, recVars, backVars
<1>2. CASE SupRun(j)
  BY <1>2, SupervisorKeepsCall DEF SupRun, recVars, backVars
<1>3. CASE SupFail(j)
  BY <1>3, SupervisorKeepsCall DEF SupFail, LeaveSchedule, recVars, backVars
<1>4. CASE SupLock(j)
  BY <1>4, SupervisorKeepsCall DEF SupLock, recVars, backVars
<1>5. CASE SupInventory(j)
  BY <1>5, SupervisorKeepsCall DEF SupInventory, recVars, backVars
<1>6. CASE SupLoad(j)
  BY <1>6, SupervisorKeepsCall DEF SupLoad, LeaveSchedule, recVars, backVars
<1>7. CASE SupCheck1(j)
  BY <1>7, SupervisorKeepsCall DEF SupCheck1, recVars, backVars
<1>8. CASE SupCheck2(j)
  BY <1>8, SupervisorKeepsCall DEF SupCheck2, recVars, backVars
<1>9. CASE SupEnvelope(j)
  BY <1>9, SupervisorKeepsCall DEF SupEnvelope, recVars, backVars
<1>10. CASE SupIntent(j)
  BY <1>10, SupervisorKeepsCall DEF SupIntent, LeaveSchedule, recVars, backVars
<1>11. CASE SupCheck3(j)
  BY <1>11, SupervisorKeepsCall DEF SupCheck3, recVars, backVars
<1>12. CASE SupAbort(j)
  BY <1>12, ResolveKeepsCall DEF SupAbort, LeaveSchedule, backVars
<1>13. CASE SupAborted(j)
  BY <1>13, SupervisorKeepsCall DEF SupAborted, LeaveSchedule, recVars, backVars
<1>14. CASE SupCall(j)
  BY <1>14, TypeOK DEF TypeOK, SupType, RecordType, CallInv, SupCall, Goto, recVars,
     backVars
<1>15. CASE SupCallWrite(j)
  <2>1. calls[j] = 0 /\ res[j] = "none"
    BY <1>15 DEF TypeOK, BackendType, CallInv, SupCallWrite
  <2>2. /\ UNCHANGED <<calls, res, timer, queued>>
        /\ call' = [call EXCEPT ![j] = TRUE] /\ spc' = [spc EXCEPT ![j] = "backend"]
    BY <1>15 DEF SupCallWrite, Goto, backVars
  <2>. QED
    BY <2>1, <2>2 DEF TypeOK, SupType, RecordType, CallInv
<1>16. CASE SupSchedule(j)
  BY <1>16 DEF TypeOK, SupType, RecordType, BackendType, CallInv, SupSchedule,
     ScheduleAccepted, ScheduleOutcomeUnknown, Goto, recVars
<1>17. CASE SupUnknown(j)
  BY <1>17, SupervisorKeepsCall DEF SupUnknown, LeaveSchedule, recVars, backVars
<1>18. CASE SupSeal(j)
  BY <1>18, SupervisorKeepsCall DEF SupSeal, recVars, backVars
<1>19. CASE SupCheck4(j)
  BY <1>19, SupervisorKeepsCall DEF SupCheck4, recVars, backVars
<1>20. CASE SupCommit(j)
  BY <1>20, SupervisorKeepsCall DEF SupCommit, LeaveSchedule, recVars, backVars
<1>21. CASE SupCancel(j)
  BY <1>21, CancelKeepsCall DEF SupCancel, recVars
<1>22. CASE SupCancelResolve(j)
  BY <1>22, ResolveKeepsCall DEF SupCancelResolve, backVars
<1>23. CASE SupCancelled(j)
  BY <1>23, SupervisorKeepsCall DEF SupCancelled, LeaveSchedule, recVars, backVars
<1>24. CASE SupCancelFailed(j)
  BY <1>24, SupervisorKeepsCall DEF SupCancelFailed, LeaveSchedule, recVars, backVars
<1>25. CASE SupRollback(j)
  BY <1>25, CancelKeepsCall DEF SupRollback, recVars
<1>26. CASE SupRollbackResolve(j)
  BY <1>26, ResolveKeepsCall DEF SupRollbackResolve, backVars
<1>27. CASE SupRolledBack(j)
  BY <1>27, SupervisorKeepsCall DEF SupRolledBack, LeaveSchedule, recVars, backVars
<1>28. CASE SupMonitor(j)
  BY <1>28, SupervisorKeepsCall DEF SupMonitor, recVars, backVars
<1>29. CASE SupWatch(j)
  BY <1>29, SupervisorKeepsCall DEF SupWatch, recVars, backVars
<1>30. CASE SupCrash(j)
  BY <1>30, SupervisorKeepsCall DEF SupCrash, LeaveSchedule, recVars, backVars
<1>. QED
  BY <1>1, <1>2, <1>3, <1>4, <1>5, <1>6, <1>7, <1>8, <1>9, <1>10, <1>11, <1>12, <1>13,
     <1>14, <1>15, <1>16, <1>17, <1>18, <1>19, <1>20, <1>21, <1>22, <1>23, <1>24, <1>25,
     <1>26, <1>27, <1>28, <1>29, <1>30 DEF Supervisor

\* The backend's own steps keep it, ...
LEMMA BackendCallInv ==
    ASSUME TypeOK, CallInv, NEW j \in Job, Backend(j)
    PROVE  CallInv'
<1>1. CASE Deadline(j)
  BY <1>1 DEF Deadline, TypeOK, BackendType, CallInv, recVars, supVars
<1>2. CASE Fire(j)
  BY <1>2 DEF Fire, TypeOK, BackendType, CallInv, recVars, supVars
<1>3. CASE LateSchedule(j)
  BY <1>3 DEF LateSchedule, TypeOK, BackendType, CallInv, recVars, supVars
<1>. QED
  BY <1>1, <1>2, <1>3 DEF Backend

\* ... the hooks', ...
LEMMA HookCallInv ==
    ASSUME CallInv, NEW h \in Hook, HookHandler(h) \/ HookCrash(h)
    PROVE  CallInv'
<1>1. CASE HookCapture(h)
  BY <1>1 DEF HookCapture, CallInv, recVars, backVars, supVars
<1>2. CASE HookMarker(h)
  BY <1>2 DEF HookMarker, CallInv, recVars, backVars, supVars
<1>3. CASE HookUpdate(h)
  BY <1>3 DEF HookUpdate, CallInv, recVars, backVars, supVars
<1>4. CASE HookLaunch(h)
  BY <1>4 DEF HookLaunch, CallInv, recVars, backVars, supVars
<1>5. CASE HookCleanup(h)
  BY <1>5 DEF HookCleanup, CallInv, recVars, backVars, supVars
<1>6. CASE HookCrash(h)
  BY <1>6 DEF HookCrash, CallInv, recVars, backVars, supVars
<1>. QED
  BY <1>1, <1>2, <1>3, <1>4, <1>5, <1>6 DEF HookHandler

\* ... the cancel commands', ...
LEMMA CancellerCallInv ==
    ASSUME CallInv, NEW a \in Cli \cup Mcp, Canceller(a)
    PROVE  CallInv'
<1>1. CASE CancelLoad(a)
  BY <1>1 DEF CancelLoad, CallInv, recVars, backVars, supVars
<1>2. CASE CancelRequest(a)
  BY <1>2 DEF CancelRequest, CallInv, recVars, backVars, supVars
<1>3. CASE McpAuthority(a)
  BY <1>3 DEF McpAuthority, CallInv, recVars, backVars, supVars
<1>4. CASE CancelDirect(a)
  BY <1>4 DEF CancelDirect, CallInv, recVars, backVars, supVars
<1>. QED
  BY <1>1, <1>2, <1>3, <1>4 DEF Canceller

\* ... and the workers', whose resolutions are fenced by the lock.
LEMMA WorkerCallInv ==
    ASSUME TypeOK, LockInv, CallInv, NEW a \in Actor, Worker(a) \/ WorkerCrash(a)
    PROVE  CallInv'
<1>0. Target[a] \in Job
  BY PowerAssumption
<1>1. CASE WorkerLock(a)
  BY <1>1 DEF WorkerLock, CallInv, recVars, backVars, supVars
<1>2. CASE WorkerRetry(a)
  BY <1>2 DEF WorkerRetry, CallInv, recVars, backVars, supVars
<1>3. CASE CliLock(a)
  BY <1>3 DEF CliLock, CallInv, recVars, backVars, supVars
<1>4. CASE WorkerLoad(a)
  BY <1>4 DEF WorkerLoad, CallInv, recVars, backVars, supVars
<1>5. CASE WorkerFence(a)
  BY <1>5 DEF WorkerFence, CallInv, recVars, backVars, supVars
<1>6. CASE WorkerSettle(a)
  BY <1>6 DEF WorkerSettle, CallInv, recVars, backVars, supVars
<1>7. CASE WorkerNoAction(a)
  BY <1>7, <1>0, Excluded, ResolveKeepsCall DEF WorkerNoAction, Settling, backVars,
     supVars
<1>8. CASE WorkerCancel(a)
  BY <1>8, <1>0, CancelKeepsCall DEF WorkerCancel, recVars, supVars
<1>9. CASE WorkerResolve(a)
  BY <1>9, <1>0, Excluded, ResolveKeepsCall DEF WorkerResolve, Settling, backVars, supVars
<1>10. CASE WorkerUnconfirmed(a)
  BY <1>10 DEF WorkerUnconfirmed, CallInv, recVars, backVars, supVars
<1>11. CASE WorkerPersist(a)
  BY <1>11 DEF WorkerPersist, CallInv, recVars, backVars, supVars
<1>12. CASE WorkerComplete(a)
  BY <1>12 DEF WorkerComplete, CallInv, recVars, backVars, supVars
<1>13. CASE WorkerCrash(a)
  BY <1>13 DEF WorkerCrash, CallInv, recVars, backVars, supVars
<1>. QED
  BY <1>1, <1>2, <1>3, <1>4, <1>5, <1>6, <1>7, <1>8, <1>9, <1>10, <1>11, <1>12, <1>13 DEF
     Worker

\* Most steps make no job's action unresolved.
Calm(j) ==
    \/ UNCHANGED st
    \/ \E s \in State : st' = [st EXCEPT ![j] = s] /\ (s \in Unresolved => s = st[j])

\* UpdateJob with a settled state, or with the state it found, is calm.
LEMMA WriteIsCalm ==
    ASSUME TypeOK, NEW j \in Job
    PROVE  /\ UNCHANGED jobVars => Calm(j)
           /\ \A s \in State \ Unresolved : \A bump, c : WriteJob(j, s, bump, c) => Calm(j)
           /\ \A bump, c : WriteJob(j, st[j], bump, c) => Calm(j)
<1>1. st[j] \in State
  BY DEF TypeOK, JobType
<1>. QED
  BY <1>1 DEF Calm, WriteJob, jobVars

\* A calm step keeps SealInv if it stays out of the steps after the seal, ...
LEMMA CalmKeepsSeal ==
    ASSUME TypeOK, SealInv, NEW j \in Job, Calm(j), UNCHANGED <<call, seal>>,
           \/ UNCHANGED spc
           \/ \E pc : Goto(j, pc) /\ pc \notin {"load4", "check4", "commit"}
    PROVE  SealInv'
BY DEF TypeOK, JobType, SupType, SealInv, Calm, Goto, Unresolved

\* ... and AloneInv if it does not pass the inventory.
LEMMA CalmKeepsAlone ==
    ASSUME TypeOK, AloneInv, NEW j \in Job, Calm(j),
           \/ UNCHANGED spc
           \/ \E pc : Goto(j, pc) /\ (pc \in Holding \ {"inventory"}
                                       => spc[j] \in Holding \ {"inventory"})
    PROVE  AloneInv'
<1>1. \A k \in Job : HasUnresolvedPowerAction(k)' => HasUnresolvedPowerAction(k)
  BY DEF TypeOK, JobType, HasUnresolvedPowerAction, Calm
<1>2. \A k \in Job :
        spc'[k] \in Holding \ {"inventory"} => spc[k] \in Holding \ {"inventory"}
  BY DEF TypeOK, SupType, Goto
<1>. QED
  BY <1>1, <1>2 DEF AloneInv, OneUnresolved

\* A supervisor past the inventory may write what it likes: no other job has an
\* action, and no other supervisor is past the inventory.
LEMMA LoneWriter ==
    ASSUME TypeOK, LockInv, AloneInv, NEW j \in Job, spc[j] \in Holding \ {"inventory"},
           UNCHANGED st \/ \E s : st' = [st EXCEPT ![j] = s],
           NEW pc, Goto(j, pc)
    PROVE  AloneInv'
<1>1. \A k \in Job \ {j} : ~HasUnresolvedPowerAction(k) /\ spc[k] \notin Holding
  BY DEF LockInv, AloneInv
<1>2. \A k \in Job \ {j} : ~HasUnresolvedPowerAction(k)' /\ spc'[k] \notin Holding
  BY <1>1 DEF TypeOK, JobType, SupType, HasUnresolvedPowerAction, Goto
<1>. QED
  BY <1>2 DEF AloneInv, OneUnresolved

\* What the hooks write is calm.
LEMMA HookEffectIsCalm ==
    ASSUME TypeOK, NEW h \in Hook, HookEffect(h)
    PROVE  Calm(Target[h])
<1>. DEFINE j == Target[h]
<1>0. j \in Job
  BY PowerAssumption DEF Hook, Actor
<1>. HIDE DEF j
<1>1. PromptEffect(j) => Calm(j)
  BY <1>0, WriteIsCalm
     DEF PromptEffect, RequestPowerCancellation, State, Observing, Terminal, Unresolved
<1>2. StopEffect(j) => Calm(j)
  BY <1>0, WriteIsCalm
     DEF StopEffect, RequestPowerCancellation, State, Observing, Terminal, Unresolved
<1>3. SessionEndEffect(j) => Calm(j)
  BY <1>0, WriteIsCalm
     DEF SessionEndEffect, RequestPowerCancellation, State, Observing, Terminal, Unresolved
<1>4. \A bump, c : WriteJob(j, "REFUSED", bump, c) => Calm(j)
  BY <1>0, WriteIsCalm DEF State, Terminal, Unresolved
<1>. QED
  BY <1>0, <1>1, <1>2, <1>3, <1>4 DEF HookEffect, j

\* The supervisor's steps: only the intent, the commit and a rollback that could not
\* be confirmed make an action unresolved, and all of them are past the inventory.
LEMMA SupervisorStateInv ==
    ASSUME TypeOK, LockInv, SealInv, AloneInv, NEW j \in Job,
           Arm(j) \/ Supervisor(j) \/ SupCrash(j)
    PROVE  SealInv' /\ AloneInv'
<1>1. CASE Arm(j)
  <2>1. Calm(j)
    BY <1>1, WriteIsCalm DEF Arm, State, Observing, Terminal, Unresolved
  <2>. QED
    BY <1>1, <2>1, CalmKeepsSeal, CalmKeepsAlone DEF Arm, Holding, recVars
<1>2. CASE SupRun(j)
  BY <1>2, WriteIsCalm, CalmKeepsSeal, CalmKeepsAlone DEF SupRun, Holding, recVars
<1>3. CASE SupFail(j)
  <2>1. Calm(j)
    BY <1>3, WriteIsCalm DEF SupFail, State, Observing, Terminal, Unresolved
  <2>. QED
    BY <1>3, <2>1, CalmKeepsSeal, CalmKeepsAlone DEF SupFail, Holding, recVars,
       LeaveSchedule
<1>4. CASE SupLock(j)
  BY <1>4, WriteIsCalm, CalmKeepsSeal, CalmKeepsAlone DEF SupLock, Holding, recVars
<1>5. CASE SupInventory(j)
  <2>1. SealInv'
    BY <1>5, WriteIsCalm, CalmKeepsSeal DEF SupInventory, recVars
  <2>2. CASE \E k \in Job \ {j} : Live(k)
    BY <1>5, <2>1, <2>2, WriteIsCalm, CalmKeepsAlone DEF SupInventory, Holding
  <2>3. CASE \A k \in Job \ {j} : ~Live(k)
    <3>1. \A k \in Job \ {j} : ~HasUnresolvedPowerAction(k) /\ spc[k] \notin Holding
      BY <1>5, <2>3 DEF SupInventory, LockInv, Live, HasUnresolvedPowerAction, Unresolved,
         Terminal, Holding
    <3>. QED
      BY <1>5, <2>1, <3>1 DEF SupInventory, TypeOK, SupType, AloneInv, OneUnresolved,
         HasUnresolvedPowerAction, Goto, jobVars
  <2>. QED
    BY <2>2, <2>3
<1>6. CASE SupLoad(j)
  <2>1. SealInv'
    BY <1>6 DEF TypeOK, JobType, RecordType, SupType, SealInv, SupLoad, recVars, jobVars,
       LeaveSchedule, Goto
  <2>. QED
    BY <1>6, <2>1, WriteIsCalm, CalmKeepsAlone DEF SupLoad, Holding, LeaveSchedule
<1>7. CASE SupCheck1(j)
  BY <1>7, WriteIsCalm, CalmKeepsSeal, CalmKeepsAlone DEF SupCheck1, Holding, recVars
<1>8. CASE SupCheck2(j)
  BY <1>8, WriteIsCalm, CalmKeepsSeal, CalmKeepsAlone DEF SupCheck2, Holding, recVars
<1>9. CASE SupEnvelope(j)
  BY <1>9, WriteIsCalm, CalmKeepsSeal, CalmKeepsAlone DEF SupEnvelope, Holding
<1>10. CASE SupIntent(j)
  <2>1. SealInv'
    BY <1>10 DEF TypeOK, JobType, RecordType, SupType, SealInv, SupIntent, WriteJob,
       Terminal, State, recVars, jobVars, LeaveSchedule, Goto
  <2>2. UNCHANGED st \/ \E s : st' = [st EXCEPT ![j] = s]
    BY <1>10 DEF SupIntent, WriteJob, jobVars
  <2>3. spc[j] \in Holding \ {"inventory"} /\ \E pc : Goto(j, pc)
    BY <1>10 DEF SupIntent, Holding, LeaveSchedule
  <2>. QED
    BY <2>1, <2>2, <2>3, LoneWriter
<1>11. CASE SupCheck3(j)
  BY <1>11, WriteIsCalm, CalmKeepsSeal, CalmKeepsAlone DEF SupCheck3, Holding, recVars
<1>12. CASE SupAbort(j)
  BY <1>12, WriteIsCalm, CalmKeepsSeal, CalmKeepsAlone DEF SupAbort, LeaveSchedule,
     Holding
<1>13. CASE SupAborted(j)
  <2>1. Calm(j)
    BY <1>13, WriteIsCalm DEF SupAborted, State, Observing, Terminal, Unresolved
  <2>. QED
    BY <1>13, <2>1, CalmKeepsSeal, CalmKeepsAlone DEF SupAborted, Holding, recVars,
       LeaveSchedule
<1>14. CASE SupCall(j)
  BY <1>14, WriteIsCalm, CalmKeepsSeal, CalmKeepsAlone DEF SupCall, Holding, recVars
<1>15. CASE SupCallWrite(j)
  <2>1. SealInv'
    BY <1>15 DEF TypeOK, JobType, RecordType, SupType, SealInv, SupCallWrite, jobVars,
       Goto
  <2>. QED
    BY <1>15, <2>1, WriteIsCalm, CalmKeepsAlone DEF SupCallWrite, Holding
<1>16. CASE SupSchedule(j)
  BY <1>16, WriteIsCalm, CalmKeepsSeal, CalmKeepsAlone DEF SupSchedule, Holding, recVars
<1>17. CASE SupUnknown(j)
  BY <1>17, WriteIsCalm, CalmKeepsSeal, CalmKeepsAlone DEF SupUnknown, LeaveSchedule,
     Holding, recVars
<1>18. CASE SupSeal(j)
  <2>1. SealInv'
    BY <1>18 DEF TypeOK, JobType, RecordType, SupType, SealInv, SupSeal, jobVars, Goto
  <2>. QED
    BY <1>18, <2>1, WriteIsCalm, CalmKeepsAlone DEF SupSeal, Holding
<1>19. CASE SupCheck4(j)
  <2>1. SealInv'
    BY <1>19 DEF TypeOK, JobType, RecordType, SupType, SealInv, SupCheck4, recVars,
       jobVars, Goto
  <2>. QED
    BY <1>19, <2>1, WriteIsCalm, CalmKeepsAlone DEF SupCheck4, Holding
<1>20. CASE SupCommit(j)
  <2>1. SealInv'
    BY <1>20 DEF TypeOK, JobType, RecordType, SupType, SealInv, SupCommit, WriteJob,
       Terminal, State, recVars, jobVars, LeaveSchedule, Goto
  <2>2. UNCHANGED st \/ \E s : st' = [st EXCEPT ![j] = s]
    BY <1>20 DEF SupCommit, WriteJob, jobVars
  <2>3. spc[j] \in Holding \ {"inventory"} /\ \E pc : Goto(j, pc)
    BY <1>20 DEF SupCommit, Holding, LeaveSchedule
  <2>. QED
    BY <2>1, <2>2, <2>3, LoneWriter
<1>21. CASE SupCancel(j)
  BY <1>21, WriteIsCalm, CalmKeepsSeal, CalmKeepsAlone DEF SupCancel, Holding, recVars
<1>22. CASE SupCancelResolve(j)
  BY <1>22, WriteIsCalm, CalmKeepsSeal, CalmKeepsAlone DEF SupCancelResolve, Holding
<1>23. CASE SupCancelled(j)
  <2>1. Calm(j)
    BY <1>23, WriteIsCalm DEF SupCancelled, State, Observing, Terminal, Unresolved
  <2>. QED
    BY <1>23, <2>1, CalmKeepsSeal, CalmKeepsAlone DEF SupCancelled, Holding, recVars,
       LeaveSchedule
<1>24. CASE SupCancelFailed(j)
  <2>1. Calm(j)
    BY <1>24, WriteIsCalm DEF SupCancelFailed, State, Observing, Terminal, Unresolved,
       HasUnresolvedPowerAction
  <2>. QED
    BY <1>24, <2>1, CalmKeepsSeal, CalmKeepsAlone DEF SupCancelFailed, Holding, recVars,
       LeaveSchedule
<1>25. CASE SupRollback(j)
  BY <1>25, WriteIsCalm, CalmKeepsSeal, CalmKeepsAlone DEF SupRollback, Holding, recVars
<1>26. CASE SupRollbackResolve(j)
  BY <1>26, WriteIsCalm, CalmKeepsSeal, CalmKeepsAlone DEF SupRollbackResolve, Holding
<1>27. CASE SupRolledBack(j)
  <2>1. SealInv'
    BY <1>27 DEF TypeOK, JobType, RecordType, SupType, SealInv, SupRolledBack, WriteJob,
       Terminal, State, recVars, jobVars, LeaveSchedule, Goto
  <2>2. UNCHANGED st \/ \E s : st' = [st EXCEPT ![j] = s]
    BY <1>27 DEF SupRolledBack, WriteJob, jobVars
  <2>3. spc[j] \in Holding \ {"inventory"} /\ \E pc : Goto(j, pc)
    BY <1>27 DEF SupRolledBack, Holding, LeaveSchedule
  <2>. QED
    BY <2>1, <2>2, <2>3, LoneWriter
<1>28. CASE SupMonitor(j)
  BY <1>28, WriteIsCalm, CalmKeepsSeal, CalmKeepsAlone DEF SupMonitor, Holding, recVars
<1>29. CASE SupWatch(j)
  BY <1>29, WriteIsCalm, CalmKeepsSeal, CalmKeepsAlone DEF SupWatch, Holding, recVars
<1>30. CASE SupCrash(j)
  BY <1>30, WriteIsCalm, CalmKeepsSeal, CalmKeepsAlone DEF SupCrash, LeaveSchedule,
     Holding, recVars
<1>. QED
  BY <1>1, <1>2, <1>3, <1>4, <1>5, <1>6, <1>7, <1>8, <1>9, <1>10, <1>11, <1>12, <1>13,
     <1>14, <1>15, <1>16, <1>17, <1>18, <1>19, <1>20, <1>21, <1>22, <1>23, <1>24, <1>25,
     <1>26, <1>27, <1>28, <1>29, <1>30 DEF Supervisor

\* The hooks', ...
LEMMA HookStateInv ==
    ASSUME TypeOK, SealInv, AloneInv, NEW h \in Hook, HookHandler(h) \/ HookCrash(h)
    PROVE  SealInv' /\ AloneInv'
<1>0. Target[h] \in Job
  BY PowerAssumption DEF Hook, Actor
<1>1. CASE HookCapture(h)
  BY <1>1, <1>0, WriteIsCalm, CalmKeepsSeal, CalmKeepsAlone DEF HookCapture, recVars,
     supVars
<1>2. CASE HookMarker(h)
  BY <1>2, <1>0, WriteIsCalm, CalmKeepsSeal, CalmKeepsAlone DEF HookMarker, recVars,
     supVars
<1>3. CASE HookUpdate(h)
  BY <1>3, <1>0, WriteIsCalm, CalmKeepsSeal, CalmKeepsAlone, HookEffectIsCalm DEF
     HookUpdate, recVars, supVars
<1>4. CASE HookLaunch(h)
  BY <1>4, <1>0, WriteIsCalm, CalmKeepsSeal, CalmKeepsAlone DEF HookLaunch, recVars,
     supVars, State, Observing, Terminal, Unresolved, RequestPowerCancellation
<1>5. CASE HookCleanup(h)
  BY <1>5, <1>0, WriteIsCalm, CalmKeepsSeal, CalmKeepsAlone DEF HookCleanup, recVars,
     supVars
<1>6. CASE HookCrash(h)
  BY <1>6, <1>0, WriteIsCalm, CalmKeepsSeal, CalmKeepsAlone DEF HookCrash, recVars,
     supVars
<1>. QED
  BY <1>1, <1>2, <1>3, <1>4, <1>5, <1>6 DEF HookHandler

\* ... the cancel commands' ...
LEMMA CancellerStateInv ==
    ASSUME TypeOK, SealInv, AloneInv, NEW a \in Cli \cup Mcp, Canceller(a)
    PROVE  SealInv' /\ AloneInv'
<1>0. Target[a] \in Job
  BY PowerAssumption DEF Actor
<1>1. CASE CancelLoad(a)
  BY <1>1, <1>0, WriteIsCalm, CalmKeepsSeal, CalmKeepsAlone DEF CancelLoad, recVars,
     supVars
<1>2. CASE CancelRequest(a)
  BY <1>2, <1>0, WriteIsCalm, CalmKeepsSeal, CalmKeepsAlone DEF CancelRequest, recVars,
     supVars, State, Observing, Terminal, Unresolved, RequestPowerCancellation
<1>3. CASE McpAuthority(a)
  BY <1>3, <1>0, WriteIsCalm, CalmKeepsSeal, CalmKeepsAlone DEF McpAuthority, recVars,
     supVars
<1>4. CASE CancelDirect(a)
  BY <1>4, <1>0, WriteIsCalm, CalmKeepsSeal, CalmKeepsAlone DEF CancelDirect, recVars,
     supVars, State, Observing, Terminal, Unresolved
<1>. QED
  BY <1>1, <1>2, <1>3, <1>4 DEF Canceller

\* ... and the workers' steps only settle.
LEMMA WorkerStateInv ==
    ASSUME TypeOK, SealInv, AloneInv, NEW a \in Actor, Worker(a) \/ WorkerCrash(a)
    PROVE  SealInv' /\ AloneInv'
<1>0. Target[a] \in Job
  BY PowerAssumption
<1>1. CASE WorkerLock(a)
  BY <1>1, <1>0, WriteIsCalm, CalmKeepsSeal, CalmKeepsAlone DEF WorkerLock, recVars,
     supVars, State, Observing, Terminal, Unresolved
<1>2. CASE WorkerRetry(a)
  BY <1>2, <1>0, WriteIsCalm, CalmKeepsSeal, CalmKeepsAlone DEF WorkerRetry, recVars,
     supVars
<1>3. CASE CliLock(a)
  BY <1>3, <1>0, WriteIsCalm, CalmKeepsSeal, CalmKeepsAlone DEF CliLock, recVars, supVars
<1>4. CASE WorkerLoad(a)
  BY <1>4, <1>0, WriteIsCalm, CalmKeepsSeal, CalmKeepsAlone DEF WorkerLoad, recVars,
     supVars
<1>5. CASE WorkerFence(a)
  BY <1>5, <1>0, WriteIsCalm, CalmKeepsSeal, CalmKeepsAlone DEF WorkerFence, recVars,
     supVars, State, Observing, Terminal, Unresolved
<1>6. CASE WorkerSettle(a)
  BY <1>6, <1>0, WriteIsCalm, CalmKeepsSeal, CalmKeepsAlone DEF WorkerSettle, recVars,
     supVars
<1>7. CASE WorkerNoAction(a)
  BY <1>7, <1>0, WriteIsCalm, CalmKeepsSeal, CalmKeepsAlone DEF WorkerNoAction, recVars,
     supVars
<1>8. CASE WorkerCancel(a)
  BY <1>8, <1>0, WriteIsCalm, CalmKeepsSeal, CalmKeepsAlone DEF WorkerCancel, recVars,
     supVars
<1>9. CASE WorkerResolve(a)
  BY <1>9, <1>0, WriteIsCalm, CalmKeepsSeal, CalmKeepsAlone DEF WorkerResolve, recVars,
     supVars
<1>10. CASE WorkerUnconfirmed(a)
  BY <1>10, <1>0, WriteIsCalm, CalmKeepsSeal, CalmKeepsAlone DEF WorkerUnconfirmed,
     recVars, supVars, State, Observing, Terminal, Unresolved
<1>11. CASE WorkerPersist(a)
  BY <1>11, <1>0, WriteIsCalm, CalmKeepsSeal, CalmKeepsAlone DEF WorkerPersist, recVars,
     supVars, State, Observing, Terminal, Unresolved
<1>12. CASE WorkerComplete(a)
  BY <1>12, <1>0, WriteIsCalm, CalmKeepsSeal, CalmKeepsAlone DEF WorkerComplete, recVars,
     supVars
<1>13. CASE WorkerCrash(a)
  BY <1>13, <1>0, WriteIsCalm, CalmKeepsSeal, CalmKeepsAlone DEF WorkerCrash, recVars,
     supVars
<1>. QED
  BY <1>1, <1>2, <1>3, <1>4, <1>5, <1>6, <1>7, <1>8, <1>9, <1>10, <1>11, <1>12, <1>13 DEF
     Worker

IInv == TypeOK /\ LockInv /\ CallInv /\ SealInv /\ AloneInv

\* The invariant holds at first, ...
LEMMA Initially == Init => IInv
<1>. SUFFICES ASSUME Init PROVE LockInv /\ CallInv /\ SealInv /\ AloneInv
  BY TypeCorrectInit DEF IInv
<1>1. LockInv
  BY DEF Init, LockInv, Holding, Settling
<1>2. CallInv /\ SealInv
  BY DEF Init, CallInv, SealInv
<1>3. AloneInv
  BY DEF Init, AloneInv, OneUnresolved, HasUnresolvedPowerAction, Unresolved, Holding
<1>. QED
  BY <1>1, <1>2, <1>3

\* ... every step keeps it, ...
LEMMA Inductive == IInv /\ [Next]_vars => IInv'
<1>. SUFFICES ASSUME IInv, [Next]_vars PROVE LockInv' /\ CallInv' /\ SealInv' /\ AloneInv'
  BY TypeCorrectStep DEF IInv
<1>. USE DEF IInv
<1>1. CASE UNCHANGED vars
  <2>1. LockInv' /\ CallInv'
    BY <1>1 DEF vars, recVars, backVars, supVars, LockInv, CallInv
  <2>2. SealInv' /\ AloneInv'
    BY <1>1 DEF vars, jobVars, recVars, supVars, SealInv, AloneInv, OneUnresolved,
                HasUnresolvedPowerAction
  <2>. QED
    BY <2>1, <2>2
<1>2. ASSUME NEW j \in Job, Arm(j) \/ Supervisor(j) \/ SupCrash(j)
      PROVE  LockInv' /\ CallInv' /\ SealInv' /\ AloneInv'
  BY <1>2, SupervisorLockInv, SupervisorCallInv, SupervisorStateInv
<1>3. ASSUME NEW j \in Job, Backend(j)
      PROVE  LockInv' /\ CallInv' /\ SealInv' /\ AloneInv'
  <2>1. UNCHANGED <<jobVars, recVars, lock, supVars, wpc>>
    BY <1>3 DEF Backend, Deadline, Fire, LateSchedule
  <2>2. LockInv' /\ SealInv'
    BY <2>1 DEF jobVars, recVars, supVars, LockInv, SealInv
  <2>3. AloneInv'
    BY <2>1 DEF jobVars, supVars, AloneInv, OneUnresolved, HasUnresolvedPowerAction
  <2>. QED
    BY <1>3, <2>2, <2>3, BackendCallInv
<1>4. ASSUME NEW h \in Hook, HookHandler(h) \/ HookCrash(h)
      PROVE  LockInv' /\ CallInv' /\ SealInv' /\ AloneInv'
  BY <1>4, HookLockInv, HookCallInv, HookStateInv
<1>5. ASSUME NEW a \in Cli \cup Mcp, Canceller(a)
      PROVE  LockInv' /\ CallInv' /\ SealInv' /\ AloneInv'
  BY <1>5, CancellerLockInv, CancellerCallInv, CancellerStateInv
<1>6. ASSUME NEW a \in Actor, Worker(a) \/ WorkerCrash(a)
      PROVE  LockInv' /\ CallInv' /\ SealInv' /\ AloneInv'
  BY <1>6, WorkerLockInv, WorkerCallInv, WorkerStateInv
<1>. QED
  BY <1>1, <1>2, <1>3, <1>4, <1>5, <1>6 DEF Next

\* ... and so it always holds.
LEMMA Invariant == Spec => []IInv
BY Initially, Inductive, PTL DEF Spec

\* Mutual exclusion under the machine power lock: two supervisors are never both
\* between PowerLock.Acquire and Release, and no worker settles meanwhile.
THEOREM LockDiscipline == Spec => []LockInv
BY Invariant, PTL DEF IInv

\* The no-retry boundary of supervisor.schedule, for any number of supervisors,
\* hooks, workers and cancel commands, and any crashes and failures: the backend
\* is asked at most once per job, with the call start on record.
THEOREM AtMostOneCall == Spec => []NoRetry
<1>1. IInv => NoRetry
  BY DEF IInv, CallInv, NoRetry
<1>. QED
  BY <1>1, Invariant, PTL

\* A no_action resolution by whoever settles the job (abortIntentBeforeSchedule,
\* settlePluginPowerLocked) is never followed by a backend call.
THEOREM NoActionIsFinal == Spec => []NoActionMeansNoCall
<1>1. IInv => NoActionMeansNoCall
  BY DEF IInv, TypeOK, BackendType, CallInv, NoActionMeansNoCall
<1>. QED
  BY <1>1, Invariant, PTL

\* A job published as ACTION_SCHEDULED has its call start and its sealed receipt.
THEOREM ScheduledHasReceipt == Spec => []ScheduledIsSealed
<1>1. IInv => ScheduledIsSealed
  BY DEF IInv, SealInv, ScheduledIsSealed
<1>. QED
  BY <1>1, Invariant, PTL

\* "Real power jobs are serialized with a machine-level lock": the lock and the
\* inventory leave at most one job with an unresolved action.
THEOREM PowerSerialized == Spec => []OneUnresolved
<1>1. IInv => OneUnresolved
  BY DEF IInv, AloneInv
<1>. QED
  BY <1>1, Invariant, PTL
=============================================================================
