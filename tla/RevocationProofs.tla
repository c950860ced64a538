-------------------------- MODULE RevocationProofs --------------------------
(***************************************************************************)
(* What a cancellation and a revocation are worth in PluginPower, for any  *)
(* jobs and hooks: a resolution and CANCELLED mean that nothing is counting *)
(* down, and the marker of a continuation is neither lost nor ignored.     *)
(* Each theorem names the faults or the commands it has to do without.     *)
(***************************************************************************)
EXTENDS PluginPowerProofs

-----------------------------------------------------------------------------
(* Resolutions.  Without a late answer the countdown of a job starts in the *)
(* one call of its supervisor, and whoever is about to write or to act on  *)
(* a resolution has seen it stopped.                                       *)

Stopping == {"cancel_resolve", "cancelled", "rollback_resolve", "rolled_back"}

InertJob(j) ==
    /\ ~queued[j]
    /\ calls[j] = 0 => timer[j] = "off"
    /\ spc[j] = "backend" => res[j] = "none"
    /\ res[j] # "none" => timer[j] # "armed"
    /\ spc[j] \in Stopping => timer[j] # "armed"

InertInv ==
    /\ \A j \in Job : InertJob(j)
    /\ \A a \in Actor : wpc[a] \in {"resolve", "persist"} => timer[Target[a]] # "armed"

\* Who starts nothing, resolves nothing and does not claim to have stopped
\* anything keeps InertInv, ...
LEMMA SupervisorKeepsInert ==
    ASSUME TypeOK, InertInv, NEW j \in Job, NEW pc, Goto(j, pc),
           pc \notin Stopping \cup {"backend"},
           UNCHANGED <<timer, queued, calls, res, wpc>>
    PROVE  InertInv'
BY DEF TypeOK, SupType, InertInv, InertJob, Goto

\* ... so does who only stops a countdown, ...
LEMMA CancelKeepsInert ==
    ASSUME TypeOK, InertInv, NEW j \in Job, CancelConfirmed(j) \/ CancelUnconfirmed(j),
           UNCHANGED <<res, wpc>>, NEW pc, Goto(j, pc), pc # "backend",
           pc \in Stopping => CancelConfirmed(j)
    PROVE  InertInv'
<1>1. /\ \A k \in Job : timer'[k] = timer[k] \/ timer'[k] = "off"
      /\ pc \in Stopping => timer'[j] # "armed"
      /\ UNCHANGED <<queued, calls, res, wpc>>
  BY DEF TypeOK, BackendType, CancelConfirmed, CancelUnconfirmed
<1>2. \A k \in Job : spc'[k] = IF k = j THEN pc ELSE spc[k]
  BY DEF TypeOK, SupType, Goto
<1>3. \A k \in Job : InertJob(k)'
  BY <1>1, <1>2 DEF InertInv, InertJob
<1>4. \A a \in Actor : wpc'[a] \in {"resolve", "persist"} => timer'[Target[a]] # "armed"
  BY <1>1, PowerAssumption DEF InertInv
<1>. QED
  BY <1>3, <1>4 DEF InertInv

\* ... and who writes a resolution once the countdown is stopped.
LEMMA ResolveKeepsInert ==
    ASSUME TypeOK, InertInv, NEW j \in Job, ResolveCancelled(j) \/ ResolveNoAction(j),
           res'[j] # "none" => timer[j] # "armed",
           UNCHANGED <<timer, queued, calls, wpc>>, NEW pc, Goto(j, pc),
           pc # "backend", pc \in Stopping => spc[j] \in Stopping
    PROVE  InertInv'
<1>1. \A k \in Job \ {j} : res'[k] = res[k]
  BY DEF TypeOK, RecordType, ResolveCancelled, ResolveNoAction
<1>2. \A k \in Job : spc'[k] = IF k = j THEN pc ELSE spc[k]
  BY DEF TypeOK, SupType, Goto
<1>. QED
  BY <1>1, <1>2 DEF InertInv, InertJob

\* The supervisor's steps.  The call itself finds no resolution, and the machine
\* lock keeps everybody else from acting on one.
LEMMA SupervisorInert ==
    ASSUME "late_schedule" \notin Faults, TypeOK, LockInv, CallInv, InertInv,
           NEW j \in Job, Arm(j) \/ Supervisor(j) \/ SupCrash(j)
    PROVE  InertInv'
<1>1. CASE Arm(j)
  BY <1>1, SupervisorKeepsInert DEF Arm, LeaveSchedule, Stopping, recVars, backVars
<1>2. CASE SupRun(j)
  BY <1>2, SupervisorKeepsInert DEF SupRun, LeaveSchedule, Stopping, recVars, backVars
<1>3. CASE SupFail(j)
  BY <1>3, SupervisorKeepsInert DEF SupFail, LeaveSchedule, Stopping, recVars, backVars
<1>4. CASE SupLock(j)
  BY <1>4, SupervisorKeepsInert DEF SupLock, LeaveSchedule, Stopping, recVars, backVars
<1>5. CASE SupInventory(j)
  BY <1>5, SupervisorKeepsInert DEF SupInventory, LeaveSchedule, Stopping, recVars, backVars
<1>6. CASE SupLoad(j)
  BY <1>6, SupervisorKeepsInert DEF SupLoad, LeaveSchedule, Stopping, recVars, backVars
<1>7. CASE SupCheck1(j)
  BY <1>7, SupervisorKeepsInert DEF SupCheck1, LeaveSchedule, Stopping, recVars, backVars
<1>8. CASE SupCheck2(j)
  BY <1>8, SupervisorKeepsInert DEF SupCheck2, LeaveSchedule, Stopping, recVars, backVars
<1>9. CASE SupEnvelope(j)
  BY <1>9, SupervisorKeepsInert DEF SupEnvelope, LeaveSchedule, Stopping, recVars, backVars
<1>10. CASE SupIntent(j)
  BY <1>10, SupervisorKeepsInert DEF SupIntent, LeaveSchedule, Stopping, recVars, backVars
<1>11. CASE SupCheck3(j)
  BY <1>11, SupervisorKeepsInert DEF SupCheck3, LeaveSchedule, Stopping, recVars, backVars
<1>12. CASE SupAbort(j)
  <2>1. res'[j] # "none" => timer[j] # "armed"
    BY <1>12 DEF TypeOK, RecordType, CallInv, InertInv, InertJob, SupAbort, ResolveNoAction
  <2>. QED
    BY <1>12, <2>1, ResolveKeepsInert DEF SupAbort, LeaveSchedule, Stopping, backVars
<1>13. CASE SupAborted(j)
  BY <1>13, SupervisorKeepsInert DEF SupAborted, LeaveSchedule, Stopping, recVars, backVars
<1>14. CASE SupCall(j)
  BY <1>14, SupervisorKeepsInert DEF SupCall, LeaveSchedule, Stopping, recVars, backVars
<1>15. CASE SupCallWrite(j)
  BY <1>15 DEF TypeOK, SupType, RecordType, CallInv, InertInv, InertJob, Stopping,
     SupCallWrite, Goto, backVars
<1>16. CASE SupSchedule(j)
  <2>1. calls[j] = 0 /\ res[j] = "none" /\ \A a \in Actor : wpc[a] \notin Settling
    BY <1>16, Excluded DEF CallInv, InertInv, InertJob, SupSchedule, Holding
  <2>. QED
    BY <1>16, <2>1 DEF TypeOK, SupType, BackendType, InertInv, InertJob, Stopping,
       Settling, SupSchedule, ScheduleAccepted, ScheduleOutcomeUnknown, Fault, Goto, recVars
<1>17. CASE SupUnknown(j)
  BY <1>17, SupervisorKeepsInert DEF SupUnknown, LeaveSchedule, Stopping, recVars, backVars
<1>18. CASE SupSeal(j)
  BY <1>18, SupervisorKeepsInert DEF SupSeal, LeaveSchedule, Stopping, recVars, backVars
<1>19. CASE SupCheck4(j)
  BY <1>19, SupervisorKeepsInert DEF SupCheck4, LeaveSchedule, Stopping, recVars, backVars
<1>20. CASE SupCommit(j)
  BY <1>20, SupervisorKeepsInert DEF SupCommit, LeaveSchedule, Stopping, recVars, backVars
<1>21. CASE SupCancel(j)
  BY <1>21, CancelKeepsInert DEF SupCancel, Stopping, recVars
<1>22. CASE SupCancelResolve(j)
  BY <1>22, ResolveKeepsInert DEF SupCancelResolve, InertInv, InertJob, Stopping, backVars
<1>23. CASE SupCancelled(j)
  BY <1>23, SupervisorKeepsInert DEF SupCancelled, LeaveSchedule, Stopping, recVars,
     backVars
<1>24. CASE SupCancelFailed(j)
  BY <1>24, SupervisorKeepsInert DEF SupCancelFailed, LeaveSchedule, Stopping, recVars,
     backVars
<1>25. CASE SupRollback(j)
  BY <1>25, CancelKeepsInert DEF SupRollback, Stopping, recVars
<1>26. CASE SupRollbackResolve(j)
  BY <1>26, ResolveKeepsInert DEF SupRollbackResolve, InertInv, InertJob, Stopping, backVars
<1>27. CASE SupRolledBack(j)
  BY <1>27, SupervisorKeepsInert DEF SupRolledBack, LeaveSchedule, Stopping, recVars,
     backVars
<1>28. CASE SupMonitor(j)
  BY <1>28, SupervisorKeepsInert DEF SupMonitor, LeaveSchedule, Stopping, recVars, backVars
<1>29. CASE SupWatch(j)
  BY <1>29, SupervisorKeepsInert DEF SupWatch, LeaveSchedule, Stopping, recVars, backVars
<1>30. CASE SupCrash(j)
  BY <1>30, SupervisorKeepsInert DEF SupCrash, LeaveSchedule, Stopping, recVars, backVars
<1>. QED
  BY <1>1, <1>2, <1>3, <1>4, <1>5, <1>6, <1>7, <1>8, <1>9, <1>10, <1>11, <1>12, <1>13,
     <1>14, <1>15, <1>16, <1>17, <1>18, <1>19, <1>20, <1>21, <1>22, <1>23, <1>24, <1>25,
     <1>26, <1>27, <1>28, <1>29, <1>30 DEF Supervisor

\* The backend only ends a countdown, hooks and commands touch neither it nor the
\* resolutions, ...
LEMMA BackendInert ==
    ASSUME TypeOK, InertInv, NEW j \in Job, Backend(j)
    PROVE  InertInv'
<1>1. ~LateSchedule(j)
  BY DEF InertInv, InertJob, LateSchedule
<1>2. /\ \A k \in Job : timer'[k] # timer[k] => timer[k] = "armed" /\ timer'[k] = "fired"
      /\ UNCHANGED <<queued, calls, res, spc, wpc>>
  BY <1>1 DEF TypeOK, BackendType, Backend, Deadline, Fire, recVars, supVars
<1>3. \A k \in Job : InertJob(k)'
  BY <1>2 DEF InertInv, InertJob
<1>4. \A a \in Actor : wpc'[a] \in {"resolve", "persist"} => timer'[Target[a]] # "armed"
  BY <1>2, PowerAssumption DEF InertInv
<1>. QED
  BY <1>3, <1>4 DEF InertInv

LEMMA InvocationKeepsInert ==
    ASSUME TypeOK, InertInv, UNCHANGED <<timer, queued, calls, res, spc>>,
           NEW a \in Actor, NEW pc, UNCHANGED wpc \/ Work(a, pc),
           pc \in {"resolve", "persist"} => timer[Target[a]] # "armed"
    PROVE  InertInv'
<1>1. \A k \in Job : InertJob(k)'
  BY DEF InertInv, InertJob
<1>2. \A b \in Actor : wpc'[b] \in {"resolve", "persist"} => timer'[Target[b]] # "armed"
  BY DEF TypeOK, WorkerType, InertInv, Work
<1>. QED
  BY <1>1, <1>2 DEF InertInv

LEMMA HookInert ==
    ASSUME TypeOK, InertInv, NEW h \in Hook, HookHandler(h) \/ HookCrash(h)
    PROVE  InertInv'
<1>0. h \in Actor
  BY DEF Hook, Actor
<1>1. CASE HookCapture(h)
  BY <1>0, <1>1, InvocationKeepsInert DEF HookCapture, recVars, backVars, supVars
<1>2. CASE HookMarker(h)
  BY <1>0, <1>2, InvocationKeepsInert DEF HookMarker, recVars, backVars, supVars
<1>3. CASE HookUpdate(h)
  BY <1>0, <1>3, InvocationKeepsInert DEF HookUpdate, recVars, backVars, supVars
<1>4. CASE HookLaunch(h)
  BY <1>0, <1>4, InvocationKeepsInert DEF HookLaunch, Work, recVars, backVars, supVars
<1>5. CASE HookCleanup(h)
  BY <1>0, <1>5, InvocationKeepsInert DEF HookCleanup, recVars, backVars, supVars
<1>6. CASE HookCrash(h)
  BY <1>0, <1>6, InvocationKeepsInert DEF HookCrash, recVars, backVars, supVars
<1>. QED
  BY <1>1, <1>2, <1>3, <1>4, <1>5, <1>6 DEF HookHandler

LEMMA CancellerInert ==
    ASSUME TypeOK, InertInv, NEW a \in Cli \cup Mcp, Canceller(a)
    PROVE  InertInv'
<1>0. a \in Actor
  BY DEF Actor
<1>1. CASE CancelLoad(a)
  BY <1>0, <1>1, InvocationKeepsInert DEF CancelLoad, recVars, backVars, supVars
<1>2. CASE CancelRequest(a)
  BY <1>0, <1>2, InvocationKeepsInert DEF CancelRequest, Work, recVars, backVars, supVars
<1>3. CASE McpAuthority(a)
  BY <1>0, <1>3, InvocationKeepsInert DEF McpAuthority, Work, recVars, backVars, supVars
<1>4. CASE CancelDirect(a)
  BY <1>0, <1>4, InvocationKeepsInert DEF CancelDirect, recVars, backVars, supVars
<1>. QED
  BY <1>1, <1>2, <1>3, <1>4 DEF Canceller

\* ... and a worker resolves what it found resolved, never called, or stopped.
LEMMA WorkerInert ==
    ASSUME TypeOK, LockInv, CallInv, InertInv, NEW a \in Actor, Worker(a) \/ WorkerCrash(a)
    PROVE  InertInv'
<1>. DEFINE j == Target[a]
<1>0. /\ j \in Job /\ j = Target[a]
      /\ wpc[a] \in Settling => spc[j] # "backend"
  BY PowerAssumption, Excluded DEF Holding
<1>. HIDE DEF j
<1>1. ASSUME res'[j] # "none" => timer[j] # "armed",
             ResolveCancelled(j) \/ ResolveNoAction(j), wpc[a] \in Settling,
             UNCHANGED <<timer, queued, calls, spc>>, NEW pc, Work(a, pc),
             pc = "persist" => timer[j] # "armed", pc # "resolve"
      PROVE  InertInv'
  <2>1. \A k \in Job \ {j} : res'[k] = res[k]
    BY <1>0, <1>1 DEF TypeOK, RecordType, ResolveCancelled, ResolveNoAction
  <2>2. \A k \in Job : InertJob(k)'
    BY <1>0, <1>1, <2>1 DEF InertInv, InertJob
  <2>3. \A b \in Actor : wpc'[b] \in {"resolve", "persist"} => timer'[Target[b]] # "armed"
    BY <1>0, <1>1 DEF TypeOK, WorkerType, InertInv, Work
  <2>. QED
    BY <2>2, <2>3 DEF InertInv
<1>2. CASE WorkerLock(a)
  BY <1>2, InvocationKeepsInert DEF WorkerLock, recVars, backVars, supVars
<1>3. CASE WorkerRetry(a)
  BY <1>3, InvocationKeepsInert DEF WorkerRetry, recVars, backVars, supVars
<1>4. CASE CliLock(a)
  BY <1>4, InvocationKeepsInert DEF CliLock, recVars, backVars, supVars
<1>5. CASE WorkerLoad(a)
  BY <1>5, InvocationKeepsInert DEF WorkerLoad, WorkDone, recVars, backVars, supVars
<1>6. CASE WorkerFence(a)
  BY <1>6, InvocationKeepsInert DEF WorkerFence, recVars, backVars, supVars
<1>7. CASE WorkerSettle(a)
  <2>1. res[j] # "none" => timer[j] # "armed"
    BY <1>0 DEF InertInv, InertJob
  <2>. QED
    BY <1>0, <1>7, <2>1, InvocationKeepsInert DEF WorkerSettle, recVars, backVars, supVars
<1>8. CASE WorkerNoAction(a)
  <2>1. /\ res[j] # "none" \/ ~call[j] => timer[j] # "armed"
        /\ res'[j] # "none" => res[j] # "none" \/ ~call[j]
    BY <1>0, <1>8 DEF TypeOK, RecordType, CallInv, InertInv, InertJob, WorkerNoAction,
       ResolveNoAction
  <2>. QED
    BY <1>0, <1>1, <1>8, <2>1 DEF WorkerNoAction, Settling, backVars, supVars
<1>9. CASE WorkerCancel(a)
  <2>1. /\ \A k \in Job : timer'[k] = timer[k] \/ timer'[k] = "off"
        /\ wpc'[a] \in {"resolve", "persist"} => timer'[j] # "armed"
        /\ UNCHANGED <<queued, calls, res, spc>>
        /\ \A b \in Actor \ {a} : wpc'[b] = wpc[b]
    BY <1>0, <1>9 DEF TypeOK, BackendType, WorkerType, WorkerCancel, CancelConfirmed,
       CancelUnconfirmed, Work, recVars, supVars
  <2>2. \A k \in Job : InertJob(k)'
    BY <2>1 DEF InertInv, InertJob
  <2>3. \A b \in Actor : wpc'[b] \in {"resolve", "persist"} => timer'[Target[b]] # "armed"
    BY <1>0, <2>1, PowerAssumption DEF InertInv
  <2>. QED
    BY <2>2, <2>3 DEF InertInv
<1>10. CASE WorkerResolve(a)
  <2>1. timer[j] # "armed"
    BY <1>0, <1>10 DEF InertInv, WorkerResolve
  <2>. QED
    BY <1>0, <1>1, <1>10, <2>1 DEF WorkerResolve, Settling, backVars, supVars
<1>11. CASE WorkerUnconfirmed(a)
  BY <1>11, InvocationKeepsInert DEF WorkerUnconfirmed, WorkDone, recVars, backVars, supVars
<1>12. CASE WorkerPersist(a)
  BY <1>12, InvocationKeepsInert DEF WorkerPersist, WorkDone, recVars, backVars, supVars
<1>13. CASE WorkerComplete(a)
  BY <1>13, InvocationKeepsInert DEF WorkerComplete, WorkDone, recVars, backVars, supVars
<1>14. CASE WorkerCrash(a)
  BY <1>14, InvocationKeepsInert DEF WorkerCrash, WorkDone, recVars, backVars, supVars
<1>. QED
  BY <1>2, <1>3, <1>4, <1>5, <1>6, <1>7, <1>8, <1>9, <1>10, <1>11, <1>12, <1>13, <1>14
     DEF Worker

LEMMA InertStep ==
    ASSUME "late_schedule" \notin Faults
    PROVE  IInv /\ InertInv /\ [Next]_vars => InertInv'
<1>. SUFFICES ASSUME IInv, InertInv, [Next]_vars PROVE InertInv'
  OBVIOUS
<1>0. TypeOK /\ LockInv /\ CallInv
  BY DEF IInv
<1>1. CASE UNCHANGED vars
  BY <1>1 DEF vars, recVars, backVars, supVars, InertInv, InertJob
<1>2. ASSUME NEW j \in Job, Arm(j) \/ Supervisor(j) \/ SupCrash(j) \/ Backend(j)
      PROVE  InertInv'
  BY <1>0, <1>2, SupervisorInert, BackendInert
<1>3. ASSUME NEW h \in Hook, HookHandler(h) \/ HookCrash(h)  PROVE InertInv'
  BY <1>0, <1>3, HookInert
<1>4. ASSUME NEW a \in Cli \cup Mcp, Canceller(a)  PROVE InertInv'
  BY <1>0, <1>4, CancellerInert
<1>5. ASSUME NEW a \in Actor, Worker(a) \/ WorkerCrash(a)  PROVE InertInv'
  BY <1>0, <1>5, WorkerInert
<1>. QED
  BY <1>1, <1>2, <1>3, <1>4, <1>5 DEF Next

LEMMA InertHolds ==
    ASSUME "late_schedule" \notin Faults
    PROVE  Spec => []InertInv
<1>1. Init => InertInv
  BY DEF Init, InertInv, InertJob, Stopping
<1>2. IInv /\ InertInv /\ [Next]_vars => InertInv'
  BY InertStep
<1>. QED
  BY <1>1, <1>2, Invariant, PTL DEF Spec

\* "RecoveryResolution is written only after positive evidence that the external
\* action is inert": while no answer comes late, a job with a resolution has no
\* countdown, whoever cancels, settles or dies.
THEOREM ResolutionIsInert ==
    ASSUME "late_schedule" \notin Faults
    PROVE  Spec => []ResolvedInert
<1>1. InertInv => ResolvedInert
  BY DEF InertInv, InertJob, ResolvedInert
<1>. QED
  BY <1>1, InertHolds, PTL

-----------------------------------------------------------------------------
(* Revocations, while nobody cancels from the command line or through MCP  *)
(* (either may close a job in the middle of its call, see CancelRace).     *)

Preparing == { "lock", "fail", "inventory", "load1", "check1", "load2", "check2",
               "envelope", "intent" }
Fresh == {"load3", "check3", "abort", "aborted", "call", "callwrite", "backend"}
Acting == Fresh \cup { "unknown", "seal", "load4", "check4", "commit", "rollback",
                       "rollback_resolve", "rolled_back", "rollback_failed" }

\* Before its intent a job has asked for nothing; from the intent until its
\* supervisor leaves schedule() it stays ACTION_INTENT; up to the call, not asked.
StageJob(j) ==
    /\ st[j] = "UNARMED" => spc[j] = "idle"
    /\ st[j] \in {"UNARMED"} \cup Observing => ~call[j] /\ calls[j] = 0 /\ early[j] = {}
    /\ spc[j] \in Preparing => st[j] \notin Unresolved
    /\ spc[j] \in Acting => st[j] = "ACTION_INTENT"
    /\ spc[j] \in Fresh => calls[j] = 0

\* What a supervisor has seen of the generation is not ahead of it.
SeenJob(j) == sgen[j] <= gen[j] /\ snap[j].gen <= gen[j]

\* The markers that were on disk at the intent are there at the last look.
Continuing(j) == early[j] \cap (Prompt \cup Stop)
MarkJob(j) ==
    Continuing(j) # {} =>
      /\ calls[j] = 0
      /\ spc[j] \in {"load3", "check3"} => Continuing(j) \subseteq pend[j]
      /\ spc[j] \notin {"call", "callwrite", "backend"}

JobInv == \A j \in Job : StageJob(j) /\ SeenJob(j) /\ MarkJob(j)

\* A hook about to drop the marker of a continuation knows its job closed, or
\* waiting with a generation that no supervisor past its checks has seen.
CleanHook(h) ==
    LET j == Target[h]
    IN apc[h] = "cleanup" /\ h \in pend[j] =>
         \/ st[j] \in Terminal
         \/ st[j] \in Observing /\ (spc[j] \in {"envelope", "intent"} => gen[j] # sgen[j])

\* Only jobs that were armed are invoked, and a worker clears the markers of a
\* job without an action.
Invoked(a) ==
    /\ apc[a] # "idle" \/ wpc[a] # "off" => st[Target[a]] # "UNARMED"
    /\ apc[a] \notin {"request", "authority", "direct"}
    /\ wpc[a] = "complete" => st[Target[a]] \notin Unresolved

CleanupInv == \A h \in Prompt \cup Stop : CleanHook(h)
InvokedInv == \A a \in Actor : Invoked(a)
RevocationInv == JobInv /\ CleanupInv /\ InvokedInv

\* A supervisor changes nothing of another job, no generation, no marker and
\* no invocation.
Elsewhere(j) ==
    \A k \in Job \ {j} :
      /\ st'[k] = st[k] /\ call'[k] = call[k] /\ calls'[k] = calls[k] /\ timer'[k] = timer[k]
      /\ early'[k] = early[k] /\ spc'[k] = spc[k] /\ sgen'[k] = sgen[k] /\ snap'[k] = snap[k]

LEMMA SupervisorElsewhere ==
    ASSUME TypeOK, NEW j \in Job, Arm(j) \/ Supervisor(j) \/ SupCrash(j)
    PROVE  Elsewhere(j) /\ UNCHANGED <<gen, pend, apc, wpc>>
<1>. USE DEF TypeOK, JobType, RecordType, MarkerType, BackendType, SupType, Elsewhere,
             WriteJob, Goto, LeaveSchedule, jobVars, recVars, backVars, supVars, actVars
<1>1. CASE Arm(j)
  BY <1>1 DEF Arm
<1>2. CASE SupRun(j)
  BY <1>2 DEF SupRun
<1>3. CASE SupFail(j)
  BY <1>3 DEF SupFail
<1>4. CASE SupLock(j)
  BY <1>4 DEF SupLock
<1>5. CASE SupInventory(j)
  BY <1>5 DEF SupInventory
<1>6. CASE SupLoad(j)
  BY <1>6 DEF SupLoad, LoadJob
<1>7. CASE SupCheck1(j)
  BY <1>7 DEF SupCheck1
<1>8. CASE SupCheck2(j)
  BY <1>8 DEF SupCheck2
<1>9. CASE SupEnvelope(j)
  BY <1>9 DEF SupEnvelope
<1>10. CASE SupIntent(j)
  BY <1>10 DEF SupIntent
<1>11. CASE SupCheck3(j)
  BY <1>11 DEF SupCheck3
<1>12. CASE SupAbort(j)
  BY <1>12 DEF SupAbort
<1>13. CASE SupAborted(j)
  BY <1>13 DEF SupAborted
<1>14. CASE SupCall(j)
  BY <1>14 DEF SupCall
<1>15. CASE SupCallWrite(j)
  BY <1>15 DEF SupCallWrite
<1>16. CASE SupSchedule(j)
  BY <1>16 DEF SupSchedule, ScheduleAccepted, ScheduleOutcomeUnknown
<1>17. CASE SupUnknown(j)
  BY <1>17 DEF SupUnknown
<1>18. CASE SupSeal(j)
  BY <1>18 DEF SupSeal
<1>19. CASE SupCheck4(j)
  BY <1>19 DEF SupCheck4
<1>20. CASE SupCommit(j)
  BY <1>20 DEF SupCommit
<1>21. CASE SupCancel(j)
  BY <1>21 DEF SupCancel, CancelConfirmed, CancelUnconfirmed
<1>22. CASE SupCancelResolve(j)
  BY <1>22 DEF SupCancelResolve
<1>23. CASE SupCancelled(j)
  BY <1>23 DEF SupCancelled
<1>24. CASE SupCancelFailed(j)
  BY <1>24 DEF SupCancelFailed
<1>25. CASE SupRollback(j)
  BY <1>25 DEF SupRollback, CancelConfirmed, CancelUnconfirmed
<1>26. CASE SupRollbackResolve(j)
  BY <1>26 DEF SupRollbackResolve
<1>27. CASE SupRolledBack(j)
  BY <1>27 DEF SupRolledBack
<1>28. CASE SupMonitor(j)
  BY <1>28 DEF SupMonitor, LoadJob
<1>29. CASE SupWatch(j)
  BY <1>29 DEF SupWatch
<1>30. CASE SupCrash(j)
  BY <1>30 DEF SupCrash
<1>. QED
  BY <1>1, <1>2, <1>3, <1>4, <1>5, <1>6, <1>7, <1>8, <1>9, <1>10, <1>11, <1>12, <1>13,
     <1>14, <1>15, <1>16, <1>17, <1>18, <1>19, <1>20, <1>21, <1>22, <1>23, <1>24, <1>25,
     <1>26, <1>27, <1>28, <1>29, <1>30 DEF Supervisor

\* The supervisor's steps.  The lock keeps the job where its supervisor left it ...
LEMMA SupervisorStage ==
    ASSUME TypeOK, NEW j \in Job, StageJob(j),
           Arm(j) \/ Supervisor(j) \/ SupCrash(j)
    PROVE  StageJob(j)'
<1>. USE DEF TypeOK, JobType, RecordType, MarkerType, BackendType, SupType, StageJob,
             WriteJob, Goto, LeaveSchedule, jobVars, recVars, backVars, supVars, actVars,
             Preparing, Fresh, Acting, State, Observing, Unresolved, Terminal,
             HasUnresolvedPowerAction, Live
<1>1. CASE Arm(j)
  BY <1>1 DEF Arm
<1>2. CASE SupRun(j)
  BY <1>2 DEF SupRun
<1>3. CASE SupFail(j)
  BY <1>3 DEF SupFail
<1>4. CASE SupLock(j)
  BY <1>4 DEF SupLock
<1>5. CASE SupInventory(j)
  BY <1>5 DEF SupInventory
<1>6. CASE SupLoad(j)
  BY <1>6 DEF SupLoad, LoadJob
<1>7. CASE SupCheck1(j)
  BY <1>7 DEF SupCheck1
<1>8. CASE SupCheck2(j)
  BY <1>8 DEF SupCheck2
<1>9. CASE SupEnvelope(j)
  BY <1>9 DEF SupEnvelope
<1>10. CASE SupIntent(j)
  BY <1>10 DEF SupIntent
<1>11. CASE SupCheck3(j)
  BY <1>11 DEF SupCheck3
<1>12. CASE SupAbort(j)
  BY <1>12 DEF SupAbort
<1>13. CASE SupAborted(j)
  BY <1>13 DEF SupAborted
<1>14. CASE SupCall(j)
  BY <1>14 DEF SupCall
<1>15. CASE SupCallWrite(j)
  BY <1>15 DEF SupCallWrite
<1>16. CASE SupSchedule(j)
  BY <1>16 DEF SupSchedule
<1>17. CASE SupUnknown(j)
  BY <1>17 DEF SupUnknown
<1>18. CASE SupSeal(j)
  BY <1>18 DEF SupSeal
<1>19. CASE SupCheck4(j)
  BY <1>19 DEF SupCheck4
<1>20. CASE SupCommit(j)
  BY <1>20 DEF SupCommit
<1>21. CASE SupCancel(j)
  BY <1>21 DEF SupCancel, CancelConfirmed, CancelUnconfirmed
<1>22. CASE SupCancelResolve(j)
  BY <1>22 DEF SupCancelResolve
<1>23. CASE SupCancelled(j)
  BY <1>23 DEF SupCancelled
<1>24. CASE SupCancelFailed(j)
  BY <1>24 DEF SupCancelFailed
<1>25. CASE SupRollback(j)
  BY <1>25 DEF SupRollback, CancelConfirmed, CancelUnconfirmed
<1>26. CASE SupRollbackResolve(j)
  BY <1>26 DEF SupRollbackResolve
<1>27. CASE SupRolledBack(j)
  BY <1>27 DEF SupRolledBack
<1>28. CASE SupMonitor(j)
  BY <1>28 DEF SupMonitor, LoadJob
<1>29. CASE SupWatch(j)
  BY <1>29 DEF SupWatch
<1>30. CASE SupCrash(j)
  BY <1>30 DEF SupCrash
<1>. QED
  BY <1>1, <1>2, <1>3, <1>4, <1>5, <1>6, <1>7, <1>8, <1>9, <1>10, <1>11, <1>12, <1>13,
     <1>14, <1>15, <1>16, <1>17, <1>18, <1>19, <1>20, <1>21, <1>22, <1>23, <1>24, <1>25,
     <1>26, <1>27, <1>28, <1>29, <1>30 DEF Supervisor

\* ... what it has seen of the generation is not ahead of it ...
LEMMA SupervisorSeen ==
    ASSUME TypeOK, NEW j \in Job, SeenJob(j), Arm(j) \/ Supervisor(j) \/ SupCrash(j)
    PROVE  SeenJob(j)'
<1>0. gen[j] \in Nat /\ sgen[j] \in Nat /\ snap[j].gen \in Nat
  BY DEF TypeOK, JobType, SupType
<1>1. UNCHANGED gen
  BY SupervisorElsewhere
<1>2. \/ UNCHANGED <<sgen, snap>>
      \/ sgen' = [sgen EXCEPT ![j] = snap[j].gen] /\ UNCHANGED snap
      \/ sgen' = [sgen EXCEPT ![j] = gen[j]] /\ UNCHANGED snap
      \/ LoadJob(j) /\ UNCHANGED sgen
  <2>. USE DEF supVars
  <2>1. CASE Arm(j)
    BY <2>1 DEF Arm
  <2>2. CASE SupRun(j)
    BY <2>2 DEF SupRun
  <2>3. CASE SupFail(j)
    BY <2>3 DEF SupFail
  <2>4. CASE SupLock(j)
    BY <2>4 DEF SupLock
  <2>5. CASE SupInventory(j)
    BY <2>5 DEF SupInventory
  <2>6. CASE SupLoad(j)
    BY <2>6 DEF SupLoad
  <2>7. CASE SupCheck1(j)
    BY <2>7 DEF SupCheck1
  <2>8. CASE SupCheck2(j)
    BY <2>8 DEF SupCheck2
  <2>9. CASE SupEnvelope(j)
    BY <2>9 DEF SupEnvelope
  <2>10. CASE SupIntent(j)
    BY <2>10 DEF SupIntent
  <2>11. CASE SupCheck3(j)
    BY <2>11 DEF SupCheck3
  <2>12. CASE SupAbort(j)
    BY <2>12 DEF SupAbort
  <2>13. CASE SupAborted(j)
    BY <2>13 DEF SupAborted
  <2>14. CASE SupCall(j)
    BY <2>14 DEF SupCall
  <2>15. CASE SupCallWrite(j)
    BY <2>15 DEF SupCallWrite
  <2>16. CASE SupSchedule(j)
    BY <2>16 DEF SupSchedule
  <2>17. CASE SupUnknown(j)
    BY <2>17 DEF SupUnknown
  <2>18. CASE SupSeal(j)
    BY <2>18 DEF SupSeal
  <2>19. CASE SupCheck4(j)
    BY <2>19 DEF SupCheck4
  <2>20. CASE SupCommit(j)
    BY <2>20 DEF SupCommit
  <2>21. CASE SupCancel(j)
    BY <2>21 DEF SupCancel
  <2>22. CASE SupCancelResolve(j)
    BY <2>22 DEF SupCancelResolve
  <2>23. CASE SupCancelled(j)
    BY <2>23 DEF SupCancelled
  <2>24. CASE SupCancelFailed(j)
    BY <2>24 DEF SupCancelFailed
  <2>25. CASE SupRollback(j)
    BY <2>25 DEF SupRollback
  <2>26. CASE SupRollbackResolve(j)
    BY <2>26 DEF SupRollbackResolve
  <2>27. CASE SupRolledBack(j)
    BY <2>27 DEF SupRolledBack
  <2>28. CASE SupMonitor(j)
    BY <2>28 DEF SupMonitor
  <2>29. CASE SupWatch(j)
    BY <2>29 DEF SupWatch
  <2>30. CASE SupCrash(j)
    BY <2>30 DEF SupCrash
  <2>. QED
    BY <2>1, <2>2, <2>3, <2>4, <2>5, <2>6, <2>7, <2>8, <2>9, <2>10, <2>11, <2>12, <2>13,
       <2>14, <2>15, <2>16, <2>17, <2>18, <2>19, <2>20, <2>21, <2>22, <2>23, <2>24, <2>25,
       <2>26, <2>27, <2>28, <2>29, <2>30 DEF Supervisor
<1>. QED
  BY <1>0, <1>1, <1>2 DEF TypeOK, SupType, SeenJob, LoadJob

\* ... and a job marked before its intent does not get past the last look.
LEMMA SupervisorMark ==
    ASSUME TypeOK, NEW j \in Job, StageJob(j), MarkJob(j),
           Arm(j) \/ Supervisor(j) \/ SupCrash(j)
    PROVE  MarkJob(j)'
<1>0. UNCHANGED pend
  BY SupervisorElsewhere
<1>. USE DEF TypeOK, MarkerType, BackendType, SupType, StageJob, MarkJob, Continuing,
             Goto, LeaveSchedule, backVars, supVars, Fresh
<1>1. CASE Arm(j)
  BY <1>0, <1>1 DEF Arm
<1>2. CASE SupRun(j)
  BY <1>0, <1>2 DEF SupRun
<1>3. CASE SupFail(j)
  BY <1>0, <1>3 DEF SupFail
<1>4. CASE SupLock(j)
  BY <1>0, <1>4 DEF SupLock
<1>5. CASE SupInventory(j)
  BY <1>0, <1>5 DEF SupInventory
<1>6. CASE SupLoad(j)
  BY <1>0, <1>6 DEF SupLoad
<1>7. CASE SupCheck1(j)
  BY <1>0, <1>7 DEF SupCheck1
<1>8. CASE SupCheck2(j)
  BY <1>0, <1>8 DEF SupCheck2
<1>9. CASE SupEnvelope(j)
  BY <1>0, <1>9 DEF SupEnvelope
<1>10. CASE SupIntent(j)
  <2>1. \/ calls[j] = 0 /\ early'[j] = pend[j] /\ spc'[j] = "load3"
        \/ UNCHANGED early /\ spc'[j] = "run"
    BY <1>10 DEF SupIntent, Observing
  <2>2. UNCHANGED calls
    BY <1>10 DEF SupIntent
  <2>. QED
    BY <1>0, <2>1, <2>2
<1>11. CASE SupCheck3(j)
  BY <1>0, <1>11 DEF SupCheck3, RevocationFree
<1>12. CASE SupAbort(j)
  BY <1>0, <1>12 DEF SupAbort
<1>13. CASE SupAborted(j)
  BY <1>0, <1>13 DEF SupAborted
<1>14. CASE SupCall(j)
  BY <1>0, <1>14 DEF SupCall
<1>15. CASE SupCallWrite(j)
  BY <1>0, <1>15 DEF SupCallWrite
<1>16. CASE SupSchedule(j)
  BY <1>0, <1>16 DEF SupSchedule
<1>17. CASE SupUnknown(j)
  BY <1>0, <1>17 DEF SupUnknown
<1>18. CASE SupSeal(j)
  BY <1>0, <1>18 DEF SupSeal
<1>19. CASE SupCheck4(j)
  BY <1>0, <1>19 DEF SupCheck4
<1>20. CASE SupCommit(j)
  BY <1>0, <1>20 DEF SupCommit
<1>21. CASE SupCancel(j)
  BY <1>0, <1>21 DEF SupCancel, CancelConfirmed, CancelUnconfirmed
<1>22. CASE SupCancelResolve(j)
  BY <1>0, <1>22 DEF SupCancelResolve
<1>23. CASE SupCancelled(j)
  BY <1>0, <1>23 DEF SupCancelled
<1>24. CASE SupCancelFailed(j)
  BY <1>0, <1>24 DEF SupCancelFailed
<1>25. CASE SupRollback(j)
  BY <1>0, <1>25 DEF SupRollback, CancelConfirmed, CancelUnconfirmed
<1>26. CASE SupRollbackResolve(j)
  BY <1>0, <1>26 DEF SupRollbackResolve
<1>27. CASE SupRolledBack(j)
  BY <1>0, <1>27 DEF SupRolledBack
<1>28. CASE SupMonitor(j)
  BY <1>0, <1>28 DEF SupMonitor
<1>29. CASE SupWatch(j)
  BY <1>0, <1>29 DEF SupWatch
<1>30. CASE SupCrash(j)
  BY <1>0, <1>30 DEF SupCrash
<1>. QED
  BY <1>1, <1>2, <1>3, <1>4, <1>5, <1>6, <1>7, <1>8, <1>9, <1>10, <1>11, <1>12, <1>13,
     <1>14, <1>15, <1>16, <1>17, <1>18, <1>19, <1>20, <1>21, <1>22, <1>23, <1>24, <1>25,
     <1>26, <1>27, <1>28, <1>29, <1>30 DEF Supervisor

\* The supervisor leaves what it may not know of to CleanupInv and InvokedInv.
LEMMA SupervisorCleanup ==
    ASSUME TypeOK, InvokedInv, CleanupInv, NEW j \in Job, StageJob(j), StageJob(j)',
           Arm(j) \/ Supervisor(j) \/ SupCrash(j)
    PROVE  CleanupInv'
<1>. SUFFICES ASSUME NEW h \in Prompt \cup Stop, apc'[h] = "cleanup", h \in pend'[Target[h]]
              PROVE  \/ st'[Target[h]] \in Terminal
                     \/ /\ st'[Target[h]] \in Observing
                        /\ spc'[Target[h]] \in {"envelope", "intent"}
                             => gen'[Target[h]] # sgen'[Target[h]]
  BY DEF CleanupInv, CleanHook
<1>1. Elsewhere(j) /\ UNCHANGED <<gen, pend, apc, wpc>>
  BY SupervisorElsewhere
<1>2. h \in Actor /\ Target[h] \in Job
  BY PowerAssumption DEF Actor, Hook
<1>3. /\ apc[h] = "cleanup" /\ h \in pend[Target[h]] /\ st[Target[h]] # "UNARMED"
      /\ \/ st[Target[h]] \in Terminal
         \/ /\ st[Target[h]] \in Observing
            /\ spc[Target[h]] \in {"envelope", "intent"} => gen[Target[h]] # sgen[Target[h]]
  BY <1>1, <1>2 DEF CleanupInv, CleanHook, InvokedInv, Invoked
<1>4. CASE Target[h] # j
  BY <1>1, <1>2, <1>3, <1>4 DEF Elsewhere
<1>. SUFFICES ASSUME Target[h] = j
              PROVE  st'[j] \in Terminal \/ (st'[j] \in Observing /\
                       (spc'[j] \in {"envelope", "intent"} => gen'[j] # sgen'[j]))
  BY <1>4
<1>5. pend[j] # {} /\ gen'[j] = gen[j]
  BY <1>1, <1>3
<1>. USE DEF TypeOK, JobType, SupType, StageJob, Goto, LeaveSchedule, WriteJob, jobVars,
             supVars, Preparing, Fresh, Acting, Observing, Unresolved, Terminal
<1>6. CASE Arm(j)
  BY <1>3, <1>5, <1>6 DEF Arm
<1>7. CASE SupRun(j)
  BY <1>3, <1>5, <1>7 DEF SupRun
<1>8. CASE SupFail(j)
  BY <1>3, <1>5, <1>8 DEF SupFail
<1>9. CASE SupLock(j)
  BY <1>3, <1>5, <1>9 DEF SupLock
<1>10. CASE SupInventory(j)
  BY <1>3, <1>5, <1>10 DEF SupInventory
<1>11. CASE SupLoad(j)
  BY <1>3, <1>5, <1>11 DEF SupLoad
<1>12. CASE SupCheck1(j)
  BY <1>3, <1>5, <1>12 DEF SupCheck1
<1>13. CASE SupCheck2(j)
  BY <1>3, <1>5, <1>13 DEF SupCheck2, RevocationFree
<1>14. CASE SupEnvelope(j)
  BY <1>3, <1>5, <1>14 DEF SupEnvelope
<1>15. CASE SupIntent(j)
  BY <1>3, <1>5, <1>15 DEF SupIntent
<1>16. CASE SupCheck3(j)
  BY <1>3, <1>5, <1>16 DEF SupCheck3
<1>17. CASE SupAbort(j)
  BY <1>3, <1>5, <1>17 DEF SupAbort
<1>18. CASE SupAborted(j)
  BY <1>3, <1>5, <1>18 DEF SupAborted
<1>19. CASE SupCall(j)
  BY <1>3, <1>5, <1>19 DEF SupCall
<1>20. CASE SupCallWrite(j)
  BY <1>3, <1>5, <1>20 DEF SupCallWrite
<1>21. CASE SupSchedule(j)
  BY <1>3, <1>5, <1>21 DEF SupSchedule
<1>22. CASE SupUnknown(j)
  BY <1>3, <1>5, <1>22 DEF SupUnknown
<1>23. CASE SupSeal(j)
  BY <1>3, <1>5, <1>23 DEF SupSeal
<1>24. CASE SupCheck4(j)
  BY <1>3, <1>5, <1>24 DEF SupCheck4
<1>25. CASE SupCommit(j)
  BY <1>3, <1>5, <1>25 DEF SupCommit
<1>26. CASE SupCancel(j)
  BY <1>3, <1>5, <1>26 DEF SupCancel
<1>27. CASE SupCancelResolve(j)
  BY <1>3, <1>5, <1>27 DEF SupCancelResolve
<1>28. CASE SupCancelled(j)
  BY <1>3, <1>5, <1>28 DEF SupCancelled, HasUnresolvedPowerAction
<1>29. CASE SupCancelFailed(j)
  BY <1>3, <1>5, <1>29 DEF SupCancelFailed, HasUnresolvedPowerAction
<1>30. CASE SupRollback(j)
  BY <1>3, <1>5, <1>30 DEF SupRollback
<1>31. CASE SupRollbackResolve(j)
  BY <1>3, <1>5, <1>31 DEF SupRollbackResolve
<1>32. CASE SupRolledBack(j)
  BY <1>3, <1>5, <1>32 DEF SupRolledBack
<1>33. CASE SupMonitor(j)
  BY <1>3, <1>5, <1>33 DEF SupMonitor
<1>34. CASE SupWatch(j)
  BY <1>3, <1>5, <1>34 DEF SupWatch
<1>35. CASE SupCrash(j)
  BY <1>3, <1>5, <1>35 DEF SupCrash
<1>. QED
  BY <1>6, <1>7, <1>8, <1>9, <1>10, <1>11, <1>12, <1>13, <1>14, <1>15, <1>16, <1>17,
     <1>18, <1>19, <1>20, <1>21, <1>22, <1>23, <1>24, <1>25, <1>26, <1>27, <1>28, <1>29,
     <1>30, <1>31, <1>32, <1>33, <1>34, <1>35 DEF Supervisor

LEMMA SupervisorInvoked ==
    ASSUME TypeOK, LockInv, InvokedInv, NEW j \in Job,
           Arm(j) \/ Supervisor(j) \/ SupCrash(j)
    PROVE  InvokedInv'
<1>1. Elsewhere(j) /\ UNCHANGED <<apc, wpc>>
  BY SupervisorElsewhere
<1>2. /\ st'[j] = "UNARMED" => st[j] = "UNARMED"
      /\ st'[j] \in Unresolved => st[j] \in Unresolved \/ spc[j] \in Holding
  <2>. USE DEF TypeOK, JobType, WriteJob, jobVars, State, Observing, Unresolved, Terminal,
               HasUnresolvedPowerAction, Holding
  <2>1. CASE Arm(j)
    BY <2>1 DEF Arm
  <2>2. CASE SupRun(j)
    BY <2>2 DEF SupRun
  <2>3. CASE SupFail(j)
    BY <2>3 DEF SupFail
  <2>4. CASE SupLock(j)
    BY <2>4 DEF SupLock
  <2>5. CASE SupInventory(j)
    BY <2>5 DEF SupInventory
  <2>6. CASE SupLoad(j)
    BY <2>6 DEF SupLoad
  <2>7. CASE SupCheck1(j)
    BY <2>7 DEF SupCheck1
  <2>8. CASE SupCheck2(j)
    BY <2>8 DEF SupCheck2
  <2>9. CASE SupEnvelope(j)
    BY <2>9 DEF SupEnvelope
  <2>10. CASE SupIntent(j)
    BY <2>10 DEF SupIntent
  <2>11. CASE SupCheck3(j)
    BY <2>11 DEF SupCheck3
  <2>12. CASE SupAbort(j)
    BY <2>12 DEF SupAbort
  <2>13. CASE SupAborted(j)
    BY <2>13 DEF SupAborted
  <2>14. CASE SupCall(j)
    BY <2>14 DEF SupCall
  <2>15. CASE SupCallWrite(j)
    BY <2>15 DEF SupCallWrite
  <2>16. CASE SupSchedule(j)
    BY <2>16 DEF SupSchedule
  <2>17. CASE SupUnknown(j)
    BY <2>17 DEF SupUnknown
  <2>18. CASE SupSeal(j)
    BY <2>18 DEF SupSeal
  <2>19. CASE SupCheck4(j)
    BY <2>19 DEF SupCheck4
  <2>20. CASE SupCommit(j)
    BY <2>20 DEF SupCommit
  <2>21. CASE SupCancel(j)
    BY <2>21 DEF SupCancel
  <2>22. CASE SupCancelResolve(j)
    BY <2>22 DEF SupCancelResolve
  <2>23. CASE SupCancelled(j)
    BY <2>23 DEF SupCancelled
  <2>24. CASE SupCancelFailed(j)
    BY <2>24 DEF SupCancelFailed
  <2>25. CASE SupRollback(j)
    BY <2>25 DEF SupRollback
  <2>26. CASE SupRollbackResolve(j)
    BY <2>26 DEF SupRollbackResolve
  <2>27. CASE SupRolledBack(j)
    BY <2>27 DEF SupRolledBack
  <2>28. CASE SupMonitor(j)
    BY <2>28 DEF SupMonitor
  <2>29. CASE SupWatch(j)
    BY <2>29 DEF SupWatch
  <2>30. CASE SupCrash(j)
    BY <2>30 DEF SupCrash
  <2>. QED
    BY <2>1, <2>2, <2>3, <2>4, <2>5, <2>6, <2>7, <2>8, <2>9, <2>10, <2>11, <2>12, <2>13,
       <2>14, <2>15, <2>16, <2>17, <2>18, <2>19, <2>20, <2>21, <2>22, <2>23, <2>24, <2>25,
       <2>26, <2>27, <2>28, <2>29, <2>30 DEF Supervisor
<1>3. ASSUME NEW a \in Actor  PROVE Invoked(a)'
  <2>1. Invoked(a) /\ Target[a] \in Job
    BY PowerAssumption DEF InvokedInv
  <2>2. wpc[a] = "complete" => spc[j] \notin Holding
    BY Excluded DEF Settling
  <2>. QED
    BY <1>1, <1>2, <2>1, <2>2 DEF Invoked, Elsewhere
<1>. QED
  BY <1>3 DEF InvokedInv

LEMMA SupervisorRevocation ==
    ASSUME TypeOK, LockInv, RevocationInv, NEW j \in Job,
           Arm(j) \/ Supervisor(j) \/ SupCrash(j)
    PROVE  RevocationInv'
<1>1. StageJob(j)' /\ SeenJob(j)' /\ MarkJob(j)'
  BY SupervisorStage, SupervisorSeen, SupervisorMark DEF RevocationInv, JobInv
<1>2. Elsewhere(j) /\ UNCHANGED <<gen, pend>>
  BY SupervisorElsewhere
<1>3. \A k \in Job \ {j} : StageJob(k)' /\ SeenJob(k)' /\ MarkJob(k)'
  BY <1>2 DEF RevocationInv, JobInv, Elsewhere, StageJob, SeenJob, MarkJob, Continuing
<1>4. CleanupInv' /\ InvokedInv'
  BY <1>1, SupervisorCleanup, SupervisorInvoked DEF RevocationInv, JobInv
<1>. QED
  BY <1>1, <1>3, <1>4 DEF RevocationInv, JobInv

\* Anybody else may note something in a job's file, or close the job unless
\* its supervisor is at work.
Outside(j) ==
    /\ UNCHANGED <<call, calls, early, spc, sgen, snap>>
    /\ \A k \in Job \ {j} : st'[k] = st[k] /\ gen'[k] = gen[k]
    /\ gen'[j] = gen[j] \/ gen'[j] = gen[j] + 1
    /\ \/ st'[j] = st[j]
       \/ st[j] \in Observing /\ st'[j] \in Observing \cup Terminal
       \/ st[j] \in Unresolved /\ st'[j] = "CANCELLED" /\ spc[j] \notin Holding

\* That keeps what is known of every job, while the markers a supervisor is about
\* to look at stay; and of every invocation that does not move.
LEMMA OutsideKeepsJob ==
    ASSUME TypeOK, JobInv, NEW j \in Job, Outside(j),
           \A k \in Job : spc[k] \in {"load3", "check3"} =>
                            pend[k] \cap (Prompt \cup Stop) \subseteq pend'[k]
    PROVE  JobInv'
<1>. SUFFICES ASSUME NEW k \in Job  PROVE StageJob(k)' /\ SeenJob(k)' /\ MarkJob(k)'
  BY DEF JobInv
<1>0. StageJob(k) /\ SeenJob(k) /\ MarkJob(k)
  BY DEF JobInv
<1>1. StageJob(k)'
  BY <1>0 DEF StageJob, Outside, Observing, Unresolved, Terminal, Preparing, Acting, Fresh,
     Holding
<1>2. SeenJob(k)'
  BY <1>0 DEF TypeOK, JobType, SupType, SeenJob, Outside
<1>3. MarkJob(k)'
  BY <1>0 DEF MarkJob, Continuing, Outside
<1>. QED
  BY <1>1, <1>2, <1>3

LEMMA OutsideKeepsHook ==
    ASSUME TypeOK, JobInv, CleanupInv, NEW j \in Job, Outside(j), NEW h \in Prompt \cup Stop,
           apc'[h] = apc[h], h \in pend'[Target[h]] => h \in pend[Target[h]]
    PROVE  CleanHook(h)'
<1>1. Target[h] \in Job
  BY PowerAssumption DEF Actor, Hook
<1>2. SeenJob(Target[h]) /\ CleanHook(h)
  BY <1>1 DEF JobInv, CleanupInv
<1>3. /\ gen[Target[h]] \in Nat /\ sgen[Target[h]] \in Nat
      /\ gen'[Target[h]] = gen[Target[h]] \/ gen'[Target[h]] = gen[Target[h]] + 1
      /\ UNCHANGED <<spc, sgen>>
  BY <1>1 DEF TypeOK, JobType, SupType, Outside
<1>4. \/ st'[Target[h]] = st[Target[h]]
      \/ st[Target[h]] \in Observing /\ st'[Target[h]] \in Observing \cup Terminal
      \/ st[Target[h]] \in Unresolved
  BY <1>1 DEF Outside
<1>. QED
  BY <1>2, <1>3, <1>4 DEF CleanHook, SeenJob, Observing, Unresolved, Terminal

LEMMA OutsideKeepsInvoked ==
    ASSUME InvokedInv, NEW j \in Job, Outside(j), NEW a \in Actor,
           apc'[a] = apc[a], wpc'[a] = wpc[a]
    PROVE  Invoked(a)'
<1>1. Target[a] \in Job
  BY PowerAssumption
<1>. QED
  BY <1>1 DEF InvokedInv, Invoked, Outside, Observing, Unresolved, Terminal

\* What the hooks and the workers write.
LEMMA WriteIsOutside ==
    ASSUME TypeOK, NEW j \in Job, UNCHANGED <<call, calls, early, supVars>>
    PROVE  /\ UNCHANGED jobVars => Outside(j)
           /\ \A c : \A bump \in BOOLEAN : WriteJob(j, st[j], bump, c) => Outside(j)
           /\ \A c : \A bump \in BOOLEAN : \A s \in Observing \cup Terminal :
                st[j] \in Observing /\ WriteJob(j, s, bump, c) => Outside(j)
           /\ spc[j] \notin Holding /\ st[j] \in Unresolved =>
                \A c : \A bump \in BOOLEAN : WriteJob(j, "CANCELLED", bump, c) => Outside(j)
BY DEF TypeOK, JobType, Outside, WriteJob, jobVars, supVars

LEMMA HookEffectIsOutside ==
    ASSUME TypeOK, NEW h \in Hook, HookEffect(h), UNCHANGED <<call, calls, early, supVars>>
    PROVE  /\ Outside(Target[h])
           /\ HasUnresolvedPowerAction(Target[h]) => st'[Target[h]] = st[Target[h]]
<1>. DEFINE j == Target[h]
<1>0. j \in Job
  BY PowerAssumption DEF Hook, Actor
<1>. HIDE DEF j
<1>. USE <1>0, WriteIsOutside DEF RequestPowerCancellation, HasUnresolvedPowerAction,
                                  Observing, Terminal
<1>1. PromptEffect(j) => Outside(j)
  BY DEF PromptEffect
<1>2. StopEffect(j) => Outside(j)
  <2>1. (j \in BarrierJob) \in BOOLEAN
    OBVIOUS
  <2>. QED
    BY <2>1 DEF StopEffect
<1>3. SessionEndEffect(j) => Outside(j)
  BY DEF SessionEndEffect
<1>4. st[j] \in Observing /\ (\E c : WriteJob(j, "REFUSED", TRUE, c)) => Outside(j)
  OBVIOUS
<1>5. Outside(j)
  BY <1>1, <1>2, <1>3, <1>4 DEF HookEffect, j
<1>6. HasUnresolvedPowerAction(j) => UNCHANGED jobVars \/ RequestPowerCancellation(j)
  BY DEF HookEffect, PromptEffect, StopEffect, SessionEndEffect, Live, Unresolved, j
<1>7. HasUnresolvedPowerAction(j) => st'[j] = st[j]
  BY <1>6 DEF TypeOK, JobType, WriteJob, jobVars
<1>. QED
  BY <1>5, <1>7 DEF j

\* A hook leaves the state of an unresolved action and the countdown alone.
LEMMA HookOutside ==
    ASSUME TypeOK, NEW h \in Hook, HookHandler(h) \/ HookCrash(h)
    PROVE  /\ Outside(Target[h]) /\ UNCHANGED timer
           /\ HasUnresolvedPowerAction(Target[h]) => st'[Target[h]] = st[Target[h]]
<1>. DEFINE j == Target[h]
<1>0. j \in Job /\ j = Target[h]
  BY PowerAssumption DEF Hook, Actor
<1>. HIDE DEF j
<1>1. UNCHANGED <<call, calls, early, supVars, timer>>
  BY DEF HookHandler, HookCapture, HookMarker, HookUpdate, HookLaunch, HookCleanup, HookCrash,
     recVars, backVars
<1>2. UNCHANGED jobVars => Outside(j) /\ st'[j] = st[j]
  BY <1>0, <1>1, WriteIsOutside DEF jobVars
<1>3. CASE HookUpdate(h)
  BY <1>0, <1>1, <1>2, <1>3, HookEffectIsOutside DEF HookUpdate
<1>4. CASE HookLaunch(h)
  <2>1. Outside(j)
    BY <1>0, <1>1, <1>4, WriteIsOutside DEF HookLaunch, RequestPowerCancellation, Terminal,
       HasUnresolvedPowerAction
  <2>2. HasUnresolvedPowerAction(j) => UNCHANGED jobVars \/ RequestPowerCancellation(j)
    BY <1>0, <1>4 DEF HookLaunch, HasUnresolvedPowerAction, Observing, Unresolved
  <2>3. HasUnresolvedPowerAction(j) => st'[j] = st[j]
    BY <1>0, <2>2 DEF TypeOK, JobType, RequestPowerCancellation, WriteJob, jobVars
  <2>. QED
    BY <1>0, <1>1, <2>1, <2>3
<1>5. CASE HookCapture(h) \/ HookMarker(h) \/ HookCleanup(h) \/ HookCrash(h)
  <2>1. UNCHANGED jobVars
    BY <1>5 DEF HookCapture, HookMarker, HookCleanup, HookCrash
  <2>. QED
    BY <1>0, <1>1, <1>2, <2>1
<1>. QED
  BY <1>3, <1>4, <1>5 DEF HookHandler

\* A hook that is about to drop its marker has just closed the job, or put a
\* barrier back to wait with a new generation.
LEMMA HookUpdateCleans ==
    ASSUME TypeOK, JobInv, InvokedInv, NEW h \in Prompt \cup Stop, HookUpdate(h)
    PROVE  CleanHook(h)'
<1>. DEFINE j == Target[h]
<1>0. /\ j \in Job /\ j = Target[h] /\ h \in Actor
      /\ h \in Stop => h \notin Prompt
      /\ h \notin SessionEnd
  BY PowerAssumption DEF Hook, Actor
<1>. HIDE DEF j
<1>. SUFFICES ASSUME apc'[h] = "cleanup"
              PROVE  \/ st'[j] \in Terminal
                     \/ st'[j] \in Observing /\ gen'[j] # sgen'[j]
  BY <1>0 DEF CleanHook
<1>1. HookEffect(h) /\ At(h, "update") /\ ~NeedsWorker(h, st'[j]) /\ need[h] = "yes"
  BY <1>0 DEF HookUpdate, Step, TypeOK, ActorType
<1>2. st'[j] \notin Unresolved /\ st[j] # "UNARMED" /\ st[j] \in State
  BY <1>0, <1>1 DEF NeedsWorker, At, TypeOK, JobType, InvokedInv, Invoked
<1>3. gen[j] \in Nat /\ sgen[j] \in Nat /\ sgen[j] <= gen[j] /\ UNCHANGED sgen
  BY <1>0 DEF JobInv, SeenJob, TypeOK, JobType, SupType, HookUpdate, supVars
<1>4. \A s, bump, c : WriteJob(j, s, bump, c) =>
        st'[j] = s /\ gen'[j] = IF bump THEN gen[j] + 1 ELSE gen[j]
  BY <1>0 DEF TypeOK, JobType, WriteJob
<1>5. UNCHANGED jobVars => st'[j] = st[j]
  BY DEF jobVars
<1>. USE DEF State, Observing, Unresolved, Terminal, Live, HasUnresolvedPowerAction,
             RequestPowerCancellation
<1>6. CASE PromptEffect(j)
  <2>1. CASE WriteJob(j, "ARMED", TRUE, creq[j])
    <3>1. st'[j] = "ARMED" /\ gen'[j] = gen[j] + 1
      BY <1>4, <2>1
    <3>2. gen'[j] # sgen'[j]
      BY <1>3, <3>1
    <3>. QED
      BY <3>1, <3>2
  <2>2. CASE WriteJob(j, "CANCELLED", TRUE, TRUE)
    BY <1>4, <2>2
  <2>3. CASE ~Live(j) /\ UNCHANGED jobVars
    BY <1>2, <1>5, <2>3
  <2>4. ~(HasUnresolvedPowerAction(j) /\ RequestPowerCancellation(j))
    BY <1>2, <1>4
  <2>. QED
    BY <1>6, <2>1, <2>2, <2>3, <2>4 DEF PromptEffect
<1>7. CASE st[j] \notin Observing /\ StopEffect(j)
  BY <1>2, <1>4, <1>5, <1>7 DEF StopEffect
<1>8. CASE \E c : WriteJob(j, "REFUSED", TRUE, c)
  BY <1>4, <1>8
<1>. QED
  BY <1>0, <1>1, <1>6, <1>7, <1>8 DEF HookEffect

\* The hooks' steps.  The marker of a continuation is on disk while it matters.
LEMMA HookRevocation ==
    ASSUME TypeOK, RevocationInv, NEW h \in Hook, HookHandler(h) \/ HookCrash(h)
    PROVE  RevocationInv'
<1>. DEFINE j == Target[h]
<1>0. j \in Job /\ h \in Actor /\ j = Target[h]
  BY PowerAssumption DEF Hook, Actor
<1>. HIDE DEF j
<1>. USE DEF RevocationInv
<1>1. Outside(j)
  BY <1>0, HookOutside
<1>2. ASSUME \A a \in Actor \ {h} : apc'[a] = apc[a] /\ wpc'[a] = wpc[a],
             \A k \in Job : spc[k] \in {"load3", "check3"} =>
                              pend[k] \cap (Prompt \cup Stop) \subseteq pend'[k],
             \A g \in Hook \ {h}, k \in Job : g \in pend'[k] => g \in pend[k],
             h \in Prompt \cup Stop => CleanHook(h)', Invoked(h)'
      PROVE  RevocationInv'
  <2>1. JobInv'
    BY <1>0, <1>1, <1>2, OutsideKeepsJob
  <2>2. \A g \in Prompt \cup Stop : g \in Hook /\ g \in Actor /\ Target[g] \in Job
    BY PowerAssumption DEF Hook, Actor
  <2>3. CleanupInv'
    BY <1>0, <1>1, <1>2, <2>2, OutsideKeepsHook DEF CleanupInv
  <2>4. InvokedInv'
    BY <1>0, <1>1, <1>2, OutsideKeepsInvoked DEF InvokedInv
  <2>. QED
    BY <2>1, <2>3, <2>4
<1>3. \A pc : Step(h, pc) => apc'[h] = pc /\ \A a \in Actor \ {h} : apc'[a] = apc[a]
  BY <1>0 DEF TypeOK, ActorType, Step
<1>4. Invoked(h)
  BY <1>0 DEF InvokedInv
<1>5. CASE HookCapture(h)
  <2>1. apc'[h] # "cleanup"
    BY <1>3, <1>5 DEF HookCapture
  <2>2. Invoked(h)'
    BY <1>0, <1>3, <1>4, <1>5 DEF HookCapture, Invoked, Live, jobVars
  <2>. QED
    BY <1>2, <1>3, <1>5, <2>1, <2>2 DEF HookCapture, CleanHook
<1>6. CASE HookMarker(h)
  <2>1. apc'[h] # "cleanup"
    BY <1>3, <1>6 DEF HookMarker
  <2>2. Invoked(h)'
    BY <1>0, <1>3, <1>4, <1>6 DEF HookMarker, At, Invoked, jobVars
  <2>3. \A k \in Job : pend[k] \subseteq pend'[k] /\ pend'[k] \subseteq pend[k] \cup {h}
    BY <1>0, <1>6 DEF HookMarker, TypeOK, MarkerType
  <2>. QED
    BY <1>2, <1>3, <1>6, <2>1, <2>2, <2>3 DEF HookMarker, CleanHook
<1>7. CASE HookUpdate(h)
  <2>1. Invoked(h)'
    <3>1. st'[j] # "UNARMED" /\ apc'[h] \in {"done", "launch", "cleanup"} /\ UNCHANGED wpc
      BY <1>0, <1>1, <1>3, <1>4, <1>7 DEF HookUpdate, At, Invoked, Outside, Observing,
         Terminal
    <3>2. st[j] \notin Unresolved => st'[j] \notin Unresolved
      BY <1>1 DEF Outside, Observing, Terminal, Unresolved
    <3>. QED
      BY <1>0, <1>4, <3>1, <3>2 DEF Invoked
  <2>2. h \in Prompt \cup Stop => CleanHook(h)'
    BY <1>7, HookUpdateCleans
  <2>3. UNCHANGED <<pend, wpc>> /\ \E pc : Step(h, pc)
    BY <1>7 DEF HookUpdate
  <2>. QED
    BY <1>2, <1>3, <2>1, <2>2, <2>3
<1>8. CASE HookLaunch(h)
  <2>1. /\ apc'[h] = "done" /\ wpc'[h] \in {wpc[h], "lock"} /\ UNCHANGED pend
        /\ \A a \in Actor \ {h} : apc'[a] = apc[a] /\ wpc'[a] = wpc[a]
    BY <1>0, <1>3, <1>8 DEF HookLaunch, TypeOK, WorkerType
  <2>2. Invoked(h)'
    BY <1>0, <1>1, <1>4, <1>8, <2>1 DEF HookLaunch, At, Invoked, Outside, Observing,
       Terminal, Unresolved
  <2>. QED
    BY <1>2, <2>1, <2>2 DEF CleanHook
<1>9. CASE HookCleanup(h)
  <2>1. apc'[h] = "done"
    BY <1>3, <1>9 DEF HookCleanup
  <2>2. Invoked(h)'
    BY <1>0, <1>4, <1>9, <2>1 DEF HookCleanup, At, Invoked, jobVars
  <2>3. \A k \in Job : pend'[k] = IF k = j THEN pend[k] \ {h} ELSE pend[k]
    BY <1>0, <1>9 DEF HookCleanup, TypeOK, MarkerType
  <2>4. spc[j] \in {"load3", "check3"} => h \notin pend[j] \cap (Prompt \cup Stop)
    <3>1. spc[j] \in {"load3", "check3"} => st[j] = "ACTION_INTENT"
      BY <1>0 DEF JobInv, StageJob, Acting, Fresh
    <3>. QED
      BY <1>0, <1>9, <3>1 DEF HookCleanup, At, CleanupInv, CleanHook, Observing, Terminal
  <2>. QED
    BY <1>2, <1>3, <1>9, <2>1, <2>2, <2>3, <2>4 DEF HookCleanup, CleanHook
<1>10. CASE HookCrash(h)
  <2>1. apc'[h] = "done"
    BY <1>3, <1>10 DEF HookCrash
  <2>2. Invoked(h)'
    BY <1>0, <1>4, <1>10, <2>1 DEF HookCrash, Invoked, jobVars
  <2>. QED
    BY <1>2, <1>3, <1>10, <2>1, <2>2 DEF HookCrash, CleanHook
<1>. QED
  BY <1>5, <1>6, <1>7, <1>8, <1>9, <1>10 DEF HookHandler

\* The backend's steps and the workers': the lock keeps a worker's settlement, and
\* the markers it clears, away from a supervisor at work.
LEMMA BackendRevocation ==
    ASSUME RevocationInv, NEW j \in Job, Backend(j)
    PROVE  RevocationInv'
<1>1. UNCHANGED <<st, gen, call, calls, early, pend, spc, sgen, snap, apc, wpc>>
  BY DEF Backend, Deadline, Fire, LateSchedule, jobVars, recVars, supVars, actVars
<1>. QED
  BY <1>1 DEF RevocationInv, JobInv, StageJob, SeenJob, MarkJob, Continuing, CleanupInv,
     CleanHook, InvokedInv, Invoked

\* A worker closes an unresolved action only at its last step, and stops countdowns.
LEMMA WorkerOutside ==
    ASSUME TypeOK, LockInv, NEW a \in Actor, Worker(a) \/ WorkerCrash(a)
    PROVE  /\ Outside(Target[a])
           /\ \A k \in Job : timer'[k] = timer[k] \/ timer'[k] = "off"
           /\ HasUnresolvedPowerAction(Target[a]) /\ wpc[a] # "persist"
                => st'[Target[a]] = st[Target[a]]
<1>. DEFINE j == Target[a]
<1>0. /\ j \in Job /\ j = Target[a] /\ st[j] \in State
      /\ wpc[a] \in Settling => spc[j] \notin Holding
  BY PowerAssumption, Excluded DEF TypeOK, JobType
<1>. HIDE DEF j
<1>1. /\ UNCHANGED <<call, calls, early, supVars>>
      /\ \A k \in Job : timer'[k] = timer[k] \/ timer'[k] = "off"
  <2>1. CASE WorkerCancel(a)
    BY <1>0, <2>1 DEF WorkerCancel, CancelConfirmed, CancelUnconfirmed, TypeOK, BackendType,
       recVars
  <2>2. CASE WorkerNoAction(a) \/ WorkerResolve(a)
    BY <2>2 DEF WorkerNoAction, WorkerResolve, backVars
  <2>3. CASE WorkerLock(a) \/ WorkerRetry(a) \/ CliLock(a) \/ WorkerLoad(a) \/ WorkerFence(a)
    BY <2>3 DEF WorkerLock, WorkerRetry, CliLock, WorkerLoad, WorkerFence, recVars, backVars
  <2>4. CASE WorkerSettle(a) \/ WorkerUnconfirmed(a) \/ WorkerPersist(a) \/ WorkerComplete(a)
             \/ WorkerCrash(a)
    BY <2>4 DEF WorkerSettle, WorkerUnconfirmed, WorkerPersist, WorkerComplete, WorkerCrash,
       recVars, backVars
  <2>. QED
    BY <2>1, <2>2, <2>3, <2>4 DEF Worker
<1>2. UNCHANGED jobVars => Outside(j) /\ st'[j] = st[j]
  BY <1>0, <1>1, WriteIsOutside DEF jobVars
<1>3. \A bump \in BOOLEAN : WriteJob(j, st[j], bump, TRUE) => Outside(j) /\ st'[j] = st[j]
  BY <1>0, <1>1, WriteIsOutside DEF WriteJob, TypeOK, JobType
<1>4. CASE WorkerLock(a) \/ WorkerUnconfirmed(a)
  BY <1>0, <1>1, <1>2, <1>3, <1>4 DEF WorkerLock, WorkerUnconfirmed
<1>5. CASE WorkerFence(a)
  <2>1. Outside(j)
    BY <1>0, <1>1, <1>5, WriteIsOutside DEF WorkerFence, Live, HasUnresolvedPowerAction,
       State,
       Terminal
  <2>. QED
    BY <1>0, <1>1, <1>5, <2>1 DEF WorkerFence
<1>6. CASE WorkerPersist(a)
  <2>1. spc[j] \notin Holding /\ wpc[a] = "persist"
    BY <1>0, <1>6 DEF WorkerPersist, Settling
  <2>2. Outside(j)
    BY <1>0, <1>1, <1>6, <2>1, WriteIsOutside DEF WorkerPersist, HasUnresolvedPowerAction
  <2>. QED
    BY <1>0, <1>1, <2>1, <2>2
<1>7. CASE \/ WorkerRetry(a) \/ CliLock(a) \/ WorkerLoad(a) \/ WorkerSettle(a)
           \/ WorkerNoAction(a) \/ WorkerCancel(a) \/ WorkerResolve(a) \/ WorkerComplete(a)
           \/ WorkerCrash(a)
  <2>1. UNCHANGED jobVars
    BY <1>7 DEF WorkerRetry, CliLock, WorkerLoad, WorkerSettle, WorkerNoAction,
       WorkerCancel,
       WorkerResolve, WorkerComplete, WorkerCrash
  <2>. QED
    BY <1>0, <1>1, <1>2, <2>1
<1>. QED
  BY <1>4, <1>5, <1>6, <1>7 DEF Worker

LEMMA WorkerRevocation ==
    ASSUME TypeOK, LockInv, RevocationInv, NEW a \in Actor, Worker(a) \/ WorkerCrash(a)
    PROVE  RevocationInv'
<1>. DEFINE j == Target[a]
<1>0. /\ j \in Job /\ j = Target[a] /\ Outside(j)
      /\ wpc[a] \in Settling => spc[j] \notin Holding
  BY PowerAssumption, Excluded, WorkerOutside
<1>. HIDE DEF j
<1>1. UNCHANGED apc /\ wpc[a] # "off" /\ \E pc : Work(a, pc)
  <2>. USE DEF actVars, WorkDone
  <2>1. CASE WorkerLock(a)
    BY <2>1 DEF WorkerLock
  <2>2. CASE WorkerRetry(a)
    BY <2>2 DEF WorkerRetry
  <2>3. CASE CliLock(a)
    BY <2>3 DEF CliLock
  <2>4. CASE WorkerLoad(a)
    BY <2>4 DEF WorkerLoad
  <2>5. CASE WorkerFence(a)
    BY <2>5 DEF WorkerFence
  <2>6. CASE WorkerSettle(a)
    BY <2>6 DEF WorkerSettle
  <2>7. CASE WorkerNoAction(a)
    BY <2>7 DEF WorkerNoAction
  <2>8. CASE WorkerCancel(a)
    BY <2>8 DEF WorkerCancel
  <2>9. CASE WorkerResolve(a)
    BY <2>9 DEF WorkerResolve
  <2>10. CASE WorkerUnconfirmed(a)
    BY <2>10 DEF WorkerUnconfirmed
  <2>11. CASE WorkerPersist(a)
    BY <2>11 DEF WorkerPersist
  <2>12. CASE WorkerComplete(a)
    BY <2>12 DEF WorkerComplete
  <2>13. CASE WorkerCrash(a)
    BY <2>13 DEF WorkerCrash
  <2>. QED
    BY <2>1, <2>2, <2>3, <2>4, <2>5, <2>6, <2>7, <2>8, <2>9, <2>10, <2>11, <2>12, <2>13
       DEF Worker
<1>2. \A k \in Job : pend'[k] = pend[k] \/ (pend'[k] = {} /\ spc[k] \notin Holding)
  <2>1. CASE WorkerComplete(a)
    BY <1>0, <2>1 DEF WorkerComplete, Settling, TypeOK, MarkerType
  <2>2. CASE ~WorkerComplete(a)
    <3>1. UNCHANGED pend
      BY <2>2 DEF Worker, WorkerLock, WorkerRetry, CliLock, WorkerLoad, WorkerFence,
         WorkerSettle, WorkerNoAction, WorkerCancel, WorkerResolve, WorkerUnconfirmed,
         WorkerPersist, WorkerCrash
    <3>. QED
      BY <3>1
  <2>. QED
    BY <2>1, <2>2
<1>3. ASSUME wpc'[a] = "complete"  PROVE st'[j] \notin Unresolved
  <2>1. WorkerFence(a) \/ WorkerPersist(a)
    <3>1. \A pc : Work(a, pc) => pc = "complete"
      BY <1>3 DEF TypeOK, WorkerType, Work
    <3>. QED
      BY <3>1 DEF Worker, WorkerLock, WorkerRetry, CliLock, WorkerLoad, WorkerSettle,
         WorkerNoAction, WorkerCancel, WorkerResolve, WorkerUnconfirmed, WorkerComplete,
         WorkerCrash, WorkDone
  <2>2. \A bump, c : WriteJob(j, "CANCELLED", bump, c) => st'[j] \notin Unresolved
    BY <1>0 DEF WriteJob, TypeOK, JobType, Unresolved
  <2>. QED
    BY <1>0, <2>1, <2>2 DEF WorkerFence, WorkerPersist, HasUnresolvedPowerAction, jobVars
<1>4. JobInv'
  BY <1>0, <1>2, OutsideKeepsJob DEF RevocationInv, Holding
<1>5. \A h \in Prompt \cup Stop : h \in Actor /\ Target[h] \in Job
  BY PowerAssumption DEF Hook, Actor
<1>6. CleanupInv'
  BY <1>0, <1>1, <1>2, <1>5, OutsideKeepsHook DEF RevocationInv, CleanupInv
<1>7. \A b \in Actor \ {a} : wpc'[b] = wpc[b]
  BY <1>1 DEF TypeOK, WorkerType, Work
<1>8. Invoked(a)'
  BY <1>0, <1>1, <1>3 DEF RevocationInv, InvokedInv, Invoked, Outside, Observing, Terminal
<1>9. InvokedInv'
  BY <1>0, <1>1, <1>7, <1>8, OutsideKeepsInvoked DEF RevocationInv, InvokedInv
<1>. QED
  BY <1>4, <1>6, <1>9 DEF RevocationInv

LEMMA RevocationStep ==
    ASSUME Cli \cup Mcp = {}
    PROVE  IInv /\ RevocationInv /\ [Next]_vars => RevocationInv'
<1>. SUFFICES ASSUME IInv, RevocationInv, [Next]_vars PROVE RevocationInv'
  OBVIOUS
<1>0. TypeOK /\ LockInv
  BY DEF IInv
<1>1. CASE UNCHANGED vars
  BY <1>1 DEF vars, jobVars, recVars, backVars, supVars, actVars, RevocationInv, JobInv,
     StageJob, SeenJob, MarkJob, Continuing, CleanupInv, CleanHook, InvokedInv, Invoked
<1>2. ASSUME NEW j \in Job, Arm(j) \/ Supervisor(j) \/ SupCrash(j) \/ Backend(j)
      PROVE  RevocationInv'
  BY <1>0, <1>2, SupervisorRevocation, BackendRevocation
<1>3. ASSUME NEW h \in Hook, HookHandler(h) \/ HookCrash(h)  PROVE RevocationInv'
  BY <1>0, <1>3, HookRevocation
<1>4. ASSUME NEW a \in Actor, Worker(a) \/ WorkerCrash(a)  PROVE RevocationInv'
  BY <1>0, <1>4, WorkerRevocation
<1>. QED
  BY <1>1, <1>2, <1>3, <1>4 DEF Next

LEMMA RevocationHolds ==
    ASSUME Cli \cup Mcp = {}
    PROVE  Spec => []RevocationInv
<1>1. Init => RevocationInv
  <2>. SUFFICES ASSUME Init PROVE RevocationInv
    OBVIOUS
  <2>1. ASSUME NEW j \in Job  PROVE StageJob(j) /\ SeenJob(j) /\ MarkJob(j)
    <3>1. StageJob(j) /\ MarkJob(j)
      BY DEF Init, StageJob, MarkJob, Continuing, Preparing, Acting, Fresh
    <3>2. SeenJob(j)
      BY DEF Init, NoSnap, SeenJob
    <3>. QED
      BY <3>1, <3>2
  <2>2. \A h \in Prompt \cup Stop : h \in Actor
    BY DEF Hook, Actor
  <2>3. CleanupInv
    BY <2>2 DEF Init, CleanupInv, CleanHook
  <2>4. ASSUME NEW a \in Actor  PROVE Invoked(a)
    BY PowerAssumption DEF Init, Invoked, Unresolved
  <2>. QED
    BY <2>1, <2>3, <2>4 DEF RevocationInv, JobInv, InvokedInv
<1>2. IInv /\ RevocationInv /\ [Next]_vars => RevocationInv'
  BY RevocationStep
<1>. QED
  BY <1>1, <1>2, Invariant, PTL DEF Spec

\* supervisor.schedule's last look: a continuation whose marker was on disk when
\* power.intent was written stops the backend call, whatever the hooks, the workers
\* and the supervisor's end make of it in between.
THEOREM MarkedJobsNeverCall ==
    ASSUME Cli \cup Mcp = {}
    PROVE  Spec => []MarkedBeforeIntentNeverCalls
<1>1. RevocationInv => MarkedBeforeIntentNeverCalls
  BY DEF RevocationInv, JobInv, MarkJob, Continuing, MarkedBeforeIntentNeverCalls
<1>. QED
  BY <1>1, RevocationHolds, PTL

-----------------------------------------------------------------------------
(* Countdowns.  With neither a late answer nor a cancel command a countdown *)
(* has its job unresolved: nobody closes the job of one that still runs.    *)

CountdownInv == \A j \in Job : timer[j] = "armed" => st[j] \in Unresolved

LEMMA SupervisorCountdown ==
    ASSUME "late_schedule" \notin Faults, TypeOK, InertInv, CountdownInv, NEW j \in Job,
           StageJob(j), Arm(j) \/ Supervisor(j) \/ SupCrash(j)
    PROVE  CountdownInv'
<1>1. Elsewhere(j)
  BY SupervisorElsewhere
<1>2. InertJob(j) /\ (timer[j] = "armed" => st[j] \in Unresolved)
  BY DEF InertInv, CountdownInv
<1>3. timer'[j] = "armed" => st'[j] \in Unresolved
  <2>. USE <1>2 DEF TypeOK, JobType, BackendType, SupType, StageJob, InertJob, WriteJob,
               jobVars, backVars, HasUnresolvedPowerAction, Preparing, Fresh, Acting,
               Stopping, Observing, Unresolved, Terminal
  <2>1. CASE Arm(j)
    BY <2>1 DEF Arm
  <2>2. CASE SupRun(j)
    BY <2>2 DEF SupRun
  <2>3. CASE SupFail(j)
    BY <2>3 DEF SupFail
  <2>4. CASE SupLock(j)
    BY <2>4 DEF SupLock
  <2>5. CASE SupInventory(j)
    BY <2>5 DEF SupInventory
  <2>6. CASE SupLoad(j)
    BY <2>6 DEF SupLoad
  <2>7. CASE SupCheck1(j)
    BY <2>7 DEF SupCheck1
  <2>8. CASE SupCheck2(j)
    BY <2>8 DEF SupCheck2
  <2>9. CASE SupEnvelope(j)
    BY <2>9 DEF SupEnvelope
  <2>10. CASE SupIntent(j)
    BY <2>10 DEF SupIntent
  <2>11. CASE SupCheck3(j)
    BY <2>11 DEF SupCheck3
  <2>12. CASE SupAbort(j)
    BY <2>12 DEF SupAbort
  <2>13. CASE SupAborted(j)
    BY <2>13 DEF SupAborted
  <2>14. CASE SupCall(j)
    BY <2>14 DEF SupCall
  <2>15. CASE SupCallWrite(j)
    BY <2>15 DEF SupCallWrite
  <2>16. CASE SupSchedule(j)
    BY <2>16 DEF SupSchedule
  <2>17. CASE SupUnknown(j)
    BY <2>17 DEF SupUnknown
  <2>18. CASE SupSeal(j)
    BY <2>18 DEF SupSeal
  <2>19. CASE SupCheck4(j)
    BY <2>19 DEF SupCheck4
  <2>20. CASE SupCommit(j)
    BY <2>20 DEF SupCommit
  <2>21. CASE SupCancel(j)
    BY <2>21 DEF SupCancel, CancelConfirmed, CancelUnconfirmed
  <2>22. CASE SupCancelResolve(j)
    BY <2>22 DEF SupCancelResolve
  <2>23. CASE SupCancelled(j)
    BY <2>23 DEF SupCancelled
  <2>24. CASE SupCancelFailed(j)
    BY <2>24 DEF SupCancelFailed
  <2>25. CASE SupRollback(j)
    BY <2>25 DEF SupRollback, CancelConfirmed, CancelUnconfirmed
  <2>26. CASE SupRollbackResolve(j)
    BY <2>26 DEF SupRollbackResolve
  <2>27. CASE SupRolledBack(j)
    BY <2>27 DEF SupRolledBack
  <2>28. CASE SupMonitor(j)
    BY <2>28 DEF SupMonitor
  <2>29. CASE SupWatch(j)
    BY <2>29 DEF SupWatch
  <2>30. CASE SupCrash(j)
    BY <2>30 DEF SupCrash
  <2>. QED
    BY <2>1, <2>2, <2>3, <2>4, <2>5, <2>6, <2>7, <2>8, <2>9, <2>10, <2>11, <2>12, <2>13,
       <2>14, <2>15, <2>16, <2>17, <2>18, <2>19, <2>20, <2>21, <2>22, <2>23, <2>24, <2>25,
       <2>26, <2>27, <2>28, <2>29, <2>30 DEF Supervisor
<1>. QED
  BY <1>1, <1>3 DEF CountdownInv, Elsewhere

LEMMA OutsideKeepsCountdown ==
    ASSUME CountdownInv, NEW j \in Job, Outside(j),
           \A k \in Job : timer'[k] = "armed" => timer[k] = "armed",
           st'[j] # st[j] /\ st[j] \in Unresolved => timer[j] # "armed"
    PROVE  CountdownInv'
BY DEF CountdownInv, Outside, Observing, Unresolved

LEMMA CountdownStep ==
    ASSUME "late_schedule" \notin Faults, Cli \cup Mcp = {}
    PROVE  IInv /\ InertInv /\ RevocationInv /\ CountdownInv /\ [Next]_vars => CountdownInv'
<1>. SUFFICES ASSUME IInv, InertInv, RevocationInv, CountdownInv, [Next]_vars
              PROVE  CountdownInv'
  OBVIOUS
<1>0. TypeOK /\ LockInv
  BY DEF IInv
<1>1. CASE UNCHANGED vars
  BY <1>1 DEF vars, jobVars, backVars, CountdownInv
<1>2. ASSUME NEW j \in Job, Arm(j) \/ Supervisor(j) \/ SupCrash(j)  PROVE CountdownInv'
  BY <1>0, <1>2, SupervisorCountdown DEF RevocationInv, JobInv
<1>3. ASSUME NEW j \in Job, Backend(j)  PROVE CountdownInv'
  <2>1. ~LateSchedule(j)
    BY DEF InertInv, InertJob, LateSchedule
  <2>2. UNCHANGED st /\ \A k \in Job : timer'[k] = "armed" => timer[k] = "armed"
    BY <1>0, <1>3, <2>1 DEF TypeOK, BackendType, Backend, Deadline, Fire, jobVars
  <2>. QED
    BY <2>2 DEF CountdownInv
<1>4. ASSUME NEW h \in Hook, HookHandler(h) \/ HookCrash(h)  PROVE CountdownInv'
  <2>1. Target[h] \in Job
    BY PowerAssumption DEF Hook, Actor
  <2>. QED
    BY <1>0, <1>4, <2>1, HookOutside, OutsideKeepsCountdown DEF HasUnresolvedPowerAction
<1>5. ASSUME NEW a \in Actor, Worker(a) \/ WorkerCrash(a)  PROVE CountdownInv'
  <2>1. Target[a] \in Job /\ (wpc[a] = "persist" => timer[Target[a]] # "armed")
    BY PowerAssumption DEF InertInv
  <2>. QED
    BY <1>0, <1>5, <2>1, WorkerOutside, OutsideKeepsCountdown DEF HasUnresolvedPowerAction
<1>. QED
  BY <1>1, <1>2, <1>3, <1>4, <1>5 DEF Next

LEMMA CountdownHolds ==
    ASSUME "late_schedule" \notin Faults, Cli \cup Mcp = {}
    PROVE  Spec => []CountdownInv
<1>1. Init => CountdownInv
  BY DEF Init, CountdownInv
<1>2. IInv /\ InertInv /\ RevocationInv /\ CountdownInv /\ [Next]_vars => CountdownInv'
  BY CountdownStep
<1>3. (Spec => []InertInv) /\ (Spec => []RevocationInv)
  BY InertHolds, RevocationHolds
<1>. QED
  BY <1>1, <1>2, <1>3, Invariant, PTL DEF Spec

\* "CANCELLED" shown by the hooks, the supervisor's abort or a worker means that
\* nothing is counting down: every one of them has asked the backend or has found
\* that it was never asked.
THEOREM CancelledIsInert ==
    ASSUME "late_schedule" \notin Faults, Cli \cup Mcp = {}
    PROVE  Spec => []CancelledInert
<1>1. CountdownInv => CancelledInert
  BY DEF CountdownInv, CancelledInert, Unresolved
<1>. QED
  BY <1>1, CountdownHolds, PTL

\* Who drops the marker of a continuation, the hook that wrote it or a worker, knows
\* that there is no action to revoke; every other step keeps it.
LEMMA DropStep ==
    ASSUME IInv, RevocationInv, CountdownInv, [Next]_vars, Cli \cup Mcp = {},
           NEW j \in Job, DropsMarker(j)
    PROVE  ~HasUnresolvedPowerAction(j) /\ timer[j] # "armed"
<1>. SUFFICES st[j] \notin Unresolved
  BY DEF CountdownInv, HasUnresolvedPowerAction
<1>0. TypeOK /\ MarkerType
  BY DEF IInv, TypeOK
<1>1. PICK g \in Prompt \cup Stop : g \in pend[j] /\ g \notin pend'[j]
  BY DEF DropsMarker
<1>2. ASSUME NEW h \in Hook, HookCleanup(h)  PROVE st[j] \notin Unresolved
  <2>1. Target[h] = j /\ g = h /\ apc[h] = "cleanup"
    BY <1>0, <1>1, <1>2 DEF HookCleanup, At, MarkerType
  <2>. QED
    BY <1>1, <2>1 DEF RevocationInv, CleanupInv, CleanHook, Observing, Unresolved, Terminal
<1>3. ASSUME NEW a \in Actor, WorkerComplete(a)  PROVE st[j] \notin Unresolved
  <2>1. Target[a] = j /\ wpc[a] = "complete"
    BY <1>0, <1>1, <1>3 DEF WorkerComplete, MarkerType
  <2>. QED
    BY <2>1 DEF RevocationInv, InvokedInv, Invoked
<1>4. ASSUME NEW k \in Job, Arm(k) \/ Supervisor(k) \/ SupCrash(k)  PROVE UNCHANGED pend
  BY <1>0, <1>4, SupervisorElsewhere
<1>5. ASSUME NEW k \in Job, Backend(k)  PROVE UNCHANGED pend
  BY <1>5 DEF Backend, Deadline, Fire, LateSchedule
<1>6. ASSUME NEW h \in Hook, HookHandler(h) \/ HookCrash(h), ~HookCleanup(h)
      PROVE  pend[j] \subseteq pend'[j]
  BY <1>0, <1>6 DEF HookHandler, HookCapture, HookMarker, HookUpdate, HookLaunch, HookCrash,
     MarkerType
<1>7. ASSUME NEW a \in Actor, Worker(a) \/ WorkerCrash(a), ~WorkerComplete(a)
      PROVE  UNCHANGED pend
  BY <1>7 DEF Worker, WorkerLock, WorkerRetry, CliLock, WorkerLoad, WorkerFence,
     WorkerSettle,
     WorkerNoAction, WorkerCancel, WorkerResolve, WorkerUnconfirmed, WorkerPersist, WorkerCrash
<1>8. ~UNCHANGED vars
  BY <1>1 DEF vars
<1>. QED
  BY <1>1, <1>2, <1>3, <1>4, <1>5, <1>6, <1>7, <1>8 DEF Next

\* observeRevocation and the cancel-only worker: while there is an unresolved action
\* or a countdown, the marker of a continuation stays on disk, so that whoever comes
\* after a process that died finds it.
THEOREM MarkersOutliveActions ==
    ASSUME "late_schedule" \notin Faults, Cli \cup Mcp = {}
    PROVE  Spec => MarkerOutlivesAction
<1>1. IInv /\ RevocationInv /\ CountdownInv /\ [Next]_vars
        => [\A j \in Job : DropsMarker(j)
              => ~HasUnresolvedPowerAction(j) /\ timer[j] # "armed"]_vars
  BY DropStep
<1>2. (Spec => []RevocationInv) /\ (Spec => []CountdownInv)
  BY RevocationHolds, CountdownHolds
<1>. QED
  BY <1>1, <1>2, Invariant, PTL DEF Spec, MarkerOutlivesAction

-----------------------------------------------------------------------------
(* Two jobs, and the backend between them.                                 *)

\* The lock and the inventory read files, the countdown is on the machine: a
\* supervisor at its backend call still finds no countdown of another job,
\* because every countdown has an unresolved job file and the inventory, kept
\* true by the lock, found none.
THEOREM RequestsFindTheMachineFree ==
    ASSUME "late_schedule" \notin Faults, Cli \cup Mcp = {}
    PROVE  Spec => []MachineIsFree
<1>1. IInv /\ CountdownInv => MachineIsFree
  <2>. SUFFICES ASSUME IInv, CountdownInv, NEW j \in Job, spc[j] = "backend", NEW k \in Job \ {j}
                PROVE  timer[k] # "armed"
    BY DEF MachineIsFree, OtherCountdown
  <2>1. spc[j] \in Holding \ {"inventory"}
    BY DEF Holding
  <2>2. ~HasUnresolvedPowerAction(k)
    BY <2>1 DEF IInv, AloneInv
  <2>. QED
    BY <2>2 DEF CountdownInv, HasUnresolvedPowerAction
<1>. QED
  BY <1>1, CountdownHolds, Invariant, PTL

\* What anybody does to the backend, as a step of the contract.
Recorded == {j \in Job : res[j] = "cancelled"}
ContractStep == Contract!Next \/ UNCHANGED <<timer, Recorded>>

LEMMA StillKeeps ==
    ASSUME UNCHANGED <<timer, res>>
    PROVE  ContractStep
BY DEF ContractStep, Recorded

LEMMA NoActionKeeps ==
    ASSUME TypeOK, NEW j \in Job, UNCHANGED timer, ResolveNoAction(j)
    PROVE  ContractStep
BY DEF TypeOK, RecordType, ResolveNoAction, ContractStep, Recorded

\* A recorded resolution is the confirmation, ...
LEMMA ResolutionConfirms ==
    ASSUME TypeOK, NEW j \in Job, UNCHANGED timer, ResolveCancelled(j), timer[j] # "armed"
    PROVE  ContractStep
<1>1. CASE res[j] = "none" /\ call[j]
  <2>1. Recorded' = Recorded \cup {j}
    BY <1>1 DEF TypeOK, RecordType, ResolveCancelled, Recorded
  <2>. QED
    BY <2>1 DEF ContractStep, Contract!Next, Contract!Confirm, Recorded
<1>2. CASE ~(res[j] = "none" /\ call[j])
  <2>1. res' = res
    BY <1>2 DEF TypeOK, RecordType, ResolveCancelled
  <2>. QED
    BY <2>1, StillKeeps
<1>. QED
  BY <1>1, <1>2

\* ... a cancellation, whatever is answered, at most ends a countdown, ...
LEMMA CancelLapses ==
    ASSUME TypeOK, NEW j \in Job, UNCHANGED res, CancelConfirmed(j) \/ CancelUnconfirmed(j)
    PROVE  ContractStep
<1>1. Recorded' = Recorded
  BY DEF Recorded
<1>2. timer' = timer \/ (timer[j] = "armed" /\ timer' = [timer EXCEPT ![j] = "off"])
  BY DEF TypeOK, BackendType, CancelConfirmed, CancelUnconfirmed
<1>3. CASE timer' = timer
  BY <1>3, StillKeeps
<1>4. CASE timer[j] = "armed" /\ timer' = [timer EXCEPT ![j] = "off"]
  <2>1. Contract!Lapse(j)
    BY <1>1, <1>4 DEF Contract!Lapse, Recorded
  <2>. QED
    BY <2>1 DEF ContractStep, Contract!Next
<1>. QED
  BY <1>2, <1>3, <1>4

\* ... and the one call starts the first countdown of a job without a resolution.
LEMMA CallAccepts ==
    ASSUME "late_schedule" \notin Faults, IInv, InertInv, NEW j \in Job, SupSchedule(j)
    PROVE  ContractStep
<1>1. UNCHANGED res /\ Recorded' = Recorded
  BY DEF SupSchedule, recVars, Recorded
<1>2. timer[j] = "off" /\ j \notin Recorded
  BY DEF IInv, CallInv, InertInv, InertJob, SupSchedule, Recorded
<1>3. CASE ScheduleAccepted(j)
  <2>1. Contract!Accept(j)
    BY <1>1, <1>2, <1>3 DEF ScheduleAccepted, OtherCountdown, Contract!Accept, Recorded
  <2>. QED
    BY <2>1 DEF ContractStep, Contract!Next
<1>4. CASE UNCHANGED timer
  BY <1>1, <1>4, StillKeeps
<1>. QED
  BY <1>3, <1>4 DEF SupSchedule, ScheduleOutcomeUnknown, Fault

LEMMA SupervisorContract ==
    ASSUME "late_schedule" \notin Faults, IInv, InertInv, NEW j \in Job,
           Arm(j) \/ Supervisor(j) \/ SupCrash(j)
    PROVE  ContractStep
<1>0. TypeOK
  BY DEF IInv
<1>1. CASE SupSchedule(j)
  BY <1>1, CallAccepts
<1>2. CASE SupCancel(j) \/ SupRollback(j)
  BY <1>0, <1>2, CancelLapses DEF SupCancel, SupRollback, recVars
<1>3. CASE SupCancelResolve(j) \/ SupRollbackResolve(j)
  <2>1. timer[j] # "armed"
    BY <1>3 DEF InertInv, InertJob, Stopping, SupCancelResolve, SupRollbackResolve
  <2>. QED
    BY <1>0, <1>3, <2>1, ResolutionConfirms DEF SupCancelResolve, SupRollbackResolve, backVars
<1>4. CASE SupAbort(j)
  BY <1>0, <1>4, NoActionKeeps DEF SupAbort, backVars
<1>5. CASE ~(SupSchedule(j) \/ SupCancel(j) \/ SupRollback(j) \/ SupCancelResolve(j) \/ SupRollbackResolve(j)
             \/ SupAbort(j))
  <2>1. UNCHANGED <<timer, res>>
    BY <1>5 DEF Arm, SupCrash, Supervisor, SupRun, SupFail, SupLock, SupInventory, SupLoad, SupCheck1, SupCheck2,
       SupEnvelope, SupIntent, SupCheck3, SupAborted, SupCall, SupCallWrite, SupUnknown, SupSeal, SupCheck4,
       SupCommit, SupCancelled, SupCancelFailed, SupRolledBack, SupMonitor, SupWatch, recVars, backVars
  <2>. QED
    BY <2>1, StillKeeps
<1>. QED
  BY <1>1, <1>2, <1>3, <1>4, <1>5

LEMMA BackendContract ==
    ASSUME InertInv, NEW j \in Job, Backend(j)
    PROVE  ContractStep
<1>1. ~LateSchedule(j)
  BY DEF InertInv, InertJob, LateSchedule
<1>2. CASE Deadline(j)
  BY <1>2, StillKeeps DEF Deadline, recVars
<1>3. CASE Fire(j)
  <2>1. res' = res /\ res[j] = "none"
    BY <1>3 DEF InertInv, InertJob, Fire, recVars
  <2>2. Contract!Fire(j)
    BY <1>3, <2>1 DEF Fire, Contract!Fire
  <2>. QED
    BY <2>2 DEF ContractStep, Contract!Next
<1>. QED
  BY <1>1, <1>2, <1>3 DEF Backend

LEMMA WorkerContract ==
    ASSUME IInv, InertInv, NEW a \in Actor, Worker(a) \/ WorkerCrash(a)
    PROVE  ContractStep
<1>0. TypeOK /\ Target[a] \in Job
  BY PowerAssumption DEF IInv
<1>1. CASE WorkerCancel(a)
  BY <1>0, <1>1, CancelLapses DEF WorkerCancel, recVars
<1>2. CASE WorkerResolve(a)
  BY <1>0, <1>2, ResolutionConfirms DEF InertInv, WorkerResolve, backVars
<1>3. CASE WorkerNoAction(a)
  BY <1>0, <1>3, NoActionKeeps DEF WorkerNoAction, backVars
<1>4. CASE ~(WorkerCancel(a) \/ WorkerResolve(a) \/ WorkerNoAction(a))
  <2>1. UNCHANGED <<timer, res>>
    BY <1>4 DEF Worker, WorkerCrash, WorkerLock, WorkerRetry, CliLock, WorkerLoad, WorkerFence, WorkerSettle,
       WorkerUnconfirmed, WorkerPersist, WorkerComplete, recVars, backVars
  <2>. QED
    BY <2>1, StillKeeps
<1>. QED
  BY <1>1, <1>2, <1>3, <1>4

LEMMA EveryContractStep ==
    ASSUME "late_schedule" \notin Faults, IInv, InertInv, [Next]_vars
    PROVE  ContractStep
<1>1. CASE UNCHANGED vars
  BY <1>1, StillKeeps DEF vars, recVars, backVars
<1>2. ASSUME NEW j \in Job, Arm(j) \/ Supervisor(j) \/ SupCrash(j) \/ Backend(j)  PROVE ContractStep
  BY <1>2, SupervisorContract, BackendContract
<1>3. ASSUME NEW h \in Hook, HookHandler(h) \/ HookCrash(h)  PROVE ContractStep
  BY <1>3, StillKeeps DEF HookHandler, HookCrash, HookCapture, HookMarker, HookUpdate, HookLaunch, HookCleanup,
     recVars, backVars
<1>4. ASSUME NEW a \in Cli \cup Mcp, Canceller(a)  PROVE ContractStep
  BY <1>4, StillKeeps DEF Canceller, CancelLoad, CancelRequest, McpAuthority, CancelDirect, recVars, backVars
<1>5. ASSUME NEW a \in Actor, Worker(a) \/ WorkerCrash(a)  PROVE ContractStep
  BY <1>5, WorkerContract
<1>. QED
  BY <1>1, <1>2, <1>3, <1>4, <1>5 DEF Next

\* While no answer comes late, supervisors, hooks, cancellations and workers use
\* the backend as its contract says: one countdown, a recorded cancellation only
\* for a countdown that is stopped, and none behind it.
THEOREM PluginKeepsContract ==
    ASSUME "late_schedule" \notin Faults
    PROVE  Spec => KeepsContract
<1>1. Init => Contract!Init
  BY DEF Init, Contract!Init
<1>2. IInv /\ InertInv /\ [Next]_vars => [Contract!Next]_(Contract!vars)
  BY EveryContractStep DEF ContractStep, Recorded, Contract!vars
<1>. QED
  BY <1>1, <1>2, Invariant, InertHolds, PTL DEF Spec, KeepsContract, Contract!Spec
=============================================================================
