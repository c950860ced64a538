-------------------------- MODULE ClassicRunProofs --------------------------
(***************************************************************************)
(* What `donethen run`, `cancel` and `reconcile` guarantee for any number  *)
(* of runs and commands and any fault classes.                             *)
(***************************************************************************)
EXTENDS ClassicRun, TLAPS

\* The steps from which a coordinator never calls Backend.Schedule.
Behind == { "scheduled", "after_schedule", "unknown", "unknown_look", "unknown_cancel",
            "invalid", "rollback", "resave", "cancelled", "failed", "done" }

Closed == {"CANCELLED", "ACTION_FAILED"}

\* A countdown, a call, a scheduled and a closed file are behind the call; a
\* run warned before its intent was saved goes to its end without one.
CallInv ==
    \A r \in Run :
        /\ timer[r] = "armed" => rpc[r] \in Behind \ {"cancelled", "failed"}
        /\ calls[r] > 0 => rpc[r] \in Behind
        /\ st[r] = "ACTION_SCHEDULED" => rpc[r] \in Behind
        /\ st[r] \in Closed => rpc[r] \in Behind /\ timer[r] # "armed"
        /\ mem[r] \in Closed => rpc[r] = "done"
        /\ warned[r] => /\ rpc[r] \in {"at_boundary", "cancelled", "done"}
                        /\ cfile[r] /\ calls[r] = 0

\* What a command still knows when it uses the copy it loaded.
CopyInv ==
    /\ \A c \in Cancel :
         /\ cpc[c] # "idle" => st[About[c]] \in State
         /\ csnap[c] = "ACTION_SCHEDULED" => rpc[About[c]] \in Behind
         /\ cpc[c] = "backend" => csnap[c] \in Unresolved
         /\ cpc[c] = "save" => csnap[c] = "ACTION_SCHEDULED" /\ timer[About[c]] # "armed"
    /\ \A k \in Reconcile :
         /\ ksnap[k] = "ACTION_SCHEDULED" => rpc[About[k]] \in Behind
         /\ kpc[k] \in {"ask", "save"} => ksnap[k] \notin Closed

RInv == RunTypeOK /\ CallInv /\ CopyInv

LEMMA ClosingSteps ==
    /\ DOMAIN Closing = { "cancelled", "interrupted", "agent_failed", "invalid_completion",
                          "not_done", "rejected", "dry_run", "failed" }
    /\ DOMAIN OnConfirmed = {"unknown_cancel", "invalid", "rollback"}
    /\ \A pc \in DOMAIN Closing : Closing[pc] \in Terminal
    /\ \A pc \in DOMAIN OnConfirmed :
         OnConfirmed[pc] \in {"cancelled", "failed"} /\ OnUnconfirmed[pc] \in {"resave", "done"}
  BY DEF Closing, OnConfirmed, OnUnconfirmed, Terminal

LEMMA LookSteps ==
    ASSUME NEW r \in Run, NEW pc \in Looks
    PROVE  AfterLook(r)[pc] \in { "start", "evaluate", "verify", "dry_run", "before_action",
                                  "preflight", "schedule" }
  BY DEF AfterLook, Looks, Gated

LEMMA RunInit == Init => RInv
  BY RunAssumption, ClosingSteps DEF Init, RInv, RunTypeOK, CallInv, CopyInv, Closed,
     Unresolved, State, PreAction, Terminal, RunStep, Looks

\* A coordinator that only turns to its next step, and when that is harmless.
Turn(r, pc) ==
    /\ Goto(r, pc)
    /\ UNCHANGED <<fileVars, backVars, mem, warned, cliVars, plug>>
    /\ rpc[r] \notin {"cancelled", "failed", "done"} \/ pc = "done"
    /\ rpc[r] \in Behind => pc \in Behind
    /\ pc \in {"cancelled", "failed"} => rpc[r] \notin Behind
    /\ warned[r] => pc \in {"cancelled", "done"}

LEMMA TurnKeepsRInv ==
    ASSUME RInv, NEW r \in Run, NEW pc \in RunStep, Turn(r, pc)
    PROVE  RInv'
  BY RunAssumption, SMTT(30) DEF RInv, RunTypeOK, CallInv, CopyInv, Turn, Goto, Behind, Closed,
     fileVars, backVars, cliVars

LEMMA TurningActions ==
    ASSUME RInv, NEW r \in Run,
           \/ Inspect(r) \/ Look(r) \/ Outcome(r) \/ UnknownLook(r) \/ AfterSchedule(r)
           \/ RunCrash(r)
    PROVE  RInv'
  <1> USE DEF Turn, Behind, RunStep, Looks
  <1>1. rpc[r] \in RunStep /\ (warned[r] => rpc[r] \in {"at_boundary", "cancelled", "done"})
                         /\ (warned[r] => cfile[r])
    BY DEF RInv, RunTypeOK, CallInv
  <1>2. ASSUME Inspect(r) PROVE \E pc \in RunStep : Turn(r, pc)
    BY <1>1, <1>2 DEF Inspect, At
  <1>3. ASSUME Look(r) PROVE \E pc \in RunStep : Turn(r, pc)
    <2>1. /\ rpc[r] \in Looks
          /\ AfterLook(r)[rpc[r]] \in { "start", "evaluate", "verify", "dry_run",
                                        "before_action", "preflight", "schedule" }
      BY <1>3, LookSteps DEF Look
    <2>2. CASE ~cfile[r] /\ Goto(r, AfterLook(r)[rpc[r]])
      BY <1>1, <1>3, <2>1, <2>2, ClosingSteps DEF Look
    <2>3. CASE Goto(r, "cancelled")
      BY <1>1, <1>3, <2>1, <2>3, ClosingSteps DEF Look
    <2>4. CASE Goto(r, "done")
      BY <1>1, <1>3, <2>1, <2>4 DEF Look
    <2> QED
      BY <1>3, <2>2, <2>3, <2>4 DEF Look
  <1>4. ASSUME Outcome(r) PROVE \E pc \in RunStep : Turn(r, pc)
    BY <1>1, <1>4, ClosingSteps DEF Outcome, Gated, At
  <1>5. ASSUME UnknownLook(r) PROVE \E pc \in RunStep : Turn(r, pc)
    BY <1>1, <1>5, ClosingSteps DEF UnknownLook, At
  <1>6. ASSUME AfterSchedule(r) PROVE \E pc \in RunStep : Turn(r, pc)
    BY <1>1, <1>6, ClosingSteps DEF AfterSchedule, At
  <1>7. ASSUME RunCrash(r) PROVE \E pc \in RunStep : Turn(r, pc)
    BY <1>1, <1>7 DEF RunCrash
  <1> QED
    BY <1>2, <1>3, <1>4, <1>5, <1>6, <1>7, TurnKeepsRInv

\* A move of the table with its save, and when the step after it is harmless.
LEMMA MoveKeepsRInv ==
    ASSUME RInv, NEW r \in Run, NEW s \in State, NEW next \in RunStep, NEW otherwise \in RunStep,
           Move(r, s, next, otherwise), UNCHANGED <<cfile, backVars, warned, cliVars, plug>>,
           s \in Closed => next = "done" /\ otherwise = "done" /\ timer[r] # "armed",
           s = "ACTION_SCHEDULED" => rpc[r] \in Behind,
           rpc[r] # "done",
           rpc[r] \in Behind => {next, otherwise} \subseteq Behind,
           timer[r] = "armed" => {next, otherwise} \cap {"cancelled", "failed"} = {},
           warned[r] => next = "done" /\ otherwise = "done"
    PROVE  RInv'
  <1>1. PICK pc \in {next, otherwise} :
          /\ Goto(r, pc)
          /\ st' = st \/ st' = [st EXCEPT ![r] = s]
          /\ mem' = mem \/ mem' = [mem EXCEPT ![r] = s]
    BY DEF Move, Save, SaveFails
  <1>2. RunTypeOK'
    BY <1>1 DEF RInv, RunTypeOK, Goto, backVars, cliVars
  <1>3. CallInv'
    <2>1. /\ rpc' = [rpc EXCEPT ![r] = pc] /\ UNCHANGED <<cfile, timer, calls, warned>>
          /\ st \in [Run -> State \cup {"NONE"}] /\ mem \in [Run -> State]
          /\ rpc \in [Run -> RunStep]
      BY <1>1 DEF RInv, RunTypeOK, Goto, backVars
    <2> DEFINE CallOK(q) ==
          /\ timer[q] = "armed" => rpc[q] \in Behind \ {"cancelled", "failed"}
          /\ calls[q] > 0 => rpc[q] \in Behind
          /\ st[q] = "ACTION_SCHEDULED" => rpc[q] \in Behind
          /\ st[q] \in Closed => rpc[q] \in Behind /\ timer[q] # "armed"
          /\ mem[q] \in Closed => rpc[q] = "done"
          /\ warned[q] => /\ rpc[q] \in {"at_boundary", "cancelled", "done"}
                          /\ cfile[q] /\ calls[q] = 0
    <2>2. \A q \in Run : CallOK(q)
      BY DEF RInv, CallInv
    <2>3. \A q \in Run \ {r} : CallOK(q)'
      BY <1>1, <2>1, <2>2
    <2>4. CallOK(r)'
      BY <1>1, <2>1, <2>2 DEF Behind, Closed
    <2> QED
      BY <2>3, <2>4 DEF CallInv
  <1>4. CopyInv'
    BY <1>1, RunAssumption, SMTT(30) DEF RInv, RunTypeOK, CopyInv, Goto, Behind, backVars, cliVars
  <1> QED
    BY <1>2, <1>3, <1>4 DEF RInv

LEMMA MovingActions ==
    ASSUME RInv, NEW r \in Run, Advance(r) \/ Scheduled(r) \/ Conclude(r)
    PROVE  RInv'
  <1> USE DEF State, PreAction, Unresolved, Terminal, RunStep, Looks, Behind, Closed
  <1>1. /\ timer[r] = "armed" => rpc[r] \in Behind \ {"cancelled", "failed"}
        /\ warned[r] => rpc[r] \in {"at_boundary", "cancelled", "done"}
    BY DEF RInv, CallInv
  <1>2. CASE Advance(r)
    BY <1>1, <1>2, MoveKeepsRInv, ClosingSteps DEF Advance, At
  <1>3. CASE Scheduled(r)
    BY <1>1, <1>3, MoveKeepsRInv, ClosingSteps DEF Scheduled, At
  <1>4. CASE Conclude(r)
    BY <1>1, <1>4, MoveKeepsRInv, ClosingSteps DEF Conclude
  <1> QED
    BY <1>2, <1>3, <1>4

LEMMA RunNext == RInv /\ [Next]_vars => RInv'
  <1> SUFFICES ASSUME RInv, [Next]_vars PROVE RInv'
    OBVIOUS
  <1>3. ASSUME NEW r \in Run,
               \/ Inspect(r) \/ Look(r) \/ Outcome(r) \/ UnknownLook(r) \/ AfterSchedule(r)
               \/ RunCrash(r)
        PROVE  RInv'
    BY <1>3, TurningActions
  <1>6. ASSUME NEW r \in Run, Advance(r) \/ Scheduled(r) \/ Conclude(r) PROVE RInv'
    BY <1>6, MovingActions
  <1> USE RunAssumption, ClosingSteps DEF RInv, RunTypeOK, CallInv, CopyInv, Closed, Unresolved,
        State, PreAction, Terminal, RunStep, Looks, Behind, fileVars, backVars, runVars, cliVars
  <1>1. ASSUME NEW r \in Run, Start(r) PROVE RInv'
    <2>1. CASE r \in DryRun /\ Goto(r, "create")
      BY <1>1, <2>1 DEF Start, At, Goto
    <2>2. CASE r \notin DryRun /\ lock # NoOne /\ Goto(r, "done")
      BY <1>1, <2>2 DEF Start, At, Goto
    <2>3. CASE lock' = r /\ rpc' = [rpc EXCEPT ![r] = "recover"]
      BY <1>1, <2>3 DEF Start, At
    <2> QED
      BY <1>1, <2>1, <2>2, <2>3 DEF Start
  <1>2. ASSUME NEW r \in Run, Recover(r) PROVE RInv'
    BY <1>2, SMTT(30) DEF Recover, At, Goto
  <1>4. ASSUME NEW r \in Run, Create(r) PROVE RInv'
    BY <1>4, SMTT(30) DEF Create, Save, SaveFails, At, Goto
  <1>8. ASSUME NEW r \in Run, RecordIntent(r) PROVE RInv'
    <2>1. CASE Save(r, "ACTION_INTENT_RECORDED")
      BY <1>8, <2>1, SMTT(30) DEF RecordIntent, Move, Save, At, Goto
    <2>2. CASE UNCHANGED st
      BY <1>8, <2>2, SMTT(30) DEF RecordIntent, Move, Save, At, Goto
    <2> QED
      BY <1>8, <2>1, <2>2 DEF RecordIntent, Move, SaveFails
  <1>9. ASSUME NEW r \in Run, Schedule(r) PROVE RInv'
    BY <1>9, SMTT(30) DEF Schedule, ScheduleAccepted, At, Goto
  <1>10. ASSUME NEW r \in Run, Unknown(r) PROVE RInv'
    BY <1>10, SMTT(30) DEF Unknown, Save, SaveFails, At, Goto
  <1>14. ASSUME NEW r \in Run, RollBack(r) PROVE RInv'
    <2>1. rpc[r] \in {"unknown_cancel", "invalid", "rollback"}
      BY <1>14 DEF RollBack
    <2>2. CASE Disarm(r) /\ Goto(r, OnConfirmed[rpc[r]])
      <3>1. PICK pc \in {"cancelled", "failed"} : Goto(r, pc)
        BY <2>1, <2>2
      <3> QED
        BY <1>14, <2>1, <2>2, <3>1, SMTT(30) DEF RollBack, Disarm, Goto
    <2>3. CASE CancelUnconfirmed(r) /\ Goto(r, OnUnconfirmed[rpc[r]])
      <3>1. PICK pc \in {"resave", "done"} : Goto(r, pc)
        BY <2>1, <2>3
      <3> QED
        BY <1>14, <2>1, <2>3, <3>1, SMTT(30) DEF RollBack, CancelUnconfirmed, Disarm, Goto
    <2> QED
      BY <1>14, <2>2, <2>3 DEF RollBack
  <1>15. ASSUME NEW r \in Run, Resave(r) PROVE RInv'
    BY <1>15, SMTT(30) DEF Resave, Save, SaveFails, At, Goto
  <1>18. ASSUME NEW r \in Run, IntentDeadline(r) \/ Deadline(r) \/ Fire(r) PROVE RInv'
    <2>1. CASE IntentDeadline(r)
      BY <2>1, SMTT(30) DEF IntentDeadline
    <2>2. CASE Deadline(r)
      BY <2>2, SMTT(30) DEF Deadline
    <2>3. CASE Fire(r)
      BY <2>3, SMTT(30) DEF Fire
    <2> QED
      BY <1>18, <2>1, <2>2, <2>3
  <1>19. ASSUME NEW c \in Cancel, CancelLoad(c) \/ CancelRequest(c) \/ CancelReload(c) PROVE RInv'
    <2>1. CASE CancelLoad(c)
      BY <2>1, SMTT(30) DEF CancelLoad, CliStep
    <2>2. CASE CancelRequest(c)
      <3>1. PICK b \in BOOLEAN : /\ cfile' = [cfile EXCEPT ![About[c]] = b]
                                 /\ cfile[About[c]] => b
        <4>1. CASE cfile' = [cfile EXCEPT ![About[c]] = TRUE]
          BY <4>1
        <4>2. CASE \E b \in {cfile[About[c]], TRUE} : cfile' = [cfile EXCEPT ![About[c]] = b]
          <5>1. cfile[About[c]] \in BOOLEAN
            OBVIOUS
          <5> QED
            BY <4>2, <5>1, Zenon
        <4> QED
          BY <2>2, <4>1, <4>2 DEF CancelRequest
      <3>2. cpc[c] = "request" /\ \E pc \in {"reload", "done"} : CliStep(c, pc)
        BY <2>2 DEF CancelRequest
      <3> QED
        BY <2>2, <3>1, <3>2, SMTT(30) DEF CancelRequest, CliStep
    <2>3. CASE CancelReload(c)
      BY <2>3, SMTT(30) DEF CancelReload, CliStep
    <2> QED
      BY <1>19, <2>1, <2>2, <2>3
  <1>20. ASSUME NEW c \in Cancel, CancelBackend(c) PROVE RInv'
    <2>1. CASE Disarm(About[c]) /\ csnap[c] = "ACTION_INTENT_RECORDED" /\ CliStep(c, "done")
      BY <1>20, <2>1, SMTT(30) DEF CancelBackend, Disarm, CliStep
    <2>2. CASE Disarm(About[c]) /\ csnap[c] # "ACTION_INTENT_RECORDED" /\ CliStep(c, "save")
      BY <1>20, <2>2, SMTT(30) DEF CancelBackend, Disarm, CliStep
    <2>3. CASE CancelUnconfirmed(About[c]) /\ CliStep(c, "done")
      BY <1>20, <2>3, SMTT(30) DEF CancelBackend, CancelUnconfirmed, Disarm, CliStep
    <2> QED
      BY <1>20, <2>1, <2>2, <2>3 DEF CancelBackend
  <1>21. ASSUME NEW c \in Cancel, CancelSave(c) \/ CancelCrash(c) PROVE RInv'
    BY <1>21, SMTT(30) DEF CancelSave, CancelCrash, Save, SaveFails, CliStep
  <1>22. ASSUME NEW k \in Reconcile, ReconcileLoad(k) \/ ReconcileAsk(k) PROVE RInv'
    BY <1>22, SMTT(30) DEF ReconcileLoad, ReconcileAsk, Past
  <1>23. ASSUME NEW k \in Reconcile, ReconcileSave(k) PROVE RInv'
    BY <1>23, SMTT(30) DEF ReconcileSave, Save, SaveFails
  <1>24. ASSUME NEW p \in Plugin, PluginLock(p) \/ PluginSchedule(p) \/ PluginSettle(p) PROVE RInv'
    BY <1>24, SMTT(30) DEF PluginLock, PluginSchedule, PluginSettle
  <1>25. CASE UNCHANGED vars
    BY <1>25, SMTT(30) DEF vars
  <1> QED
    BY <1>1, <1>2, <1>3, <1>4, <1>6, <1>8, <1>9, <1>10, <1>14, <1>15, <1>18, <1>19, <1>20, <1>21, <1>22, <1>23, <1>24, <1>25
       DEF Next, Coordinator, CancelCommand

-----------------------------------------------------------------------------
LEMMA RInvHolds == Spec => []RInv
  BY RunInit, RunNext, PTL DEF Spec

\* Types: every variable keeps its type in every behaviour of coordinators,
\* commands and plugin jobs (coordinator.go, store.go, cancel.go, reconcile.go).
THEOREM RunTypeCorrect == Spec => []RunTypeOK
  <1>1. RInv => RunTypeOK
    BY DEF RInv
  <1> QED
    BY <1>1, RInvHolds, PTL

\* Whoever closed it and whatever failed on the way: a run shown as CANCELLED
\* or ACTION_FAILED has no countdown (coordinator.go, cancel.go, reconcile.go).
THEOREM ClosedIsInert == Spec => []ClosedInert
  <1>1. RInv => ClosedInert
    BY DEF RInv, CallInv, ClosedInert, Closed
  <1> QED
    BY <1>1, RInvHolds, PTL

\* A request on disk when the intent is saved keeps the coordinator from its
\* backend call: the look at the action boundary comes after the save.
THEOREM WarnedRunsNeverCall == Spec => []WarnedNeverCalls
  <1>1. RInv => WarnedNeverCalls
    BY DEF RInv, CallInv, WarnedNeverCalls
  <1> QED
    BY <1>1, RInvHolds, PTL

-----------------------------------------------------------------------------
(* Without `reconcile`, whose write-back may revive a settled job.         *)

PowerSteps == { "at_boundary", "schedule", "scheduled", "after_schedule", "unknown",
                "unknown_look", "unknown_cancel", "invalid", "rollback", "resave" }

\* The copy a coordinator holds while it acts, and the file behind a countdown.
IntentInv ==
    \A r \in Run :
        /\ rpc[r] \in {"at_boundary", "schedule"} => st[r] = "ACTION_INTENT_RECORDED"
        /\ rpc[r] \in PowerSteps => mem[r] \in Unresolved
        /\ timer[r] = "armed" => st[r] \in Unresolved

DrySteps == { "idle", "create", "before_agent", "start", "agent", "after_agent", "evaluate",
              "judge", "verifying", "before_verifier", "verify", "after_verifier",
              "cancelled", "interrupted", "agent_failed", "invalid_completion", "not_done",
              "rejected", "dry_run", "done" }

\* Everybody between its start and its end holds the machine lock, and a dry
\* run never comes near a power action.
HoldInv ==
    /\ \A r \in Run \ DryRun : rpc[r] \notin {"idle", "done"} => lock = r
    /\ \A p \in Plugin : plug[p] = "holding" => lock = p
    /\ \A r \in DryRun : /\ rpc[r] \in DrySteps
                        /\ mem[r] \notin Unresolved /\ st[r] \notin Unresolved

\* A run past the inventory is the only one that may be unresolved.
AloneInv ==
    /\ \A r \in Run \ DryRun, q \in Run :
         rpc[r] \notin {"idle", "recover", "inspect", "done"} /\ st[q] \in Unresolved => q = r
    /\ SerializedRuns

LEMMA SerialInit == Init => IntentInv /\ HoldInv /\ AloneInv
  BY RunAssumption DEF Init, IntentInv, HoldInv, AloneInv, SerializedRuns, PowerSteps, DrySteps,
     Unresolved

LEMMA MoveFrame ==
    ASSUME RunTypeOK, NEW r \in Run, NEW s, NEW next, NEW otherwise, Move(r, s, next, otherwise)
    PROVE  /\ \A q \in Run \ {r} : st'[q] = st[q] /\ mem'[q] = mem[q]
           /\ Goto(r, next) \/ Goto(r, otherwise)
  BY DEF RunTypeOK, Move, Save, SaveFails

LEMMA RecoverFrame ==
    ASSUME RunTypeOK, NEW r \in Run, Recover(r)
    PROVE  /\ \A q \in Run : st[q] \in Unresolved => st'[q] = st[q]
           /\ Goto(r, "inspect") \/ Goto(r, "done")
  <1>1. \A q \in Run : st'[q] # st[q] => st[q] \in PreAction
    <2>1. CASE \E S \in SUBSET {q \in Run \ DryRun : st[q] \in PreAction} :
                 st' = [q \in Run |-> IF q \in S THEN "ORPHANED" ELSE st[q]]
      BY <2>1, Zenon
    <2> QED
      BY <2>1, Zenon DEF Recover
  <1> QED
    BY <1>1 DEF Recover, PreAction, Unresolved

LEMMA AdvanceFrame ==
    ASSUME RunTypeOK, NEW r \in Run, Advance(r)
    PROVE  /\ \A q \in Run \ {r} : st'[q] = st[q] /\ mem'[q] = mem[q]
           /\ \E pc \in {"agent", "judge", "before_verifier", "done"} : Goto(r, pc)
  BY MoveFrame DEF Advance

LEMMA IntentNext ==
    ASSUME Reconcile = {}, RInv, IntentInv, [Next]_vars
    PROVE  IntentInv'
  <1> USE RunAssumption, ClosingSteps DEF RInv, RunTypeOK, IntentInv, PowerSteps, Unresolved,
        fileVars, backVars, runVars, cliVars
  <1>1. ASSUME NEW r \in Run, Start(r) \/ Recover(r) \/ Inspect(r) \/ Create(r) PROVE IntentInv'
    <2>1. CASE Start(r) \/ Inspect(r)
      BY <2>1, SMTT(30) DEF Start, Inspect, At, Goto
    <2>2. CASE Recover(r)
      <3>1. \A q \in Run : st[q] \in Unresolved => st'[q] = st[q]
        BY <2>2, RecoverFrame
      <3>2. \E pc \in {"inspect", "done"} : Goto(r, pc)
        BY <2>2, RecoverFrame
      <3> QED
        BY <2>2, <3>1, <3>2 DEF Recover, Goto
    <2>3. CASE Create(r)
      BY <2>3, SMTT(30) DEF Create, Save, SaveFails, At, Goto, CallInv, Behind
    <2> QED
      BY <1>1, <2>1, <2>2, <2>3
  <1>2. ASSUME NEW r \in Run, Look(r) PROVE IntentInv'
    BY <1>2, LookSteps, SMTT(30) DEF Look, Goto, AfterLook, Looks, Gated
  <1>3. ASSUME NEW r \in Run, Advance(r) \/ Outcome(r) PROVE IntentInv'
    <2>1. CASE Advance(r)
      <3>1. timer[r] # "armed" /\ UNCHANGED timer
        BY <2>1 DEF Advance, At, CallInv, Behind
      <3>2. /\ \A q \in Run \ {r} : st'[q] = st[q] /\ mem'[q] = mem[q]
            /\ \E pc : Goto(r, pc) /\ pc \notin PowerSteps
        BY <2>1, AdvanceFrame
      <3> QED
        BY <3>1, <3>2 DEF Goto
    <2>2. CASE Outcome(r)
      <3>1. PICK pc : Goto(r, pc) /\ pc \notin PowerSteps
        BY <2>2 DEF Outcome, Gated
      <3> QED
        BY <2>2, <3>1 DEF Outcome, Goto
    <2> QED
      BY <1>3, <2>1, <2>2
  <1>4. ASSUME NEW r \in Run, RecordIntent(r) \/ Schedule(r) PROVE IntentInv'
    BY <1>4, SMTT(30) DEF RecordIntent, Schedule, ScheduleAccepted, Move, Save, SaveFails, At, Goto
  <1>5. ASSUME NEW r \in Run, Unknown(r) \/ UnknownLook(r) \/ AfterSchedule(r) \/ Resave(r)
        PROVE  IntentInv'
    BY <1>5, SMTT(30) DEF Unknown, UnknownLook, AfterSchedule, Resave, Save, SaveFails, At, Goto
  <1>6. ASSUME NEW r \in Run, Scheduled(r) PROVE IntentInv'
    BY <1>6, SMTT(30) DEF Scheduled, Move, Save, SaveFails, At, Goto
  <1>7. ASSUME NEW r \in Run, RollBack(r) PROVE IntentInv'
    <2>1. rpc[r] \in {"unknown_cancel", "invalid", "rollback"}
      BY <1>7 DEF RollBack
    <2>2. PICK pc \in {"cancelled", "failed", "resave", "done"} : Goto(r, pc)
      BY <1>7, <2>1 DEF RollBack
    <2>3. \A q \in Run : timer'[q] = "armed" => timer[q] = "armed"
      BY <1>7 DEF RollBack, Disarm, CancelUnconfirmed
    <2> QED
      BY <1>7, <2>1, <2>2, <2>3, SMTT(30) DEF RollBack, Goto
  <1>8. ASSUME NEW r \in Run, Conclude(r) PROVE IntentInv'
    <2>1. timer[r] # "armed" /\ UNCHANGED timer
      BY <1>8 DEF Conclude, CallInv, Behind
    <2>2. (\A q \in Run \ {r} : st'[q] = st[q] /\ mem'[q] = mem[q]) /\ Goto(r, "done")
      BY <1>8 DEF Conclude, Move, Save, SaveFails
    <2> QED
      BY <2>1, <2>2 DEF Goto
  <1>9. ASSUME NEW r \in Run, RunCrash(r) \/ IntentDeadline(r) \/ Deadline(r) \/ Fire(r)
        PROVE  IntentInv'
    BY <1>9, SMTT(30) DEF RunCrash, IntentDeadline, Deadline, Fire, Goto
  <1>10. ASSUME NEW c \in Cancel, CancelLoad(c) \/ CancelRequest(c) \/ CancelReload(c)
                                \/ CancelBackend(c) \/ CancelCrash(c)
         PROVE  IntentInv'
    <2>1. UNCHANGED <<st, rpc, mem>>
      BY <1>10 DEF CancelLoad, CancelRequest, CancelReload, CancelBackend, CancelCrash
    <2>2. \A q \in Run : timer'[q] = "armed" => timer[q] = "armed"
      <3>1. CASE CancelBackend(c)
        BY <3>1 DEF CancelBackend, Disarm, CancelUnconfirmed
      <3>2. CASE ~CancelBackend(c)
        BY <1>10, <3>2 DEF CancelLoad, CancelRequest, CancelReload, CancelCrash
      <3> QED
        BY <3>1, <3>2
    <2> QED
      BY <2>1, <2>2
  <1>11. ASSUME NEW c \in Cancel, CancelSave(c) PROVE IntentInv'
    <2>1. rpc[About[c]] \notin {"at_boundary", "schedule"} /\ timer[About[c]] # "armed"
      BY <1>11 DEF CancelSave, CopyInv, Behind
    <2>2. /\ \A q \in Run \ {About[c]} : st'[q] = st[q]
          /\ UNCHANGED <<timer, rpc, mem>>
      BY <1>11 DEF CancelSave, Save, SaveFails
    <2> QED
      BY <2>1, <2>2
  <1>12. ASSUME NEW p \in Plugin, PluginLock(p) \/ PluginSchedule(p) \/ PluginSettle(p)
         PROVE  IntentInv'
    BY <1>12 DEF PluginLock, PluginSchedule, PluginSettle
  <1>13. CASE UNCHANGED vars
    BY <1>13 DEF vars
  <1> QED
    BY <1>1, <1>2, <1>3, <1>4, <1>5, <1>6, <1>7, <1>8, <1>9, <1>10, <1>11, <1>12, <1>13
       DEF Next, Coordinator, CancelCommand

\* A coordinator's step as HoldInv sees it.
HoldStep(r, pc) ==
    /\ rpc[r] \notin {"idle", "done"} /\ Goto(r, pc) /\ plug' = plug
    /\ r \in DryRun => pc \in DrySteps
    /\ \A q \in DryRun : mem'[q] \notin Unresolved /\ st'[q] \notin Unresolved

LEMMA HoldStepKeeps ==
    ASSUME HoldInv, rpc \in [Run -> RunStep], NEW r \in Run, NEW pc, HoldStep(r, pc)
    PROVE  HoldInv'
  <1>1. /\ rpc' = [rpc EXCEPT ![r] = pc] /\ rpc[r] \notin {"idle", "done"} /\ plug' = plug
        /\ lock' = IF pc = "done" /\ lock = r THEN NoOne ELSE lock
    BY DEF HoldStep, Goto
  <1>2. \A q \in Run \ DryRun : rpc'[q] \notin {"idle", "done"} => lock' = q
    BY <1>1 DEF HoldInv
  <1>3. \A p \in Plugin : plug'[p] = "holding" => lock' = p
    BY <1>1, RunAssumption DEF HoldInv
  <1>4. \A q \in DryRun : rpc'[q] \in DrySteps
    BY <1>1, RunAssumption DEF HoldInv, HoldStep
  <1> QED
    BY <1>2, <1>3, <1>4 DEF HoldInv, HoldStep

LEMMA CoordinatorHolds ==
    ASSUME RInv, HoldInv, NEW r \in Run, Coordinator(r) \/ RunCrash(r)
    PROVE  \E pc : HoldStep(r, pc)
  <1> USE DEF HoldStep
  <1>1. /\ st \in [Run -> State \cup {"NONE"}] /\ mem \in [Run -> State]
        /\ r \in DryRun => rpc[r] \in DrySteps
        /\ \A q \in DryRun : q \in Run /\ mem[q] \notin Unresolved /\ st[q] \notin Unresolved
    BY RunAssumption DEF RInv, RunTypeOK, HoldInv
  <1>2. ASSUME NEW s \in State \ Unresolved, Save(r, s) \/ SaveFails(r, s)
        PROVE  \A q \in DryRun : st'[q] \notin Unresolved
    BY <1>1, <1>2 DEF Save, SaveFails
  <1>3. ASSUME NEW s \in State \ Unresolved, NEW a, NEW b, Move(r, s, a, b)
        PROVE  /\ \A q \in DryRun : st'[q] \notin Unresolved /\ mem'[q] \notin Unresolved
               /\ Goto(r, a) \/ Goto(r, b)
    BY <1>1, <1>2, <1>3 DEF Move
  <1>4. CASE Recover(r)
    BY <1>1, <1>4 DEF Recover, At, DrySteps, Unresolved
  <1>5. CASE Inspect(r) \/ UnknownLook(r) \/ AfterSchedule(r) \/ RunCrash(r)
    BY <1>1, <1>5 DEF Inspect, UnknownLook, AfterSchedule, RunCrash, At, DrySteps, fileVars
  <1>6. CASE Create(r)
    BY <1>1, <1>2, <1>6 DEF Create, At, DrySteps, State, PreAction, Unresolved, backVars, cliVars
  <1>7. CASE Look(r)
    <2>1. r \in DryRun => rpc[r] \in Looks /\ AfterLook(r)[rpc[r]] \in DrySteps
      BY <1>1, <1>7 DEF Look, AfterLook, Looks, Gated, DrySteps
    <2> QED
      BY <1>1, <1>7, <2>1 DEF Look, Looks, DrySteps, fileVars
  <1>8. CASE Advance(r)
    BY <1>1, <1>3, <1>8 DEF Advance, At, DrySteps, State, PreAction, Unresolved, cliVars
  <1>9. CASE Outcome(r)
    BY <1>1, <1>9 DEF Outcome, Gated, At, DrySteps, fileVars
  <1>10. CASE RecordIntent(r) \/ Scheduled(r)
    <2>1. r \notin DryRun /\ rpc[r] \notin {"idle", "done"} /\ plug' = plug
      BY <1>1, <1>10 DEF RecordIntent, Scheduled, At, DrySteps
    <2>2. \E s : (Save(r, s) \/ UNCHANGED st) /\ (mem' = [mem EXCEPT ![r] = s] \/ UNCHANGED mem)
      BY <1>10 DEF RecordIntent, Scheduled, Move, SaveFails
    <2>3. \E pc : Goto(r, pc)
      BY <1>10 DEF RecordIntent, Scheduled, Move
    <2> QED
      BY <1>1, <2>1, <2>2, <2>3 DEF Save
  <1>11. CASE Schedule(r)
    BY <1>1, <1>11 DEF Schedule, At, DrySteps, fileVars
  <1>12. CASE Unknown(r) \/ Resave(r)
    <2>1. r \notin DryRun /\ rpc[r] \notin {"idle", "done"} /\ plug' = plug /\ mem' = mem
      BY <1>1, <1>12 DEF Unknown, Resave, At, DrySteps
    <2>2. Save(r, mem[r]) \/ UNCHANGED st
      BY <1>12 DEF Unknown, Resave, SaveFails
    <2>3. \E pc : Goto(r, pc)
      BY <1>12 DEF Unknown, Resave
    <2> QED
      BY <1>1, <2>1, <2>2, <2>3 DEF Save
  <1>13. CASE RollBack(r)
    BY <1>1, <1>13, ClosingSteps DEF RollBack, DrySteps, fileVars
  <1>14. CASE Conclude(r)
    <2>1. Closing[rpc[r]] \in State \ Unresolved /\ rpc[r] \notin {"idle", "done"}
      BY <1>14, ClosingSteps DEF Conclude, State, Terminal, Unresolved
    <2> QED
      BY <1>1, <1>3, <1>14, <2>1 DEF Conclude, DrySteps
  <1> QED
    BY <1>4, <1>5, <1>6, <1>7, <1>8, <1>9, <1>10, <1>11, <1>12, <1>13, <1>14 DEF Coordinator

LEMMA HoldNext ==
    ASSUME Reconcile = {}, RInv, HoldInv, [Next]_vars
    PROVE  HoldInv'
  <1> USE RunAssumption DEF HoldInv
  <1>1. /\ rpc \in [Run -> RunStep]
        /\ plug \in [Plugin -> {"idle", "holding", "unresolved", "settled"}]
        /\ st \in [Run -> State \cup {"NONE"}]
    BY DEF RInv, RunTypeOK
  <1>2. ASSUME NEW r \in Run, Start(r) PROVE HoldInv'
    <2>1. UNCHANGED <<st, mem, plug>> /\ rpc[r] = "idle"
      BY <1>2 DEF Start, At, fileVars
    <2>2. CASE r \in DryRun \/ lock # NoOne
      BY <1>1, <1>2, <2>1, <2>2 DEF Start, Goto, DrySteps
    <2>3. CASE r \notin DryRun /\ lock = NoOne
      BY <1>1, <1>2, <2>1, <2>3 DEF Start, Goto
    <2> QED
      BY <2>2, <2>3
  <1>3. ASSUME NEW r \in Run, Coordinator(r) \/ RunCrash(r) PROVE HoldInv'
    BY <1>1, <1>3, CoordinatorHolds, HoldStepKeeps
  <1>4. ASSUME NEW r \in Run, IntentDeadline(r) \/ Deadline(r) \/ Fire(r) PROVE HoldInv'
    BY <1>4 DEF IntentDeadline, Deadline, Fire, fileVars, runVars
  <1>5. ASSUME NEW c \in Cancel, CancelLoad(c) \/ CancelRequest(c) \/ CancelReload(c)
                               \/ CancelBackend(c) \/ CancelCrash(c)
        PROVE  HoldInv'
    BY <1>5 DEF CancelLoad, CancelRequest, CancelReload, CancelBackend, CancelCrash, fileVars,
       runVars
  <1>6. ASSUME NEW c \in Cancel, CancelSave(c) PROVE HoldInv'
    BY <1>1, <1>6 DEF CancelSave, Save, SaveFails, runVars, Unresolved
  <1>7. ASSUME NEW p \in Plugin, PluginLock(p) PROVE HoldInv'
    BY <1>1, <1>7 DEF PluginLock, fileVars
  <1>8. ASSUME NEW p \in Plugin, PluginSchedule(p) PROVE HoldInv'
    BY <1>1, <1>8 DEF PluginSchedule, fileVars
  <1>9. ASSUME NEW p \in Plugin, PluginSettle(p) PROVE HoldInv'
    BY <1>1, <1>9 DEF PluginSettle, fileVars, runVars
  <1>10. CASE UNCHANGED vars
    BY <1>10 DEF vars, fileVars, runVars
  <1> QED
    BY <1>2, <1>3, <1>4, <1>5, <1>6, <1>7, <1>8, <1>9, <1>10 DEF Next, CancelCommand

\* Only its own coordinator makes a run's file unresolved, past the inventory.
LEMMA WhoRecords ==
    ASSUME Reconcile = {}, RInv, IntentInv, HoldInv, [Next]_vars, NEW q \in Run,
           st[q] \notin Unresolved, st'[q] \in Unresolved
    PROVE  /\ q \notin DryRun /\ rpc[q] \in {"intent"} \cup PowerSteps
           /\ \A o \in Run \ {q} : st'[o] = st[o] /\ rpc'[o] = rpc[o]
  <1> USE RunAssumption DEF Unresolved
  <1>1. /\ st \in [Run -> State \cup {"NONE"}] /\ mem \in [Run -> State]
        /\ rpc \in [Run -> RunStep] /\ About \in [Cancel \cup Reconcile -> Run]
    BY DEF RInv, RunTypeOK
  <1>2. PICK r \in Run : \/ Recover(r) \/ Create(r) \/ Advance(r) \/ RecordIntent(r)
                         \/ Unknown(r) \/ Scheduled(r) \/ Resave(r) \/ Conclude(r)
                         \/ \E c \in Cancel : CancelSave(c)
    BY DEF Next, Coordinator, CancelCommand, vars, fileVars, Start, Inspect, Look, Outcome,
       Schedule, UnknownLook, AfterSchedule, RollBack, RunCrash, IntentDeadline, Deadline, Fire,
       CancelLoad, CancelRequest, CancelReload, CancelBackend, CancelCrash, PluginLock,
       PluginSchedule, PluginSettle
  <1>3. ASSUME NEW s \in State \ Unresolved, NEW o \in Run, Save(o, s) \/ SaveFails(o, s)
        PROVE  FALSE
    BY <1>1, <1>3 DEF Save, SaveFails
  <1>4. ASSUME NEW s \in State \ Unresolved, NEW a, NEW b, Move(r, s, a, b) PROVE FALSE
    BY <1>3, <1>4 DEF Move
  <1>5. CASE Recover(r)
    BY <1>1, <1>5 DEF Recover
  <1>6. CASE Create(r) \/ Advance(r)
    BY <1>3, <1>4, <1>6 DEF Create, Advance, State, PreAction
  <1>7. CASE Conclude(r)
    BY <1>4, <1>7, ClosingSteps DEF Conclude, State, Terminal
  <1>8. CASE \E c \in Cancel : CancelSave(c)
    BY <1>1, <1>3, <1>8 DEF CancelSave, State, Terminal
  <1>9. CASE RecordIntent(r) \/ Unknown(r) \/ Scheduled(r) \/ Resave(r)
    <2>1. rpc[r] \in {"intent"} \cup PowerSteps /\ \E pc : Goto(r, pc)
      BY <1>9 DEF RecordIntent, Unknown, Scheduled, Resave, Move, At, PowerSteps
    <2>2. \A o \in Run \ {r} : st'[o] = st[o]
      BY <1>1, <1>9 DEF RecordIntent, Unknown, Scheduled, Resave, Move, Save, SaveFails
    <2>3. r = q /\ r \notin DryRun
      BY <2>1, <2>2 DEF HoldInv, DrySteps, PowerSteps
    <2> QED
      BY <1>1, <2>1, <2>2, <2>3 DEF Goto
  <1> QED
    BY <1>2, <1>5, <1>6, <1>7, <1>8, <1>9

LEMMA AloneNext ==
    ASSUME Reconcile = {}, RInv, IntentInv, HoldInv, AloneInv, [Next]_vars
    PROVE  AloneInv'
  <1> DEFINE Outside == {"idle", "recover", "inspect", "done"}
  \* A run that gets past the inventory has just found nobody unresolved.
  <1>1. ASSUME NEW r \in Run \ DryRun, NEW q \in Run, rpc[r] \in Outside, rpc'[r] \notin Outside,
               st'[q] \in Unresolved
        PROVE  FALSE
    <2>1. rpc \in [Run -> RunStep] /\ rpc'[r] # rpc[r]
      BY <1>1 DEF RInv, RunTypeOK
    <2>2. PICK o \in Run : Start(o) \/ Coordinator(o) \/ RunCrash(o)
      BY <2>1 DEF Next, vars, runVars, CancelCommand, IntentDeadline, Deadline, Fire, CancelLoad,
         CancelRequest, CancelReload, CancelBackend, CancelSave, CancelCrash, PluginLock,
         PluginSchedule, PluginSettle
    <2>3. CASE Start(o)
      BY <1>1, <2>1, <2>3 DEF Start, Goto
    <2>4. CASE Coordinator(o) \/ RunCrash(o)
      <3>1. PICK pc : HoldStep(o, pc)
        BY <2>4, CoordinatorHolds
      <3>2. o = r /\ rpc[r] \in {"recover", "inspect"} /\ rpc'[r] = pc
        BY <1>1, <2>1, <3>1 DEF HoldStep, Goto
      <3>3. ~RunCrash(r)
        BY <1>1, <2>1 DEF RunCrash, Goto
      <3>4. ~Recover(r)
        BY <1>1, <2>1, RecoverFrame DEF RInv, Goto
      <3>5. Inspect(r)
        BY <2>4, <3>2, <3>3, <3>4, ClosingSteps DEF Coordinator, Create, Look, Advance, Outcome,
           RecordIntent, Schedule, Unknown, UnknownLook, Scheduled, AfterSchedule, RollBack,
           Resave, Conclude, At, Looks
      <3> QED
        BY <1>1, <2>1, <3>5 DEF Inspect, Goto, At, fileVars, HoldInv
    <2> QED
      BY <2>2, <2>3, <2>4
  \* One that is past it holds the lock, so nobody else becomes unresolved.
  <1>2. ASSUME NEW r \in Run \ DryRun, NEW q \in Run, rpc[r] \notin Outside,
               st'[q] \in Unresolved, q # r
        PROVE  FALSE
    <2>1. st[q] \notin Unresolved /\ lock = r
      BY <1>2 DEF AloneInv, HoldInv
    <2>2. q \notin DryRun /\ rpc[q] \notin {"idle", "done"}
      BY <1>2, <2>1, WhoRecords DEF PowerSteps
    <2> QED
      BY <1>2, <2>1, <2>2 DEF HoldInv
  <1>3. ASSUME NEW r \in Run, NEW q \in Run, st'[r] \in Unresolved, st'[q] \in Unresolved
        PROVE  r = q
    <2>1. CASE st[r] \in Unresolved /\ st[q] \in Unresolved
      BY <2>1 DEF AloneInv, SerializedRuns
    <2>2. CASE st[r] \notin Unresolved
      BY <1>2, <1>3, <2>2, WhoRecords DEF PowerSteps
    <2>3. CASE st[q] \notin Unresolved
      BY <1>2, <1>3, <2>3, WhoRecords DEF PowerSteps
    <2> QED
      BY <2>1, <2>2, <2>3
  <1> QED
    BY <1>1, <1>2, <1>3, Zenon DEF AloneInv, SerializedRuns

LEMMA SerialInvHolds ==
    ASSUME Reconcile = {}
    PROVE  Spec => [](RInv /\ IntentInv /\ HoldInv /\ AloneInv)
  <1>1. Init => RInv /\ IntentInv /\ HoldInv /\ AloneInv
    BY RunInit, SerialInit
  <1>2. RInv /\ IntentInv /\ HoldInv /\ AloneInv /\ [Next]_vars
          => RInv' /\ IntentInv' /\ HoldInv' /\ AloneInv'
    BY RunNext, IntentNext, HoldNext, AloneNext
  <1> QED
    BY <1>1, <1>2, PTL DEF Spec

\* "The supervisor persists intent before calling the operating system", and
\* nobody takes the job away from its countdown: without `reconcile`, a
\* countdown is behind an unresolved file whatever fails or crashes.
THEOREM NoCountdownIsHidden ==
    ASSUME Reconcile = {}
    PROVE  Spec => []NoHiddenCountdown
  <1>1. IntentInv => NoHiddenCountdown
    BY DEF IntentInv, NoHiddenCountdown
  <1> QED
    BY <1>1, SerialInvHolds, PTL

\* run.go under the machine lock: without `reconcile`, any number of runs leaves
\* at most one power action that nobody has settled.
THEOREM RunsAreSerialized ==
    ASSUME Reconcile = {}
    PROVE  Spec => []SerializedRuns
  <1>1. AloneInv => SerializedRuns
    BY DEF AloneInv
  <1> QED
    BY <1>1, SerialInvHolds, PTL

-----------------------------------------------------------------------------
(* The file and the copies of it, without `reconcile`.                     *)

Before == {"idle", "recover", "inspect", "create"}

\* The coordinator's job.State is the recorded intent, and nothing later.
Intending == { "at_boundary", "schedule", "scheduled", "invalid", "unknown", "unknown_look",
               "unknown_cancel", "resave" }

\* A coordinator under way has in its copy what is in the file; only behind a
\* schedule that could not be saved, or beside a `cancel`, do they differ.
FileOK(r) ==
    /\ rpc[r] \in Before => st[r] = "NONE" /\ mem[r] = "ARMED"
    /\ rpc[r] \in Intending => mem[r] = "ACTION_INTENT_RECORDED"
    /\ rpc[r] \notin Before \cup {"done"} =>
         \/ mem[r] # "ACTION_SCHEDULED" /\ st[r] = mem[r]
         \/ /\ mem[r] = "ACTION_SCHEDULED"
            /\ st[r] \in {"ACTION_INTENT_RECORDED", "ACTION_SCHEDULED", "CANCELLED"}

\* What a `cancel` loaded as scheduled is still scheduled, or cancelled.
ScheduledCopies ==
    \A c \in Cancel : csnap[c] = "ACTION_SCHEDULED" =>
        st[About[c]] \in {"ACTION_SCHEDULED", "CANCELLED"}

FileInv == (\A r \in Run : FileOK(r)) /\ ScheduledCopies

\* A write to the file of a run, as the table sees it.
LegalWrite(r) ==
    /\ st[r] = "NONE" \/ st'[r] = st[r] \/ Transition(st[r], st'[r])
    /\ st[r] = "ACTION_SCHEDULED" => st'[r] \in {"ACTION_SCHEDULED", "CANCELLED"}
    /\ st[r] = "CANCELLED" => st'[r] = "CANCELLED"

\* Nothing but this run's file, copy and step changes.
OnlyRun(r) ==
    /\ \A q \in Run \ {r} : st'[q] = st[q] /\ mem'[q] = mem[q] /\ rpc'[q] = rpc[q]
    /\ csnap' = csnap

FileStep == FileInv' /\ \A r \in Run : LegalWrite(r)

LEMMA OneRunWrites ==
    ASSUME FileInv, NEW r \in Run, OnlyRun(r), FileOK(r)', LegalWrite(r)
    PROVE  FileStep
  <1>1. ASSUME NEW q \in Run \ {r} PROVE FileOK(q)' /\ LegalWrite(q)
    BY <1>1 DEF FileInv, FileOK, OnlyRun, LegalWrite
  <1>2. \A q \in Run : FileOK(q)' /\ LegalWrite(q)
    BY <1>1
  <1>3. ASSUME NEW c \in Cancel, csnap'[c] = "ACTION_SCHEDULED"
        PROVE  st'[About[c]] \in {"ACTION_SCHEDULED", "CANCELLED"}
    <2>1. About[c] \in Run /\ st[About[c]] \in {"ACTION_SCHEDULED", "CANCELLED"}
      BY <1>3, RunAssumption DEF OnlyRun, FileInv, ScheduledCopies
    <2> QED
      BY <1>2, <2>1 DEF LegalWrite
  <1> QED
    BY <1>2, <1>3 DEF FileStep, FileInv, ScheduledCopies

\* A coordinator that only turns to its next step.
FileTurn(r, pc) ==
    /\ rpc' = [rpc EXCEPT ![r] = pc] /\ UNCHANGED <<st, mem, csnap>>
    /\ pc \in Before => rpc[r] \in Before
    /\ pc \in Intending => rpc[r] \in Intending
    /\ pc # "done" => rpc[r] # "done"
    /\ pc \notin Before \cup {"done"} => rpc[r] \notin Before

LEMMA TurnKeepsFiles ==
    ASSUME RunTypeOK, FileInv, NEW r \in Run, NEW pc, FileTurn(r, pc)
    PROVE  FileStep
  <1>1. rpc'[r] = pc /\ st' = st /\ mem' = mem
    BY DEF RunTypeOK, FileTurn
  <1>2. FileOK(r)
    BY DEF FileInv
  <1>3. FileOK(r)'
    BY <1>1, <1>2 DEF FileOK, FileTurn
  <1>4. OnlyRun(r)
    BY DEF OnlyRun, FileTurn, RunTypeOK
  <1>5. LegalWrite(r)
    BY <1>1 DEF LegalWrite
  <1> QED
    BY <1>3, <1>4, <1>5, OneRunWrites

LEMMA TurnsOfAFile ==
    ASSUME RunTypeOK, NEW r \in Run,
           \/ Start(r) \/ Inspect(r) \/ Look(r) \/ Outcome(r) \/ Schedule(r) \/ UnknownLook(r)
           \/ AfterSchedule(r) \/ RollBack(r) \/ RunCrash(r)
    PROVE  \E pc : FileTurn(r, pc)
  <1> USE DEF FileTurn, Before, Intending, fileVars, cliVars, At, Goto
  <1>1. CASE Start(r)
    BY <1>1 DEF Start
  <1>2. CASE Inspect(r)
    BY <1>2 DEF Inspect
  <1>3. CASE Look(r)
    <2>1. /\ rpc[r] \in Looks
          /\ AfterLook(r)[rpc[r]] \notin Before \cup (Intending \ {"schedule"}) \cup {"done"}
          /\ AfterLook(r)[rpc[r]] = "schedule" => rpc[r] = "at_boundary"
      BY <1>3 DEF Look, AfterLook, Looks, Gated
    <2>2. UNCHANGED <<st, mem, csnap>> /\ rpc[r] \notin Before \cup {"done"}
      BY <1>3, <2>1 DEF Look, Looks
    <2>3. PICK pc \in {AfterLook(r)[rpc[r]], "cancelled", "done"} : rpc' = [rpc EXCEPT ![r] = pc]
      BY <1>3 DEF Look
    <2> QED
      BY <2>1, <2>2, <2>3
  <1>4. CASE Outcome(r)
    BY <1>4 DEF Outcome, Gated
  <1>5. CASE Schedule(r)
    BY <1>5 DEF Schedule
  <1>6. CASE UnknownLook(r)
    BY <1>6 DEF UnknownLook
  <1>7. CASE AfterSchedule(r)
    BY <1>7 DEF AfterSchedule
  <1>8. CASE RollBack(r)
    <2>1. /\ rpc[r] \in {"unknown_cancel", "invalid", "rollback"}
          /\ rpc[r] = "rollback" => OnUnconfirmed[rpc[r]] = "done"
      BY <1>8 DEF RollBack, OnConfirmed, OnUnconfirmed
    <2>2. PICK pc \in {OnConfirmed[rpc[r]], OnUnconfirmed[rpc[r]]} : rpc' = [rpc EXCEPT ![r] = pc]
      BY <1>8 DEF RollBack
    <2>3. pc \in {"cancelled", "failed", "resave", "done"}
      BY <2>1, <2>2, ClosingSteps
    <2>4. pc = "resave" => rpc[r] # "rollback"
      BY <2>1, <2>2, ClosingSteps DEF OnConfirmed
    <2> QED
      BY <1>8, <2>1, <2>2, <2>3, <2>4 DEF RollBack
  <1>9. CASE RunCrash(r)
    BY <1>9 DEF RunCrash
  <1> QED
    BY <1>1, <1>2, <1>3, <1>4, <1>5, <1>6, <1>7, <1>8, <1>9

\* Coordinator.move from a copy that is still the file: the table it looks at
\* is the file's.  A failed save ends the run, or rolls a countdown back.
LEMMA MoveKeepsFiles ==
    ASSUME RunTypeOK, FileInv, NEW r \in Run, NEW s \in State, NEW next, NEW otherwise,
           Move(r, s, next, otherwise), UNCHANGED csnap,
           rpc[r] \notin Before \cup {"done"}, next \notin Before,
           next \in Intending => s = "ACTION_INTENT_RECORDED",
           \/ otherwise = "done"
           \/ otherwise = "rollback" /\ s = "ACTION_SCHEDULED" /\ rpc[r] \in Intending,
           s \notin {"ACTION_EXECUTION_UNVERIFIED", "ACTION_EXECUTED_CONFIRMED"},
           mem[r] # "CANCELLED"
    PROVE  FileStep
  <1> DEFINE legal == Transition(mem[r], s)
  <1>1. /\ st \in [Run -> State \cup {"NONE"}] /\ mem \in [Run -> State]
        /\ rpc \in [Run -> RunStep] /\ FileOK(r)
    BY DEF RunTypeOK, FileInv
  <1>2. OnlyRun(r)
    BY <1>1 DEF Move, Save, SaveFails, Goto, OnlyRun
  <1>3. \/ legal /\ mem'[r] = s /\ st'[r] = s /\ rpc'[r] = next
        \/ legal /\ mem'[r] = s /\ st'[r] \in {s, st[r]} /\ rpc'[r] = otherwise
        \/ ~legal /\ mem'[r] = mem[r] /\ st'[r] = st[r] /\ rpc'[r] = otherwise
    BY <1>1 DEF Move, Save, SaveFails, Goto
  <1>4. /\ mem[r] = "ACTION_INTENT_RECORDED" => Transition(mem[r], "ACTION_SCHEDULED")
        /\ legal /\ mem[r] = "ACTION_SCHEDULED" => s = "CANCELLED"
        /\ \A from \in Unresolved : Transition(from, "CANCELLED")
    BY DEF Transition, allowedTransitions, Unresolved
  <1>5. rpc[r] \in Intending => mem[r] = "ACTION_INTENT_RECORDED"
    BY <1>1 DEF FileOK
  <1>6. \/ mem[r] # "ACTION_SCHEDULED" /\ st[r] = mem[r]
        \/ /\ mem[r] = "ACTION_SCHEDULED"
           /\ st[r] \in {"ACTION_INTENT_RECORDED", "ACTION_SCHEDULED", "CANCELLED"}
    BY <1>1 DEF FileOK
  <1>7. FileOK(r)'
    <2>1. CASE legal /\ mem'[r] = s /\ st'[r] = s /\ rpc'[r] = next
      BY <2>1 DEF FileOK
    <2>2. CASE legal /\ mem'[r] = s /\ st'[r] \in {s, st[r]} /\ rpc'[r] = otherwise
      BY <2>2, <1>5, <1>6 DEF FileOK, Before, Intending
    <2>3. CASE ~legal /\ mem'[r] = mem[r] /\ st'[r] = st[r] /\ rpc'[r] = otherwise
      BY <2>3, <1>4, <1>5 DEF FileOK, Before, Intending
    <2> QED
      BY <1>3, <2>1, <2>2, <2>3
  <1>8. LegalWrite(r)
    <2>1. CASE st'[r] = st[r]
      BY <2>1 DEF LegalWrite
    <2>2. CASE legal /\ st'[r] = s /\ mem[r] # "ACTION_SCHEDULED"
      BY <2>2, <1>6 DEF LegalWrite
    <2>3. CASE legal /\ st'[r] = s /\ mem[r] = "ACTION_SCHEDULED"
      BY <2>3, <1>4, <1>6 DEF LegalWrite, Unresolved
    <2> QED
      BY <1>3, <2>1, <2>2, <2>3
  <1> QED
    BY <1>2, <1>7, <1>8, OneRunWrites

LEMMA MovesOfAFile ==
    ASSUME RInv, FileInv, NEW r \in Run,
           Advance(r) \/ RecordIntent(r) \/ Scheduled(r) \/ Conclude(r)
    PROVE  FileStep
  <1> USE DEF State, PreAction, Unresolved, Terminal, Before, Intending, At, cliVars
  <1>1. RunTypeOK /\ (rpc[r] # "done" => mem[r] # "CANCELLED")
    BY DEF RInv, CallInv, Closed
  <1>2. CASE Advance(r)
    BY <1>1, <1>2, MoveKeepsFiles DEF Advance
  <1>3. CASE RecordIntent(r)
    BY <1>1, <1>3, MoveKeepsFiles DEF RecordIntent
  <1>4. CASE Scheduled(r)
    BY <1>1, <1>4, MoveKeepsFiles DEF Scheduled
  <1>5. CASE Conclude(r)
    <2>1. /\ Closing[rpc[r]] \in State \ { "ACTION_EXECUTION_UNVERIFIED",
                                           "ACTION_EXECUTED_CONFIRMED" }
          /\ rpc[r] \notin Before \cup {"done"}
      BY <1>5 DEF Conclude, Closing
    <2> QED
      BY <1>1, <1>5, <2>1, MoveKeepsFiles DEF Conclude
  <1> QED
    BY <1>2, <1>3, <1>4, <1>5

\* Unknown and Resave put the recorded intent back, which is still the file's.
LEMMA WriteBacksOfAFile ==
    ASSUME RunTypeOK, FileInv, NEW r \in Run, Unknown(r) \/ Resave(r)
    PROVE  FileStep
  <1>1. FileOK(r) /\ rpc[r] \in {"unknown", "resave"}
    BY DEF FileInv, Unknown, Resave, At
  <1>2. mem[r] = "ACTION_INTENT_RECORDED" /\ st[r] = mem[r]
    BY <1>1 DEF FileOK, Intending, Before
  <1>3. st' = st
    BY <1>2 DEF Unknown, Resave, Save, SaveFails, RunTypeOK
  <1>4. PICK pc \in {"unknown_look", "done"} : rpc' = [rpc EXCEPT ![r] = pc]
    BY DEF Unknown, Resave, Goto
  <1>5. pc = "unknown_look" => rpc[r] = "unknown"
    BY <1>1, <1>4 DEF RunTypeOK, Unknown, Resave, At, Goto
  <1>6. FileTurn(r, pc)
    BY <1>1, <1>3, <1>4, <1>5 DEF FileTurn, Unknown, Resave, cliVars, Before, Intending
  <1> QED
    BY <1>6, TurnKeepsFiles

LEMMA CreateKeepsFiles ==
    ASSUME RunTypeOK, FileInv, NEW r \in Run, Create(r)
    PROVE  FileStep
  <1>1. rpc[r] = "create" /\ st[r] = "NONE" /\ mem[r] = "ARMED"
    BY DEF Create, At, FileInv, FileOK, Before
  <1>2. /\ \/ rpc'[r] = "done"
           \/ rpc'[r] = "before_agent" /\ st'[r] = "ARMED"
        /\ OnlyRun(r) /\ mem'[r] = mem[r]
    BY <1>1 DEF Create, Save, SaveFails, Goto, OnlyRun, RunTypeOK, cliVars
  <1>3. FileOK(r)' /\ LegalWrite(r)
    BY <1>1, <1>2 DEF FileOK, LegalWrite, Before, Intending
  <1> QED
    BY <1>2, <1>3, OneRunWrites

\* A dead run is not under way: whoever is holds the lock this recovery holds.
LEMMA RecoverKeepsFiles ==
    ASSUME RunTypeOK, HoldInv, FileInv, NEW r \in Run, Recover(r)
    PROVE  FileStep
  <1>1. /\ rpc[r] = "recover" /\ st[r] = "NONE" /\ mem' = mem /\ csnap' = csnap
        /\ r \notin DryRun /\ lock = r
    BY DEF Recover, At, FileInv, FileOK, Before, HoldInv, DrySteps, cliVars
  <1>2. PICK S \in SUBSET {q \in Run \ DryRun : st[q] \in PreAction} :
           st' = [q \in Run |-> IF q \in S THEN "ORPHANED" ELSE st[q]]
    <2>1. CASE \E S \in SUBSET {q \in Run \ DryRun : st[q] \in PreAction} :
                 st' = [q \in Run |-> IF q \in S THEN "ORPHANED" ELSE st[q]]
      BY <2>1, Zenon
    <2> QED
      BY <2>1, Zenon DEF Recover
  <1>3. PICK pc \in {"inspect", "done"} : rpc' = [rpc EXCEPT ![r] = pc]
    BY DEF Recover, Goto
  <1>4. ASSUME NEW q \in Run PROVE FileOK(q)' /\ LegalWrite(q)
    <2>1. FileOK(q)
      BY DEF FileInv
    <2>2. CASE q = r
      BY <1>1, <1>2, <1>3, <2>1, <2>2 DEF FileOK, LegalWrite, Before, Intending, PreAction, RunTypeOK
    <2>3. CASE q # r /\ q \notin S
      BY <1>1, <1>2, <1>3, <2>1, <2>3 DEF FileOK, LegalWrite, RunTypeOK
    <2>4. CASE q # r /\ q \in S
      <3>1. q \notin DryRun /\ st[q] \in PreAction /\ st'[q] = "ORPHANED"
        BY <1>2, <2>4
      <3>2. rpc[q] = "done" /\ rpc'[q] = "done"
        BY <1>1, <1>3, <2>1, <2>4, <3>1 DEF HoldInv, FileOK, Before, PreAction, RunTypeOK
      <3>3. Transition(st[q], "ORPHANED") /\ st[q] \notin {"NONE", "ACTION_SCHEDULED", "CANCELLED"}
        BY <3>1 DEF PreAction, Transition, allowedTransitions
      <3> QED
        BY <3>1, <3>2, <3>3 DEF FileOK, LegalWrite, Before, Intending
    <2> QED
      BY <2>2, <2>3, <2>4
  <1>5. ScheduledCopies'
    <2> SUFFICES ASSUME NEW c \in Cancel, csnap'[c] = "ACTION_SCHEDULED"
                 PROVE  st'[About[c]] \in {"ACTION_SCHEDULED", "CANCELLED"}
      BY DEF ScheduledCopies
    <2>1. About[c] \in Run /\ st[About[c]] \in {"ACTION_SCHEDULED", "CANCELLED"}
      BY <1>1, RunAssumption DEF FileInv, ScheduledCopies
    <2> QED
      BY <1>4, <2>1 DEF LegalWrite
  <1> QED
    BY <1>4, <1>5 DEF FileStep, FileInv

\* `cancel` closes only what it loaded as scheduled.
LEMMA CancelKeepsFiles ==
    ASSUME RInv, FileInv, NEW c \in Cancel,
           CancelLoad(c) \/ CancelCommand(c) \/ CancelCrash(c)
    PROVE  FileStep
  <1> DEFINE r == About[c]
  <1>1. r \in Run /\ FileOK(r)
    BY RunAssumption DEF FileInv
  <1>2. ASSUME UNCHANGED <<st, rpc, mem>>, ScheduledCopies' PROVE FileStep
    BY <1>2 DEF FileStep, FileInv, FileOK, LegalWrite
  <1>3. CASE CancelLoad(c) \/ CancelRequest(c) \/ CancelBackend(c) \/ CancelCrash(c)
    <2>1. UNCHANGED <<st, rpc, mem, csnap>>
      BY <1>3 DEF CancelLoad, CancelRequest, CancelBackend, CancelCrash, fileVars, runVars
    <2> QED
      BY <1>2, <2>1 DEF FileInv, ScheduledCopies
  <1>4. CASE CancelReload(c)
    <2>1. UNCHANGED <<st, rpc, mem>> /\ csnap' = [csnap EXCEPT ![c] = st[r]]
      BY <1>4 DEF CancelReload, fileVars, runVars
    <2>2. ScheduledCopies'
      BY <2>1 DEF FileInv, ScheduledCopies, RInv, RunTypeOK
    <2> QED
      BY <1>2, <2>1, <2>2
  <1>5. CASE CancelSave(c)
    <2>1. csnap[c] = "ACTION_SCHEDULED" /\ rpc[r] \in Behind
      BY <1>5 DEF CancelSave, RInv, CopyInv
    <2>2. st[r] \in {"ACTION_SCHEDULED", "CANCELLED"}
      BY <2>1 DEF FileInv, ScheduledCopies
    <2>3. /\ OnlyRun(r) /\ UNCHANGED <<mem, rpc>> /\ st'[r] \in {st[r], "CANCELLED"}
      BY <1>1, <1>5 DEF CancelSave, Save, SaveFails, OnlyRun, RInv, RunTypeOK, runVars
    <2>4. rpc[r] # "done" => mem[r] # "CANCELLED"
      BY <1>1 DEF RInv, CallInv, Closed
    <2>5. rpc[r] # "done" => mem[r] = "ACTION_SCHEDULED" /\ rpc[r] \notin Before
      BY <1>1, <2>1, <2>2, <2>4 DEF FileOK, Before, Behind
    <2>6. FileOK(r)'
      BY <1>1, <2>2, <2>3, <2>5 DEF FileOK, Before, Intending
    <2>7. LegalWrite(r)
      BY <2>2, <2>3 DEF LegalWrite, Transition, allowedTransitions, Unresolved
    <2> QED
      BY <1>1, <2>3, <2>6, <2>7, OneRunWrites
  <1> QED
    BY <1>3, <1>4, <1>5 DEF CancelCommand

LEMMA FileNext ==
    ASSUME Reconcile = {}, RInv, HoldInv, FileInv, [Next]_vars
    PROVE  FileStep
  <1>0. RunTypeOK
    BY DEF RInv
  <1>1. ASSUME NEW r \in Run,
               \/ Start(r) \/ Inspect(r) \/ Look(r) \/ Outcome(r) \/ Schedule(r) \/ UnknownLook(r)
               \/ AfterSchedule(r) \/ RollBack(r) \/ RunCrash(r)
        PROVE  FileStep
    BY <1>0, <1>1, TurnsOfAFile, TurnKeepsFiles
  <1>2. ASSUME NEW r \in Run, Advance(r) \/ RecordIntent(r) \/ Scheduled(r) \/ Conclude(r)
        PROVE  FileStep
    BY <1>2, MovesOfAFile
  <1>3. ASSUME NEW r \in Run, Unknown(r) \/ Resave(r) PROVE FileStep
    BY <1>0, <1>3, WriteBacksOfAFile
  <1>4. ASSUME NEW r \in Run, Create(r) PROVE FileStep
    BY <1>0, <1>4, CreateKeepsFiles
  <1>5. ASSUME NEW r \in Run, Recover(r) PROVE FileStep
    BY <1>0, <1>5, RecoverKeepsFiles
  <1>6. ASSUME NEW c \in Cancel, CancelLoad(c) \/ CancelCommand(c) \/ CancelCrash(c) PROVE FileStep
    BY <1>6, CancelKeepsFiles
  <1>7. ASSUME UNCHANGED <<st, rpc, mem, csnap>> PROVE FileStep
    BY <1>7 DEF FileStep, FileInv, FileOK, ScheduledCopies, LegalWrite
  <1>8. ASSUME NEW r \in Run, IntentDeadline(r) \/ Deadline(r) \/ Fire(r) PROVE FileStep
    BY <1>7, <1>8 DEF IntentDeadline, Deadline, Fire, fileVars, runVars, cliVars
  <1>9. ASSUME NEW p \in Plugin, PluginLock(p) \/ PluginSchedule(p) \/ PluginSettle(p)
        PROVE  FileStep
    BY <1>7, <1>9 DEF PluginLock, PluginSchedule, PluginSettle, fileVars, runVars, cliVars
  <1>10. CASE UNCHANGED vars
    BY <1>7, <1>10 DEF vars, fileVars, runVars, cliVars
  <1> QED
    BY <1>1, <1>2, <1>3, <1>4, <1>5, <1>6, <1>8, <1>9, <1>10 DEF Next, Coordinator

LEMMA FileInit == Init => FileInv
  BY RunAssumption DEF Init, FileInv, FileOK, ScheduledCopies, Before, Intending

\* machine.go's table, about the file: without `reconcile`, no save that fails,
\* crash, recovery of a dead run or `cancel` beside the coordinator makes a move
\* the table does not have, although every writer checks only its own copy.
THEOREM MovesAreLegal ==
    ASSUME Reconcile = {}
    PROVE  Spec => TransitionsLegal
  <1> DEFINE Legal == \A r \in Run : st[r] \in State /\ st'[r] # st[r] => Transition(st[r], st'[r])
  <1>1. FileStep => Legal
    BY DEF FileStep, LegalWrite, State, PreAction, Unresolved, Terminal
  <1>2. RInv /\ HoldInv /\ FileInv /\ [Next]_vars => FileInv' /\ Legal
    BY <1>1, FileNext DEF FileStep
  <1>3. Spec => [](RInv /\ HoldInv /\ FileInv)
    <2>1. RInv /\ HoldInv /\ FileInv /\ [Next]_vars => FileInv'
      BY <1>2
    <2>2. Init => FileInv
      BY FileInit
    <2> QED
      BY <2>1, <2>2, SerialInvHolds, PTL DEF Spec
  <1>4. RInv /\ HoldInv /\ FileInv /\ [Next]_vars => [Legal]_vars
    BY <1>2
  <1> QED
    BY <1>3, <1>4, PTL DEF Spec, TransitionsLegal
=============================================================================
