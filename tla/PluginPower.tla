---------------------------- MODULE PluginPower ----------------------------
(***************************************************************************)
(* One plugin job and everybody who may touch its power action: the        *)
(* one-shot supervisor (internal/pluginpower), the Hook handlers           *)
(* (internal/hookobserver), the detached cancel-only workers and the CLI   *)
(* and MCP cancellations (internal/cli, internal/pluginapi), the durable   *)
(* job projection, revocation markers and create-once recovery records     *)
(* (internal/pluginstate), the machine power lock, and the power backend   *)
(* seen through its Schedule/Cancel calls (internal/actions).              *)
(*                                                                         *)
(* A step is one store transaction (UpdateJob holds the state lock), one   *)
(* lock-free read, one durable record write, one backend call or one       *)
(* attempt at the machine lock; anything may happen between two of them.   *)
(***************************************************************************)
EXTENDS Naturals, FiniteSets

CONSTANTS
    Job,          \* non-dry-run plugin jobs, each with a supervisor of its own
    BarrierJob,   \* the jobs whose policy is after_all_stop; the rest are after_stop
    Prompt,       \* UserPromptSubmit hook invocations
    Stop,         \* Stop hook invocations
    SessionEnd,   \* SessionEnd hook invocations
    Cli,          \* `done-then cancel` invocations
    Mcp,          \* MCP cancel tool invocations
    Target,       \* the job each invocation is about
    Faults,       \* the fault classes this instance may meet
    NoOne         \* nobody holds the machine power lock

Hook  == Prompt \cup Stop \cup SessionEnd
Actor == Hook \cup Cli \cup Mcp

FaultClass == { "supervisor_crash", "hook_crash", "worker_crash", "update_fails",
                "launch_fails", "cancel_fails", "schedule_fails", "gate_refuses",
                "late_schedule", "clock_stall" }

ASSUME PowerAssumption ==
    /\ BarrierJob \subseteq Job
    /\ Target \in [Actor -> Job]
    /\ Faults \subseteq FaultClass
    /\ Prompt \cap (Stop \cup SessionEnd \cup Cli \cup Mcp) = {}
    /\ Stop \cap (SessionEnd \cup Cli \cup Mcp) = {}
    /\ SessionEnd \cap (Cli \cup Mcp) = {}
    /\ Cli \cap Mcp = {}
    /\ Job \cap Actor = {}
    /\ NoOne \notin Job \cup Actor

VARIABLES
    st, gen, creq,           \* job.json: State, Generation, CancelRequested
    env, call, seal, res,    \* recovery records: envelope, call start, receipt, resolution
    pend,                    \* revocation markers on disk, by the hook that wrote them
    timer, due, queued,      \* the backend: countdown, its deadline, a request not yet run
    calls,                   \* how often Backend.Schedule was entered (history)
    early,                   \* the markers on disk when power.intent was written (history)
    lock,                    \* holder of the machine power lock
    spc, sgen, snap,         \* supervisor: step, captured generation, last Load
    apc, need,               \* invocations: step, and whether a marker was needed
    wpc                      \* cancel-only worker of an invocation: step

jobVars == <<st, gen, creq>>
recVars == <<env, call, seal, res>>
backVars == <<timer, due, queued, calls>>
supVars == <<spc, sgen, snap>>
actVars == <<apc, need>>
vars == <<jobVars, recVars, pend, backVars, early, lock, supVars, actVars, wpc>>

-----------------------------------------------------------------------------
(* Job states.  REFUSED stands for every terminal state a gate or a hook   *)
(* gives a job before any power action (HOOK_UNAVAILABLE, EXPIRED,         *)
(* CONCURRENT_CONFLICT, PRIVILEGE_UNAVAILABLE, ...), UNARMED for a job not *)
(* on disk yet.  For a barrier, a Stop is the one that satisfies it and a  *)
(* Prompt the resumption of a stopped target.                              *)

Observing == {"ARMED", "STOP_OBSERVED"}
Unresolved == {"ACTION_INTENT", "ACTION_SCHEDULED"}
Terminal == {"REFUSED", "CANCELLED", "ACTION_FAILED"}
State == {"UNARMED"} \cup Observing \cup Unresolved \cup Terminal

HasUnresolvedPowerAction(j) == st[j] \in Unresolved
Live(j) == st[j] \notin Terminal \cup {"UNARMED"}
NoSnap == [st |-> "ARMED", gen |-> 0, creq |-> FALSE]

Fault(f) == f \in Faults

\* Mutation: the generation counts down.
WriteJobBackwards(j, s, bump, c) ==
    /\ st' = [st EXCEPT ![j] = s]
    /\ gen' = [gen EXCEPT ![j] = IF bump THEN @ - 1 ELSE @]
    /\ creq' = [creq EXCEPT ![j] = c]

\* One UpdateJob transaction: the state, the generation bump, CancelRequested.
WriteJob(j, s, bump, c) ==
    /\ st' = [st EXCEPT ![j] = s]
    /\ gen' = [gen EXCEPT ![j] = IF bump THEN @ + 1 ELSE @]
    /\ creq' = [creq EXCEPT ![j] = c]

\* Mutation: a cancellation is written down before the backend confirmed it.
CancelAtOnce(j) == WriteJob(j, "CANCELLED", TRUE, TRUE)

\* requestPowerCancellation: an unresolved action is only ever flagged.
RequestPowerCancellation(j) == WriteJob(j, st[j], TRUE, TRUE)

-----------------------------------------------------------------------------
(* The power backend, as its callers see it.                               *)

OtherCountdown(j) == \E k \in Job \ {j} : timer[k] = "armed"

\* Backend.Schedule: accepted; or an error with no effect, with the effect
\* although the answer was lost, or (late_schedule) with the effect to come.
ScheduleAccepted(j) ==
    /\ ~OtherCountdown(j)
    /\ timer' = [timer EXCEPT ![j] = "armed"]
    /\ UNCHANGED queued

ScheduleOutcomeUnknown(j) ==
    \/ UNCHANGED <<timer, queued>>
    \/ ScheduleAccepted(j)
    \/ /\ Fault("late_schedule")
       /\ queued' = [queued EXCEPT ![j] = TRUE]
       /\ UNCHANGED timer

\* Backend.Cancel: positive evidence that nothing is counting down, or an
\* error after which the countdown may or may not still be running.
CancelConfirmed(j) ==
    /\ timer' = [timer EXCEPT ![j] = IF @ = "armed" THEN "off" ELSE @]
    /\ UNCHANGED <<due, queued, calls>>

CancelUnconfirmed(j) ==
    /\ Fault("cancel_fails")
    /\ \/ UNCHANGED timer
       \/ timer' = [timer EXCEPT ![j] = IF @ = "armed" THEN "off" ELSE @]
    /\ UNCHANGED <<due, queued, calls>>

\* PersistRecoveryResolution(cancelled): keeps an existing resolution, and is
\* invalid before the call started.
ResolveCancelled(j) ==
    res' = [res EXCEPT ![j] = IF @ = "none" /\ call[j] THEN "cancelled" ELSE @]

\* ... and of no_action, which is invalid once the call started.
ResolveNoAction(j) ==
    res' = [res EXCEPT ![j] = IF @ = "none" /\ ~call[j] THEN "no_action" ELSE @]

-----------------------------------------------------------------------------
(* The supervisor of job j.                                                *)

Holding == { "inventory", "load1", "check1", "load2", "check2", "envelope", "intent",
             "load3", "check3", "abort", "aborted", "call", "callwrite", "backend",
             "unknown", "seal", "load4", "check4", "commit", "rollback",
             "rollback_resolve", "rolled_back", "rollback_failed" }
Cancelling == {"cancel", "cancel_resolve", "cancelled", "cancel_failed"}
SupStep == Holding \cup Cancelling
             \cup {"idle", "run", "lock", "fail", "monitor", "watch", "done"}

Goto(j, pc) == spc' = [spc EXCEPT ![j] = pc]
Release(p) == lock' = IF lock = p THEN NoOne ELSE lock

\* schedule() returns: its deferred Release runs, and Run loops or exits.
LeaveSchedule(j, pc) == Goto(j, pc) /\ Release(j)

LoadJob(j) == snap' = [snap EXCEPT ![j] = [st |-> st[j], gen |-> gen[j], creq |-> creq[j]]]

\* Store.BarrierAuthority: for a barrier, one locked read of job and markers.
BarrierAuthority(j) ==
    j \in BarrierJob => st[j] # "ARMED" /\ pend[j] = {} /\ ~creq[j]

\* Mutation: the supervisor looks at no marker.
MarkersIgnored(j) == TRUE

\* pendingRevocationReason and BarrierAuthority find nothing.
RevocationFree(j) == pend[j] = {} /\ BarrierAuthority(j)

\* The MCP arm call, up to the bound job and its detached supervisor.
Arm(j) ==
    /\ st[j] = "UNARMED"
    /\ WriteJob(j, "ARMED", FALSE, FALSE)
    /\ Goto(j, "run")
    /\ UNCHANGED <<recVars, pend, backVars, early, lock, sgen, snap, actVars, wpc>>

\* The main loop: a terminal job ends it, an unresolved one is monitored or
\* left to recovery, an observed Stop is scheduled, an expired arm fails.
SupRun(j) ==
    /\ spc[j] = "run"
    /\ \/ st[j] \in Terminal \cup {"ACTION_INTENT"} /\ Goto(j, "done")
       \/ st[j] = "ACTION_SCHEDULED" /\ Goto(j, "monitor")
       \/ st[j] = "STOP_OBSERVED" /\ Goto(j, "lock")
       \/ st[j] \in Observing /\ Fault("gate_refuses") /\ Goto(j, "fail")
    /\ UNCHANGED <<jobVars, recVars, pend, backVars, early, lock, sgen, snap, actVars, wpc>>

\* fail(): closes the job whatever it has become, except a terminal or a
\* scheduled one; the power lock, if held, is released on the way out.
SupFail(j) ==
    /\ spc[j] = "fail"
    /\ IF st[j] \in Terminal \cup {"ACTION_SCHEDULED"}
         THEN UNCHANGED jobVars
         ELSE WriteJob(j, "REFUSED", FALSE, creq[j])
    /\ LeaveSchedule(j, "run")
    /\ UNCHANGED <<recVars, pend, backVars, early, sgen, snap, actVars, wpc>>

\* The machine lock is tried once.
SupLock(j) ==
    /\ spc[j] = "lock"
    /\ \/ lock = NoOne /\ lock' = j /\ Goto(j, "inventory")
       \/ lock # NoOne /\ Goto(j, "fail") /\ UNCHANGED lock
    /\ UNCHANGED <<jobVars, recVars, pend, backVars, early, sgen, snap, actVars, wpc>>

\* Mutation: the machine lock is thought to be enough.
NoInventory(j) ==
    /\ spc[j] = "inventory"
    /\ Goto(j, "load1")
    /\ UNCHANGED <<jobVars, recVars, pend, backVars, early, lock, sgen, snap, actVars, wpc>>

\* UnresolvedPowerJobs: any other active or unresolved job refuses this one.
SupInventory(j) ==
    /\ spc[j] = "inventory"
    /\ Goto(j, IF \E k \in Job \ {j} : Live(k) THEN "fail" ELSE "load1")
    /\ UNCHANGED <<jobVars, recVars, pend, backVars, early, lock, sgen, snap, actVars, wpc>>

SupLoad(j) ==
    /\ \/ /\ spc[j] = "load1"
          /\ IF st[j] = "STOP_OBSERVED" THEN Goto(j, "check1") /\ UNCHANGED lock
                                        ELSE LeaveSchedule(j, "run")
       \/ /\ spc[j] = "load2"
          /\ IF st[j] = "STOP_OBSERVED" /\ gen[j] = sgen[j]
               THEN Goto(j, "check2") /\ UNCHANGED lock
               ELSE LeaveSchedule(j, "run")
       \/ /\ spc[j] = "load3"
          /\ IF st[j] = "ACTION_INTENT" THEN Goto(j, "check3") /\ UNCHANGED lock
                                        ELSE LeaveSchedule(j, "run")
       \/ spc[j] = "load4" /\ Goto(j, "check4") /\ UNCHANGED lock
    /\ LoadJob(j)
    /\ UNCHANGED <<jobVars, recVars, pend, backVars, early, sgen, actVars, wpc>>

\* The gates before quiescence: revocations, binding, authority, arbitration.
\* The generation the rest of schedule() insists on is captured here.
SupCheck1(j) ==
    /\ spc[j] = "check1"
    /\ \/ RevocationFree(j) /\ Goto(j, "load2")
       \/ (~RevocationFree(j) \/ Fault("gate_refuses")) /\ Goto(j, "fail")
    /\ sgen' = [sgen EXCEPT ![j] = IF j \in BarrierJob THEN gen[j] ELSE snap[j].gen]
    /\ UNCHANGED <<jobVars, recVars, pend, backVars, early, lock, snap, actVars, wpc>>

\* The same gates after quiescence, and the backend's preflight.
SupCheck2(j) ==
    /\ spc[j] = "check2"
    /\ \/ RevocationFree(j) /\ Goto(j, "envelope")
       \/ (~RevocationFree(j) \/ Fault("gate_refuses")) /\ Goto(j, "fail")
    /\ UNCHANGED <<jobVars, recVars, pend, backVars, early, lock, sgen, snap, actVars, wpc>>

\* The envelope is create-once: a second attempt of the same job fails.
SupEnvelope(j) ==
    /\ spc[j] = "envelope"
    /\ Goto(j, IF env[j] THEN "fail" ELSE "intent")
    /\ env' = [env EXCEPT ![j] = TRUE]
    /\ UNCHANGED <<jobVars, call, seal, res, pend, backVars, early, lock, sgen, snap,
                   actVars, wpc>>

\* power.intent: only the job that was checked, unchanged, gets an intent.
SupIntent(j) ==
    /\ spc[j] = "intent"
    /\ IF st[j] = "STOP_OBSERVED" /\ gen[j] = sgen[j]
         THEN /\ WriteJob(j, "ACTION_INTENT", FALSE, creq[j])
              /\ early' = [early EXCEPT ![j] = pend[j]]
              /\ Goto(j, "load3")
              /\ UNCHANGED lock
         ELSE LeaveSchedule(j, "run") /\ UNCHANGED <<jobVars, early>>
    /\ UNCHANGED <<recVars, pend, backVars, sgen, snap, actVars, wpc>>

\* The last look before the no-retry boundary.
SupCheck3(j) ==
    /\ spc[j] = "check3"
    /\ \/ /\ RevocationFree(j) /\ ~snap[j].creq /\ snap[j].gen = sgen[j]
          /\ Goto(j, "call")
       \/ /\ ~RevocationFree(j) \/ snap[j].creq \/ snap[j].gen # sgen[j]
             \/ Fault("gate_refuses")
          /\ Goto(j, "abort")
    /\ UNCHANGED <<jobVars, recVars, pend, backVars, early, lock, sgen, snap, actVars, wpc>>

\* abortIntentBeforeSchedule: resolve as no_action, then cancel the intent.
SupAbort(j) ==
    /\ spc[j] = "abort"
    /\ ResolveNoAction(j)
    /\ IF res[j] = "none" /\ call[j] THEN LeaveSchedule(j, "done")
                                     ELSE Goto(j, "aborted") /\ UNCHANGED lock
    /\ UNCHANGED <<jobVars, env, call, seal, pend, backVars, early, sgen, snap, actVars, wpc>>

SupAborted(j) ==
    /\ spc[j] = "aborted"
    /\ IF st[j] = "ACTION_INTENT" THEN WriteJob(j, "CANCELLED", FALSE, TRUE)
                                  ELSE UNCHANGED jobVars
    /\ LeaveSchedule(j, "run")
    /\ UNCHANGED <<recVars, pend, backVars, early, sgen, snap, actVars, wpc>>

\* PersistScheduleCallStarted reads the authority and then writes: only the
\* machine lock keeps a resolution from being written in between.
SupCall(j) ==
    /\ spc[j] = "call"
    /\ Goto(j, IF res[j] # "none" \/ call[j] THEN "abort" ELSE "callwrite")
    /\ UNCHANGED <<jobVars, recVars, pend, backVars, early, lock, sgen, snap, actVars, wpc>>

\* Mutation: the backend is called without a durable call-start record.
CallWithoutRecord(j) ==
    /\ spc[j] = "callwrite"
    /\ Goto(j, "backend")
    /\ UNCHANGED <<jobVars, recVars, pend, backVars, early, lock, sgen, snap, actVars, wpc>>

SupCallWrite(j) ==
    /\ spc[j] = "callwrite"
    /\ call' = [call EXCEPT ![j] = TRUE]
    /\ Goto(j, "backend")
    /\ UNCHANGED <<jobVars, env, seal, res, pend, backVars, early, lock, sgen, snap,
                   actVars, wpc>>

\* Backend.Schedule.  A receipt that does not validate is rolled back.
SupSchedule(j) ==
    /\ spc[j] = "backend"
    /\ calls' = [calls EXCEPT ![j] = @ + 1]
    /\ \/ ScheduleAccepted(j) /\ Goto(j, "seal")
       \/ ScheduleAccepted(j) /\ Fault("schedule_fails") /\ Goto(j, "rollback")
       \/ /\ Fault("schedule_fails") \/ OtherCountdown(j)
          /\ ScheduleOutcomeUnknown(j)
          /\ Goto(j, "unknown")
    /\ UNCHANGED <<jobVars, recVars, pend, due, early, lock, sgen, snap, actVars, wpc>>

\* Mutation: an unknown outcome is retried.
RetrySchedule(j) ==
    /\ spc[j] = "unknown"
    /\ \/ st[j] # "ACTION_INTENT" /\ LeaveSchedule(j, "run")
       \/ st[j] = "ACTION_INTENT" /\ creq[j] /\ Goto(j, "cancel") /\ UNCHANGED lock
       \/ st[j] = "ACTION_INTENT" /\ ~creq[j] /\ Goto(j, "backend") /\ UNCHANGED lock
    /\ UNCHANGED <<jobVars, recVars, pend, backVars, early, sgen, snap, actVars, wpc>>

\* The outcome is unknown: a requested cancellation is tried, else the intent
\* is left for recovery and the supervisor exits.
SupUnknown(j) ==
    /\ spc[j] = "unknown"
    /\ \/ st[j] # "ACTION_INTENT" /\ LeaveSchedule(j, "run")
       \/ st[j] = "ACTION_INTENT" /\ creq[j] /\ Goto(j, "cancel") /\ UNCHANGED lock
       \/ st[j] = "ACTION_INTENT" /\ ~creq[j] /\ LeaveSchedule(j, "done")
    /\ UNCHANGED <<jobVars, recVars, pend, backVars, early, sgen, snap, actVars, wpc>>

\* Mutation: the failure to seal the receipt is ignored.
GoOnUnsealed(j) ==
    /\ spc[j] = "seal"
    /\ Goto(j, "load4")
    /\ UNCHANGED <<jobVars, recVars, pend, backVars, early, lock, sgen, snap, actVars, wpc>>

\* PersistScheduleReceipt.
SupSeal(j) ==
    /\ spc[j] = "seal"
    /\ IF res[j] = "none" /\ call[j]
         THEN seal' = [seal EXCEPT ![j] = TRUE] /\ Goto(j, "load4")
         ELSE Goto(j, "rollback") /\ UNCHANGED seal
    /\ UNCHANGED <<jobVars, env, call, res, pend, backVars, early, lock, sgen, snap,
                   actVars, wpc>>

\* After the call: cancel what was revoked meanwhile, roll back what changed.
SupCheck4(j) ==
    /\ spc[j] = "check4"
    /\ LET revoked == snap[j].creq \/ ~RevocationFree(j)
           changed == snap[j].st # "ACTION_INTENT" \/ snap[j].gen # sgen[j]
       IN \/ (revoked \/ Fault("gate_refuses")) /\ Goto(j, "cancel")
          \/ ~revoked /\ Goto(j, IF changed THEN "rollback" ELSE "commit")
    /\ UNCHANGED <<jobVars, recVars, pend, backVars, early, lock, sgen, snap, actVars, wpc>>

\* power.scheduled; the power lock is released and the countdown monitored.
SupCommit(j) ==
    /\ spc[j] = "commit"
    /\ IF st[j] = "ACTION_INTENT" /\ gen[j] = sgen[j]
         THEN WriteJob(j, "ACTION_SCHEDULED", FALSE, creq[j]) /\ LeaveSchedule(j, "run")
         ELSE Goto(j, "rollback") /\ UNCHANGED <<jobVars, lock>>
    /\ UNCHANGED <<recVars, pend, backVars, early, sgen, snap, actVars, wpc>>

\* Mutation: an unconfirmed cancellation is taken for a confirmed one.
TrustCancel(j) ==
    /\ spc[j] = "cancel"
    /\ CancelConfirmed(j) \/ CancelUnconfirmed(j)
    /\ Goto(j, "cancel_resolve")
    /\ UNCHANGED <<jobVars, recVars, pend, early, lock, sgen, snap, actVars, wpc>>

\* cancelPowerForReason: the backend first, the durable resolution next, the
\* job last.  Inside schedule() the lock is held, in the monitor it is not.
SupCancel(j) ==
    /\ spc[j] = "cancel"
    /\ \/ CancelConfirmed(j) /\ Goto(j, "cancel_resolve")
       \/ CancelUnconfirmed(j) /\ Goto(j, "cancel_failed")
    /\ UNCHANGED <<jobVars, recVars, pend, early, lock, sgen, snap, actVars, wpc>>

SupCancelResolve(j) ==
    /\ spc[j] = "cancel_resolve"
    /\ ResolveCancelled(j)
    /\ Goto(j, "cancelled")
    /\ UNCHANGED <<jobVars, env, call, seal, pend, backVars, early, lock, sgen, snap,
                   actVars, wpc>>

SupCancelled(j) ==
    /\ spc[j] = "cancelled"
    /\ IF HasUnresolvedPowerAction(j) THEN WriteJob(j, "CANCELLED", FALSE, TRUE)
                                      ELSE UNCHANGED jobVars
    /\ LeaveSchedule(j, IF lock = j THEN "run" ELSE "done")
    /\ UNCHANGED <<recVars, pend, backVars, early, sgen, snap, actVars, wpc>>

\* Not confirmed: the request stays on record; the monitor tries again, a
\* supervisor still inside schedule() exits with the intent unresolved.
SupCancelFailed(j) ==
    /\ spc[j] = "cancel_failed"
    /\ IF HasUnresolvedPowerAction(j) THEN WriteJob(j, st[j], FALSE, TRUE)
                                      ELSE UNCHANGED jobVars
    /\ LeaveSchedule(j, IF lock = j THEN "done" ELSE "monitor")
    /\ UNCHANGED <<recVars, pend, backVars, early, sgen, snap, actVars, wpc>>

\* cancelAcceptedAction: roll an accepted action back, or leave an intent.
SupRollback(j) ==
    /\ spc[j] = "rollback"
    /\ \/ CancelConfirmed(j) /\ Goto(j, "rollback_resolve")
       \/ CancelUnconfirmed(j) /\ Goto(j, "rollback_failed")
    /\ UNCHANGED <<jobVars, recVars, pend, early, lock, sgen, snap, actVars, wpc>>

SupRollbackResolve(j) ==
    /\ spc[j] = "rollback_resolve"
    /\ ResolveCancelled(j)
    /\ Goto(j, "rolled_back")
    /\ UNCHANGED <<jobVars, env, call, seal, pend, backVars, early, lock, sgen, snap,
                   actVars, wpc>>

SupRolledBack(j) ==
    /\ spc[j] \in {"rolled_back", "rollback_failed"}
    /\ IF st[j] \in Terminal
         THEN UNCHANGED jobVars
         ELSE WriteJob(j, IF spc[j] = "rolled_back" THEN "ACTION_FAILED" ELSE "ACTION_INTENT",
                       FALSE, creq[j])
    /\ LeaveSchedule(j, "done")
    /\ UNCHANGED <<recVars, pend, backVars, early, sgen, snap, actVars, wpc>>

\* monitorScheduled: one turn of the countdown loop, without the machine lock.
SupMonitor(j) ==
    /\ spc[j] = "monitor"
    /\ LoadJob(j)
    /\ Goto(j, IF st[j] \in Terminal THEN "done"
               ELSE IF st[j] = "ACTION_SCHEDULED" THEN "watch" ELSE "cancel")
    /\ UNCHANGED <<jobVars, recVars, pend, backVars, early, lock, sgen, actVars, wpc>>

\* A request, a missed deadline, a revocation or a refusing gate cancels; a
\* deadline met in time ends the watch; otherwise it goes on.
SupWatch(j) ==
    /\ spc[j] = "watch"
    /\ LET revoked == snap[j].creq \/ ~RevocationFree(j)
       IN \/ snap[j].creq /\ Goto(j, "cancel")
          \/ ~snap[j].creq /\ due[j] /\ Goto(j, "done")
          \/ ~snap[j].creq /\ due[j] /\ Fault("clock_stall") /\ Goto(j, "cancel")
          \/ ~due[j] /\ (revoked \/ Fault("gate_refuses")) /\ Goto(j, "cancel")
          \/ ~due[j] /\ ~revoked /\ Goto(j, "monitor")
    /\ UNCHANGED <<jobVars, recVars, pend, backVars, early, lock, sgen, snap, actVars, wpc>>

\* The process dies, or leaves on an error path, between any two steps; the
\* operating system releases its lock.
SupCrash(j) ==
    /\ Fault("supervisor_crash")
    /\ spc[j] \notin {"idle", "done"}
    /\ LeaveSchedule(j, "done")
    /\ UNCHANGED <<jobVars, recVars, pend, backVars, early, sgen, snap, actVars, wpc>>

-----------------------------------------------------------------------------
(* The backend on its own: the deadline arrives, the countdown fires, and  *)
(* a request whose caller gave up is executed after all.                   *)

Deadline(j) ==
    /\ timer[j] = "armed" /\ ~due[j]
    /\ due' = [due EXCEPT ![j] = TRUE]
    /\ UNCHANGED <<jobVars, recVars, pend, timer, queued, calls, early, lock, supVars,
                   actVars, wpc>>

Fire(j) ==
    /\ timer[j] = "armed" /\ due[j]
    /\ timer' = [timer EXCEPT ![j] = "fired"]
    /\ UNCHANGED <<jobVars, recVars, pend, due, queued, calls, early, lock, supVars,
                   actVars, wpc>>

LateSchedule(j) ==
    /\ queued[j]
    /\ queued' = [queued EXCEPT ![j] = FALSE]
    /\ timer' = IF OtherCountdown(j) THEN timer ELSE [timer EXCEPT ![j] = "armed"]
    /\ UNCHANGED <<jobVars, recVars, pend, due, calls, early, lock, supVars, actVars, wpc>>

-----------------------------------------------------------------------------
(* The Hook handlers.  A Prompt also stands for a Stop delivered with      *)
(* stop_hook_active: both continue the conversation and have one effect.   *)

At(a, pc) == apc[a] = pc
Step(a, pc) == apc' = [apc EXCEPT ![a] = pc]

\* LookupObservedSession, before anything is written: a Stop takes the
\* revocation path when it saw an unresolved action or a foreign workspace, a
\* SessionEnd unless it saw its Stop accepted (a barrier target that resumed
\* during the action is no longer stopped).
HookCapture(h) ==
    LET j == Target[h]
        accepted == st[j] # "ARMED"
        resumed == j \in BarrierJob /\ creq[j]
    IN /\ At(h, "idle")
       /\ \/ ~Live(j) /\ st[j] # "UNARMED" /\ Step(h, "done")
          \/ /\ Live(j)
             /\ \/ h \in Prompt
                \/ h \in Stop /\ (HasUnresolvedPowerAction(j) \/ Fault("gate_refuses"))
                \/ h \in SessionEnd /\ (~accepted \/ resumed)
             /\ Step(h, "marker")
          \/ /\ Live(j)
             /\ \/ h \in Stop /\ ~HasUnresolvedPowerAction(j)
                \/ h \in SessionEnd /\ accepted
             /\ Step(h, "plain")
       /\ UNCHANGED <<jobVars, recVars, pend, backVars, early, lock, supVars, need, wpc>>

\* A terminal barrier has released its session indexes: its hooks no longer
\* find the job they captured.
Found(j) == Live(j) \/ j \notin BarrierJob

\* CreateRevocationMarker: nothing to revoke on a job found terminal; the
\* write of the marker may fail.
HookMarker(h) ==
    LET j == Target[h]
        wanted == Live(j) \/ ~Found(j)
    IN /\ At(h, "marker")
       /\ Step(h, "update")
       /\ \/ ~wanted /\ need' = [need EXCEPT ![h] = "no"] /\ UNCHANGED pend
          \/ /\ wanted
             /\ need' = [need EXCEPT ![h] = "yes"]
             /\ pend' = [pend EXCEPT ![j] = @ \cup {h}]
          \/ /\ wanted /\ Fault("update_fails")
             /\ need' = [need EXCEPT ![h] = "failed"]
             /\ UNCHANGED pend
       /\ UNCHANGED <<jobVars, recVars, backVars, early, lock, supVars, wpc>>

\* What a new prompt, a Stop and a session end do to the job.
PromptEffect(j) ==
    \/ ~Live(j) /\ UNCHANGED jobVars
    \/ HasUnresolvedPowerAction(j) /\ RequestPowerCancellation(j)
    \/ st[j] \in Observing /\ j \notin BarrierJob /\ WriteJob(j, "CANCELLED", TRUE, TRUE)
    \/ st[j] \in Observing /\ j \in BarrierJob /\ WriteJob(j, "ARMED", TRUE, creq[j])

StopEffect(j) ==
    \/ ~Live(j) /\ UNCHANGED jobVars
    \/ /\ HasUnresolvedPowerAction(j) /\ (j \notin BarrierJob \/ Fault("gate_refuses"))
       /\ RequestPowerCancellation(j)
    \/ HasUnresolvedPowerAction(j) /\ j \in BarrierJob /\ UNCHANGED jobVars
    \/ st[j] = "ARMED" /\ WriteJob(j, "STOP_OBSERVED", j \in BarrierJob, creq[j])
    \/ st[j] = "STOP_OBSERVED" /\ j \notin BarrierJob /\ WriteJob(j, "CANCELLED", TRUE, TRUE)
    \/ st[j] = "STOP_OBSERVED" /\ j \in BarrierJob /\ UNCHANGED jobVars

SessionEndEffect(j) ==
    \/ st[j] = "ARMED" /\ WriteJob(j, "REFUSED", TRUE, j \in BarrierJob /\ creq[j])
    \/ st[j] # "ARMED" /\ UNCHANGED jobVars
    \/ /\ HasUnresolvedPowerAction(j) /\ j \in BarrierJob /\ creq[j]
       /\ RequestPowerCancellation(j)

\* A Stop on the revocation path that finds no action came from a foreign
\* workspace; any other hook may find the arm expired.
HookEffect(h) ==
    LET j == Target[h]
        foreign == h \in Stop /\ At(h, "update") /\ st[j] \in Observing
    IN \/ h \in Prompt /\ PromptEffect(j)
       \/ h \in Stop /\ ~foreign /\ StopEffect(j)
       \/ foreign /\ WriteJob(j, "REFUSED", TRUE, creq[j])
       \/ h \in SessionEnd /\ SessionEndEffect(j)
       \/ /\ h \notin SessionEnd /\ st[j] \in Observing /\ Fault("gate_refuses")
          /\ \E c \in {creq[j], FALSE} : WriteJob(j, "REFUSED", TRUE, c)

\* Mutation: an applied update is enough to drop the marker.
RecoverUnapplied(h, s) == need[h] = "failed" \/ (need[h] = "yes" /\ ~Found(Target[h]))

\* observeRevocation's needsWorker: the marker could not be written, the update
\* found no job, or it left a power action to settle.
NeedsWorker(h, s) ==
    need[h] = "failed" \/ (need[h] = "yes" /\ (~Found(Target[h]) \/ s \in Unresolved))

\* UpdateObservedSessionBinding, then the decision whether a worker must take
\* over; a failed update always needs one.
HookUpdate(h) ==
    LET j == Target[h]
    IN /\ \/ At(h, "plain") /\ HookEffect(h) /\ Step(h, "done")
          \/ At(h, "plain") /\ Fault("update_fails") /\ UNCHANGED jobVars /\ Step(h, "done")
          \/ /\ At(h, "update") /\ HookEffect(h)
             /\ Step(h, IF NeedsWorker(h, st'[j]) THEN "launch"
                        ELSE IF need[h] = "yes" THEN "cleanup" ELSE "done")
          \/ /\ At(h, "update") /\ Fault("update_fails") /\ UNCHANGED jobVars
             /\ Step(h, IF need[h] # "no" THEN "launch" ELSE "done")
       /\ UNCHANGED <<recVars, pend, backVars, early, lock, supVars, need, wpc>>

\* EnsureCancelWorker; if it cannot start, the job itself is flagged or closed.
HookLaunch(h) ==
    LET j == Target[h]
    IN /\ At(h, "launch")
       /\ Step(h, "done")
       /\ \/ wpc' = [wpc EXCEPT ![h] = "lock"] /\ UNCHANGED jobVars
          \/ /\ Fault("launch_fails")
             /\ \/ HasUnresolvedPowerAction(j) /\ RequestPowerCancellation(j)
                \/ st[j] \in Observing /\ WriteJob(j, "REFUSED", TRUE, creq[j])
                \/ ~Live(j) /\ UNCHANGED jobVars
             /\ UNCHANGED wpc
       /\ UNCHANGED <<recVars, pend, backVars, early, lock, supVars, need>>

\* CompleteRevocation: the update proved there is no power action to recover.
HookCleanup(h) ==
    /\ At(h, "cleanup")
    /\ Step(h, "done")
    /\ pend' = [pend EXCEPT ![Target[h]] = @ \ {h}]
    /\ UNCHANGED <<jobVars, recVars, backVars, early, lock, supVars, need, wpc>>

\* The host kills a hook that exceeds its three seconds.
HookCrash(h) ==
    /\ Fault("hook_crash")
    /\ apc[h] \notin {"idle", "done"}
    /\ Step(h, "done")
    /\ UNCHANGED <<jobVars, recVars, pend, backVars, early, lock, supVars, need, wpc>>

-----------------------------------------------------------------------------
(* `cancel` from the command line and from MCP.                            *)

\* A lock-free Load decides between a request to be settled under the machine
\* lock and a direct cancellation of a job without a power action.
CancelLoad(a) ==
    /\ At(a, "idle")
    /\ st[Target[a]] # "UNARMED"
    /\ Step(a, IF HasUnresolvedPowerAction(Target[a]) THEN "request"
               ELSE IF Live(Target[a]) THEN "direct" ELSE "done")
    /\ UNCHANGED <<jobVars, recVars, pend, backVars, early, lock, supVars, need, wpc>>

\* cli.cancel.requested / mcp.cancel.requested.
CancelRequest(a) ==
    /\ At(a, "request")
    /\ IF HasUnresolvedPowerAction(Target[a]) THEN RequestPowerCancellation(Target[a])
                                              ELSE UNCHANGED jobVars
    /\ \/ a \in Cli /\ Step(a, "done") /\ wpc' = [wpc EXCEPT ![a] = "trylock"]
       \/ a \in Mcp /\ Step(a, "authority") /\ UNCHANGED wpc
    /\ UNCHANGED <<recVars, pend, backVars, early, lock, supVars, need>>

\* MCP never touches the backend of a recorded action: it launches a worker,
\* unless the action is already resolved.
McpAuthority(a) ==
    /\ At(a, "authority")
    /\ \/ res[Target[a]] # "none" /\ Step(a, "direct") /\ UNCHANGED wpc
       \/ res[Target[a]] = "none" /\ Step(a, "done") /\ wpc' = [wpc EXCEPT ![a] = "lock"]
       \/ /\ res[Target[a]] = "none" /\ Fault("launch_fails")
          /\ Step(a, "done") /\ UNCHANGED wpc
    /\ UNCHANGED <<jobVars, recVars, pend, backVars, early, lock, supVars, need>>

\* cli.cancel / mcp.cancel: any job that is not terminal by now is CANCELLED.
CancelDirect(a) ==
    /\ At(a, "direct")
    /\ Step(a, "done")
    /\ IF Live(Target[a]) THEN WriteJob(Target[a], "CANCELLED", TRUE, TRUE)
                          ELSE UNCHANGED jobVars
    /\ UNCHANGED <<recVars, pend, backVars, early, lock, supVars, need, wpc>>

-----------------------------------------------------------------------------
(* The cancel-only worker, and the CLI's settlement, under the machine     *)
(* lock.  Neither ever calls Backend.Schedule.                             *)

Settling == { "load", "fence", "settle", "noaction", "cancel", "resolve",
              "unconfirmed", "persist", "complete" }
WorkStep == Settling \cup {"off", "lock", "retry", "trylock", "done"}

Work(a, pc) == wpc' = [wpc EXCEPT ![a] = pc]
WorkDone(a) == Work(a, "done") /\ Release(a)

\* Mutation: the worker does not wait for the machine lock ...
WorkerUnfenced(a) ==
    /\ wpc[a] = "lock"
    /\ Work(a, "load")
    /\ UNCHANGED <<jobVars, recVars, pend, backVars, early, lock, supVars, actVars>>

\* Mutation: ... or gives up when it is held.
WorkerGivesUp(a) ==
    LET j == Target[a]
    IN /\ wpc[a] = "lock"
       /\ \/ lock = NoOne /\ lock' = a /\ Work(a, "load")
          \/ lock # NoOne /\ Work(a, "done") /\ UNCHANGED lock
       /\ UNCHANGED <<jobVars, recVars, pend, backVars, early, supVars, actVars>>

\* The worker's first attempt; a held lock makes it flag the job and wait.
WorkerLock(a) ==
    LET j == Target[a]
    IN /\ wpc[a] = "lock"
       /\ \/ lock = NoOne /\ lock' = a /\ Work(a, "load") /\ UNCHANGED jobVars
          \/ /\ lock # NoOne /\ Work(a, "retry") /\ UNCHANGED lock
             /\ IF Live(j) THEN WriteJob(j, st[j], TRUE, TRUE) ELSE UNCHANGED jobVars
       /\ UNCHANGED <<recVars, pend, backVars, early, supVars, actVars>>

WorkerRetry(a) ==
    /\ wpc[a] = "retry" /\ lock = NoOne
    /\ lock' = a /\ Work(a, "load")
    /\ UNCHANGED <<jobVars, recVars, pend, backVars, early, supVars, actVars>>

\* Mutation: the command line settles without the lock.
CliUnfenced(a) ==
    /\ wpc[a] = "trylock"
    /\ Work(a, "settle")
    /\ UNCHANGED <<jobVars, recVars, pend, backVars, early, lock, supVars, actVars>>

\* The command line tries once and reports an error if it cannot have it.
CliLock(a) ==
    /\ wpc[a] = "trylock"
    /\ \/ lock = NoOne /\ lock' = a /\ Work(a, "settle")
       \/ lock # NoOne /\ Work(a, "done") /\ UNCHANGED lock
    /\ UNCHANGED <<jobVars, recVars, pend, backVars, early, supVars, actVars>>

WorkerLoad(a) ==
    LET j == Target[a]
    IN /\ wpc[a] = "load"
       /\ \/ ~Live(j) /\ WorkDone(a)
          \/ HasUnresolvedPowerAction(j) /\ Work(a, "settle") /\ UNCHANGED lock
          \/ st[j] \in Observing /\ Work(a, "fence") /\ UNCHANGED lock
       /\ UNCHANGED <<jobVars, recVars, pend, backVars, early, supVars, actVars>>

\* persistPreIntentRevocationFence: the lock is kept until the job is inert.
WorkerFence(a) ==
    LET j == Target[a]
    IN /\ wpc[a] = "fence"
       /\ ~HasUnresolvedPowerAction(j)
       /\ IF Live(j) THEN WriteJob(j, "CANCELLED", TRUE, TRUE) ELSE UNCHANGED jobVars
       /\ Work(a, "complete")
       /\ UNCHANGED <<recVars, pend, backVars, early, lock, supVars, actVars>>

\* settlePluginPowerLocked: what the recovery records say decides whether the
\* backend must be asked.
WorkerSettle(a) ==
    LET j == Target[a]
    IN /\ wpc[a] = "settle"
       /\ Work(a, IF res[j] # "none" THEN "persist"
                  ELSE IF env[j] /\ ~call[j] THEN "noaction" ELSE "cancel")
       /\ UNCHANGED <<jobVars, recVars, pend, backVars, early, lock, supVars, actVars>>

WorkerNoAction(a) ==
    LET j == Target[a]
    IN /\ wpc[a] = "noaction"
       /\ ResolveNoAction(j)
       /\ Work(a, IF res[j] = "none" /\ call[j] THEN "unconfirmed" ELSE "persist")
       /\ UNCHANGED <<jobVars, env, call, seal, pend, backVars, early, lock, supVars, actVars>>

WorkerCancel(a) ==
    LET j == Target[a]
    IN /\ wpc[a] = "cancel"
       /\ \/ CancelConfirmed(j) /\ Work(a, "resolve")
          \/ CancelUnconfirmed(j) /\ Work(a, "unconfirmed")
       /\ UNCHANGED <<jobVars, recVars, pend, early, lock, supVars, actVars>>

WorkerResolve(a) ==
    /\ wpc[a] = "resolve"
    /\ ResolveCancelled(Target[a])
    /\ Work(a, "persist")
    /\ UNCHANGED <<jobVars, env, call, seal, pend, backVars, early, lock, supVars, actVars>>

\* The worker leaves the request on record; the command line only reports.
WorkerUnconfirmed(a) ==
    LET j == Target[a]
    IN /\ wpc[a] = "unconfirmed"
       /\ IF a \notin Cli /\ HasUnresolvedPowerAction(j) THEN WriteJob(j, st[j], FALSE, TRUE)
                                                         ELSE UNCHANGED jobVars
       /\ WorkDone(a)
       /\ UNCHANGED <<recVars, pend, backVars, early, supVars, actVars>>

\* persistPluginPowerSettlement.
WorkerPersist(a) ==
    LET j == Target[a]
    IN /\ wpc[a] = "persist"
       /\ IF HasUnresolvedPowerAction(j) THEN WriteJob(j, "CANCELLED", TRUE, TRUE)
                                         ELSE UNCHANGED jobVars
       /\ IF a \in Cli \/ st[j] \in Observing
            THEN WorkDone(a)
            ELSE Work(a, "complete") /\ UNCHANGED lock
       /\ UNCHANGED <<recVars, pend, backVars, early, supVars, actVars>>

\* CompletePendingRevocations.
WorkerComplete(a) ==
    /\ wpc[a] = "complete"
    /\ pend' = [pend EXCEPT ![Target[a]] = {}]
    /\ WorkDone(a)
    /\ UNCHANGED <<jobVars, recVars, backVars, early, supVars, actVars>>

WorkerCrash(a) ==
    /\ Fault("worker_crash")
    /\ wpc[a] \notin {"off", "done"}
    /\ WorkDone(a)
    /\ UNCHANGED <<jobVars, recVars, pend, backVars, early, supVars, actVars>>

-----------------------------------------------------------------------------
Init ==
    /\ st = [j \in Job |-> "UNARMED"]
    /\ gen = [j \in Job |-> 1]
    /\ creq = [j \in Job |-> FALSE]
    /\ env = [j \in Job |-> FALSE]
    /\ call = [j \in Job |-> FALSE]
    /\ seal = [j \in Job |-> FALSE]
    /\ res = [j \in Job |-> "none"]
    /\ pend = [j \in Job |-> {}]
    /\ timer = [j \in Job |-> "off"]
    /\ due = [j \in Job |-> FALSE]
    /\ queued = [j \in Job |-> FALSE]
    /\ calls = [j \in Job |-> 0]
    /\ early = [j \in Job |-> {}]
    /\ lock = NoOne
    /\ spc = [j \in Job |-> "idle"]
    /\ sgen = [j \in Job |-> 0]
    /\ snap = [j \in Job |-> NoSnap]
    /\ apc = [a \in Actor |-> "idle"]
    /\ need = [a \in Actor |-> "no"]
    /\ wpc = [a \in Actor |-> "off"]

Supervisor(j) ==
    \/ SupRun(j) \/ SupFail(j) \/ SupLock(j) \/ SupInventory(j) \/ SupLoad(j)
    \/ SupCheck1(j) \/ SupCheck2(j) \/ SupEnvelope(j) \/ SupIntent(j) \/ SupCheck3(j)
    \/ SupAbort(j) \/ SupAborted(j) \/ SupCall(j) \/ SupCallWrite(j) \/ SupSchedule(j)
    \/ SupUnknown(j) \/ SupSeal(j) \/ SupCheck4(j) \/ SupCommit(j) \/ SupCancel(j)
    \/ SupCancelResolve(j) \/ SupCancelled(j) \/ SupCancelFailed(j) \/ SupRollback(j)
    \/ SupRollbackResolve(j) \/ SupRolledBack(j) \/ SupMonitor(j) \/ SupWatch(j)

HookHandler(h) ==
    \/ HookCapture(h) \/ HookMarker(h) \/ HookUpdate(h) \/ HookLaunch(h) \/ HookCleanup(h)

Canceller(a) ==
    \/ CancelLoad(a) \/ CancelRequest(a) \/ CancelDirect(a)
    \/ a \in Mcp /\ McpAuthority(a)

Worker(a) ==
    \/ WorkerLock(a) \/ WorkerRetry(a) \/ CliLock(a) \/ WorkerLoad(a) \/ WorkerFence(a)
    \/ WorkerSettle(a) \/ WorkerNoAction(a) \/ WorkerCancel(a) \/ WorkerResolve(a)
    \/ WorkerUnconfirmed(a) \/ WorkerPersist(a) \/ WorkerComplete(a)

Backend(j) == Deadline(j) \/ Fire(j) \/ LateSchedule(j)

Next ==
    \/ \E j \in Job : Arm(j) \/ Supervisor(j) \/ SupCrash(j) \/ Backend(j)
    \/ \E h \in Hook : HookHandler(h) \/ HookCrash(h)
    \/ \E a \in Cli \cup Mcp : Canceller(a)
    \/ \E a \in Actor : Worker(a) \/ WorkerCrash(a)

Spec == Init /\ [][Next]_vars

\* Fairness: processes that were started run.  Nobody owes a prompt, a Stop, a
\* cancellation, a crash or a late answer, and the deadline may be far off: a
\* revocation that only the shutdown ends was not honoured.
Fairness ==
    /\ \A j \in Job : WF_vars(Supervisor(j))
    /\ \A h \in Hook :
         WF_vars(HookMarker(h) \/ HookUpdate(h) \/ HookLaunch(h) \/ HookCleanup(h))
    /\ \A a \in Actor : WF_vars(Worker(a))

FairSpec == Spec /\ Fairness

-----------------------------------------------------------------------------
\* Every variable keeps its type: job.json, the recovery records, the markers,
\* the backend, the supervisors and every invocation with its worker.
JobType ==
    /\ st \in [Job -> State]
    /\ gen \in [Job -> Nat]
    /\ creq \in [Job -> BOOLEAN]
RecordType ==
    /\ env \in [Job -> BOOLEAN] /\ call \in [Job -> BOOLEAN] /\ seal \in [Job -> BOOLEAN]
    /\ res \in [Job -> {"none", "no_action", "cancelled"}]
MarkerType == pend \in [Job -> SUBSET Hook] /\ early \in [Job -> SUBSET Hook]
BackendType ==
    /\ timer \in [Job -> {"off", "armed", "fired"}]
    /\ due \in [Job -> BOOLEAN] /\ queued \in [Job -> BOOLEAN]
    /\ calls \in [Job -> Nat]
LockType == lock \in Job \cup Actor \cup {NoOne}
SupType ==
    /\ spc \in [Job -> SupStep]
    /\ sgen \in [Job -> Nat]
    /\ snap \in [Job -> [st : State, gen : Nat, creq : BOOLEAN]]
ActorType ==
    /\ apc \in [Actor -> { "idle", "plain", "marker", "update", "launch", "cleanup",
                           "request", "authority", "direct", "done" }]
    /\ need \in [Actor -> {"no", "yes", "failed"}]
WorkerType == wpc \in [Actor -> WorkStep]
TypeOK ==
    /\ JobType /\ RecordType /\ MarkerType /\ BackendType
    /\ LockType /\ SupType /\ ActorType /\ WorkerType

\* The no-retry boundary (supervisor.schedule): the backend is asked at most
\* once per job, and never before the durable call-start record exists.
NoRetry == \A j \in Job : calls[j] <= 1 /\ (calls[j] = 1 => call[j])

\* A no_action resolution (settlePluginPowerLocked, abortIntentBeforeSchedule)
\* is a promise that the backend was not and will never be asked.
NoActionMeansNoCall ==
    \A j \in Job : res[j] = "no_action" => ~call[j] /\ calls[j] = 0 /\ timer[j] = "off"

\* "RecoveryResolution is written only after positive evidence that the
\* external action is inert" (recovery.go): no countdown runs once it exists.
ResolvedInert == \A j \in Job : res[j] # "none" => timer[j] # "armed"

\* A job shown as CANCELLED has no countdown left, whoever cancelled it.
CancelledInert == \A j \in Job : st[j] = "CANCELLED" => timer[j] # "armed"

\* Real power jobs are serialized: the machine lock and the inventory leave at
\* most one job with a power action nobody has settled.
OneUnresolved ==
    \A j, k \in Job : HasUnresolvedPowerAction(j) /\ HasUnresolvedPowerAction(k) => j = k

\* The monitor only ever watches an action whose receipt was sealed first.
ScheduledIsSealed == \A j \in Job : st[j] = "ACTION_SCHEDULED" => call[j] /\ seal[j]

\* A continuation whose marker was on disk when the intent was written stops
\* the backend call, whatever became of the marker in between.
MarkedBeforeIntentNeverCalls ==
    \A j \in Job : early[j] \cap (Prompt \cup Stop) # {} => calls[j] = 0

\* observeRevocation and the worker: the marker of a continuation is dropped
\* only when there is no unresolved power action and no countdown behind it.
DropsMarker(j) == (pend[j] \ pend'[j]) \cap (Prompt \cup Stop) # {}
MarkerOutlivesAction ==
    [][\A j \in Job : DropsMarker(j) => ~HasUnresolvedPowerAction(j) /\ timer[j] # "armed"]_vars

\* The machine lock and UnresolvedPowerJobs read job files, not the machine: a
\* supervisor that asks the backend still never meets the countdown of another
\* job, because nobody closes a job in front of a running one.
MachineIsFree == \A j \in Job : spc[j] = "backend" => ~OtherCountdown(j)

\* Backend.Schedule and Cancel as the plugin uses them keep the contract the
\* helper implements, with the recorded resolution for the confirmation: it is
\* written, by whoever got the answer, only while the countdown still stands
\* stopped, and no countdown follows it.
Contract == INSTANCE PowerBackend WITH confirmed <- {j \in Job : res[j] = "cancelled"}
KeepsContract == Contract!Spec

\* While the supervisor lives, a revocation is settled even if its hook died
\* right after the marker or the request: a job with an unresolved action does
\* not stay so, unless the deadline comes first.
Revoked(j) == creq[j] \/ pend[j] \cap (Prompt \cup Stop) # {}
RequestSettles ==
    \A j \in Job : (HasUnresolvedPowerAction(j) /\ Revoked(j))
                     ~> (~HasUnresolvedPowerAction(j) \/ due[j])

\* ... and if it is the supervisor that died, the cancel-only worker of the
\* hook that left the marker settles it.
MarkerSettles ==
    \A j \in Job : (HasUnresolvedPowerAction(j) /\ pend[j] \cap (Prompt \cup Stop) # {})
                     ~> (~HasUnresolvedPowerAction(j) \/ due[j])
=============================================================================
