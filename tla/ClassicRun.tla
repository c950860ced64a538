----------------------------- MODULE ClassicRun -----------------------------
(***************************************************************************)
(* `donethen run`: the coordinator that drives one Codex task to a power   *)
(* action (internal/supervisor, internal/cli/run.go), the classic job      *)
(* store it shares with `donethen cancel` and `donethen reconcile`         *)
(* (internal/store, internal/cli), and the machine power lock it shares    *)
(* with plugin jobs.                                                       *)
(*                                                                         *)
(* The store has no lock: a job file is read whole and replaced whole, and *)
(* a process writes back the copy it read.  A step is one read, one        *)
(* replacement, one backend call or one attempt at the lock.               *)
(***************************************************************************)
EXTENDS Naturals, FiniteSets

CONSTANTS
    Run,           \* invocations of `donethen run`, each with a job of its own
    DryRun,        \* those without --execute
    WithVerifier,  \* those with --verify-program
    Plugin,        \* plugin jobs whose supervisors share the machine lock
    Cancel,        \* invocations of `donethen cancel`
    Reconcile,     \* invocations of `donethen reconcile`
    About,         \* the run each of these is about
    Faults,        \* the fault classes this instance may meet
    NoOne          \* nobody holds the machine power lock

ASSUME RunAssumption ==
    /\ DryRun \subseteq Run /\ WithVerifier \subseteq Run
    /\ About \in [Cancel \cup Reconcile -> Run]
    /\ Cancel \cap Reconcile = {} /\ Run \cap Plugin = {}
    /\ NoOne \notin Run \cup Plugin
    /\ Faults \subseteq { "run_crash", "cli_crash", "save_fails", "read_fails",
                          "schedule_fails", "cancel_fails" }

VARIABLES
    st, cfile,                \* <job>.json: its State; does <job>.cancel exist?
    timer, late, due, calls,  \* the countdown; the deadlines of the intent and of the
                              \* countdown have passed; calls of Schedule (history)
    lock, rpc, mem,           \* the machine lock; a coordinator's step, its job.State
    warned,                   \* <job>.cancel existed when the intent was saved (history)
    cpc, csnap,               \* `cancel`: step, the State it loaded
    kpc, ksnap,               \* `reconcile`: likewise
    plug                      \* a plugin job, seen from here

fileVars == <<st, cfile>>
backVars == <<timer, late, due, calls>>
runVars == <<lock, rpc, mem, warned>>
cliVars == <<cpc, csnap, kpc, ksnap>>
vars == <<fileVars, backVars, runVars, cliVars, plug>>

Fault(f) == f \in Faults

-----------------------------------------------------------------------------
(* The states of a job, and the table of the moves it may make.            *)

PreAction == {"ARMED", "AGENT_RUNNING", "EVALUATING", "VERIFYING"}
Unresolved == {"ACTION_INTENT_RECORDED", "ACTION_SCHEDULED"}
Terminal == { "DRY_RUN_COMPLETE", "NOT_DONE", "AGENT_FAILED", "INVALID_COMPLETION",
              "VERIFICATION_FAILED", "ACTION_FAILED", "ACTION_EXECUTION_UNVERIFIED",
              "ACTION_EXECUTED_CONFIRMED", "CANCELLED", "ORPHANED" }
State == PreAction \cup Unresolved \cup Terminal

allowedTransitions ==
    ({"ARMED"} \X {"AGENT_RUNNING", "CANCELLED", "ORPHANED"})
    \cup ({"AGENT_RUNNING"} \X {"EVALUATING", "AGENT_FAILED", "CANCELLED", "ORPHANED"})
    \cup ({"EVALUATING"} \X { "VERIFYING", "NOT_DONE", "INVALID_COMPLETION" })
    \cup ({"EVALUATING", "VERIFYING"} \X
            {"ACTION_INTENT_RECORDED", "ACTION_FAILED", "DRY_RUN_COMPLETE", "CANCELLED",
             "ORPHANED"})
    \cup {<<"VERIFYING", "VERIFICATION_FAILED">>}
    \cup ({"ACTION_INTENT_RECORDED"} \X {"ACTION_SCHEDULED", "ACTION_FAILED"})
    \cup (Unresolved \X
            {"CANCELLED", "ACTION_EXECUTION_UNVERIFIED", "ACTION_EXECUTED_CONFIRMED"})
    \cup {<<"ACTION_EXECUTION_UNVERIFIED", "ACTION_EXECUTED_CONFIRMED">>}

Transition(from, to) == <<from, to>> \in allowedTransitions

\* Store.Save and Store.Create: the last writer wins.  After an error the new
\* file may or may not be in place.
Save(r, s) == st' = [st EXCEPT ![r] = s]
SaveFails(r, s) == Fault("save_fails") /\ (Save(r, s) \/ UNCHANGED st)

-----------------------------------------------------------------------------
(* The power backend under the contract of PowerBackend; an unresolved     *)
(* plugin job may have a countdown of its own.                             *)

OtherCountdown(r) == \E q \in Run \ {r} : timer[q] = "armed"
PluginCountdown == \E p \in Plugin : plug[p] = "unresolved"

ScheduleAccepted(r) == ~OtherCountdown(r) /\ timer' = [timer EXCEPT ![r] = "armed"]

Disarm(r) == timer' = [timer EXCEPT ![r] = IF @ = "armed" THEN "off" ELSE @]
CancelUnconfirmed(r) == Fault("cancel_fails") /\ (Disarm(r) \/ UNCHANGED timer)

IntentDeadline(r) ==
    /\ st[r] \in Unresolved /\ ~late[r]
    /\ late' = [late EXCEPT ![r] = TRUE]
    /\ UNCHANGED <<fileVars, timer, due, calls, runVars, cliVars, plug>>

Deadline(r) ==
    /\ calls[r] > 0 /\ late[r] /\ ~due[r]
    /\ due' = [due EXCEPT ![r] = TRUE]
    /\ UNCHANGED <<fileVars, timer, late, calls, runVars, cliVars, plug>>

Fire(r) ==
    /\ timer[r] = "armed" /\ due[r]
    /\ timer' = [timer EXCEPT ![r] = "fired"]
    /\ UNCHANGED <<fileVars, late, due, calls, runVars, cliVars, plug>>

-----------------------------------------------------------------------------
(* The coordinator.  Leaving RunCommand releases the machine lock.         *)

Gated(r) == IF r \in DryRun THEN "dry_run" ELSE "before_action"

\* The looks for a cancellation, and the step each of them protects.
AfterLook(r) ==
    [ before_agent |-> "start", after_agent |-> "evaluate", before_verifier |-> "verify",
      after_verifier |-> Gated(r), before_action |-> "preflight",
      at_boundary |-> "schedule" ]

\* The last move of a job that ends here.
Closing ==
    [ cancelled |-> "CANCELLED", interrupted |-> "CANCELLED", agent_failed |-> "AGENT_FAILED",
      invalid_completion |-> "INVALID_COMPLETION", not_done |-> "NOT_DONE",
      rejected |-> "VERIFICATION_FAILED", dry_run |-> "DRY_RUN_COMPLETE",
      failed |-> "ACTION_FAILED" ]

\* Where a cancellation the coordinator itself asks for leads to.
OnConfirmed == [unknown_cancel |-> "cancelled", invalid |-> "failed", rollback |-> "cancelled"]
OnUnconfirmed == [unknown_cancel |-> "resave", invalid |-> "resave", rollback |-> "done"]

Looks == { "before_agent", "after_agent", "before_verifier", "after_verifier",
           "before_action", "at_boundary" }
RunStep == Looks \cup DOMAIN Closing \cup DOMAIN OnConfirmed \cup
           { "idle", "recover", "inspect", "create", "start", "agent", "evaluate", "judge",
             "verifying", "verify", "preflight", "intent", "schedule", "scheduled",
             "after_schedule", "unknown", "unknown_look", "resave", "done" }

At(r, pc) == rpc[r] = pc
Goto(r, pc) ==
    /\ rpc' = [rpc EXCEPT ![r] = pc]
    /\ lock' = IF pc = "done" /\ lock = r THEN NoOne ELSE lock

\* Coordinator.move: the table first, then the file.
Move(r, s, next, otherwise) ==
    LET legal == Transition(mem[r], s)
        moved == mem' = [mem EXCEPT ![r] = s]
    IN \/ legal /\ moved /\ Save(r, s) /\ Goto(r, next)
       \/ legal /\ moved /\ SaveFails(r, s) /\ Goto(r, otherwise)
       \/ ~legal /\ UNCHANGED <<st, mem>> /\ Goto(r, otherwise)

\* --execute tries the machine lock once.
Start(r) ==
    /\ At(r, "idle")
    /\ \/ r \in DryRun /\ Goto(r, "create")
       \/ /\ r \notin DryRun /\ lock = NoOne
          /\ lock' = r /\ rpc' = [rpc EXCEPT ![r] = "recover"]
       \/ r \notin DryRun /\ lock # NoOne /\ Goto(r, "done")
    /\ UNCHANGED <<fileVars, backVars, mem, warned, cliVars, plug>>

\* RecoverPreActionJobs: the jobs a dead run left before its power action.  A
\* failing Save stops it half way.
Recover(r) ==
    LET dead == {q \in Run \ DryRun : st[q] \in PreAction}
        orphan(S) == st' = [q \in Run |-> IF q \in S THEN "ORPHANED" ELSE st[q]]
    IN /\ At(r, "recover")
       /\ \/ orphan(dead) /\ Goto(r, "inspect")
          \/ /\ Fault("save_fails") /\ dead # {}
             /\ \E S \in SUBSET dead : orphan(S)
             /\ Goto(r, "done")
       /\ UNCHANGED <<cfile, backVars, mem, warned, cliVars, plug>>

\* Mutation: the machine lock is thought to be enough.
InspectNothing(r) ==
    /\ At(r, "inspect")
    /\ Goto(r, "create")
    /\ UNCHANGED <<fileVars, backVars, mem, warned, cliVars, plug>>

\* ActivePowerJobs: an unresolved job of `run` refuses this one.
Inspect(r) ==
    /\ At(r, "inspect")
    /\ Goto(r, IF \E q \in Run \ DryRun : st[q] \in Unresolved THEN "done" ELSE "create")
    /\ UNCHANGED <<fileVars, backVars, mem, warned, cliVars, plug>>

Create(r) ==
    /\ At(r, "create")
    /\ \/ Save(r, "ARMED") /\ Goto(r, "before_agent")
       \/ SaveFails(r, "ARMED") /\ Goto(r, "done")
    /\ UNCHANGED <<cfile, backVars, mem, warned, cliVars, plug>>

\* Coordinator.cancelled: an unreadable request ends the run as it is.
Look(r) ==
    /\ rpc[r] \in Looks
    /\ \/ ~cfile[r] /\ Goto(r, AfterLook(r)[rpc[r]])
       \/ cfile[r] /\ Goto(r, "cancelled")
       \/ Fault("read_fails") /\ Goto(r, "done")
    /\ UNCHANGED <<fileVars, backVars, mem, warned, cliVars, plug>>

\* The moves that open a phase.
Advance(r) ==
    /\ \/ At(r, "start") /\ Move(r, "AGENT_RUNNING", "agent", "done")
       \/ At(r, "evaluate") /\ Move(r, "EVALUATING", "judge", "done")
       \/ At(r, "verifying") /\ Move(r, "VERIFYING", "before_verifier", "done")
    /\ UNCHANGED <<cfile, backVars, warned, cliVars, plug>>

\* What Codex, its completion envelope, the verifier and the preflight say.
Outcome(r) ==
    /\ \/ At(r, "agent") /\ \E pc \in {"interrupted", "agent_failed", "after_agent"} : Goto(r, pc)
       \/ /\ At(r, "judge")
          /\ \E pc \in { "invalid_completion", "not_done",
                         IF r \in WithVerifier THEN "verifying" ELSE Gated(r) } : Goto(r, pc)
       \/ At(r, "verify") /\ \E pc \in {"interrupted", "rejected", "after_verifier"} : Goto(r, pc)
       \/ At(r, "preflight") /\ \E pc \in {"failed", "intent"} : Goto(r, pc)
    /\ UNCHANGED <<fileVars, backVars, mem, warned, cliVars, plug>>

\* Mutation: the saved intent is followed by the call at once.
RecordIntentAndCall(r) ==
    /\ At(r, "intent")
    /\ Move(r, "ACTION_INTENT_RECORDED", "schedule", "done")
    /\ warned' = [warned EXCEPT ![r] = cfile[r]]
    /\ UNCHANGED <<cfile, backVars, cliVars, plug>>

\* The intent is durable before the backend is called.
RecordIntent(r) ==
    /\ At(r, "intent")
    /\ Move(r, "ACTION_INTENT_RECORDED", "at_boundary", "done")
    /\ warned' = [warned EXCEPT ![r] = cfile[r]]
    /\ UNCHANGED <<cfile, backVars, cliVars, plug>>

\* Backend.Schedule: accepted; accepted with a receipt that does not validate;
\* or an error, whatever became of the request.
Schedule(r) ==
    /\ At(r, "schedule")
    /\ calls' = [calls EXCEPT ![r] = @ + 1]
    /\ \/ ScheduleAccepted(r) /\ Goto(r, "scheduled")
       \/ Fault("schedule_fails") /\ ScheduleAccepted(r) /\ Goto(r, "invalid")
       \/ Fault("schedule_fails") /\ ScheduleAccepted(r) /\ Goto(r, "unknown")
       \/ /\ Fault("schedule_fails") \/ OtherCountdown(r) \/ PluginCountdown
          /\ UNCHANGED timer
          /\ Goto(r, "unknown")
    /\ UNCHANGED <<fileVars, late, due, mem, warned, cliVars, plug>>

\* power_schedule_outcome_unknown: no retry; a request already made is tried.
Unknown(r) ==
    /\ At(r, "unknown")
    /\ \/ Save(r, mem[r]) /\ Goto(r, "unknown_look")
       \/ SaveFails(r, mem[r]) /\ Goto(r, "done")
    /\ UNCHANGED <<cfile, backVars, mem, warned, cliVars, plug>>

UnknownLook(r) ==
    /\ At(r, "unknown_look")
    /\ \/ ~cfile[r] /\ Goto(r, "done")
       \/ (cfile[r] \/ Fault("read_fails")) /\ Goto(r, "unknown_cancel")
    /\ UNCHANGED <<fileVars, backVars, mem, warned, cliVars, plug>>

\* A scheduled state that cannot be saved is rolled back ...
Scheduled(r) ==
    /\ At(r, "scheduled")
    /\ Move(r, "ACTION_SCHEDULED", "after_schedule", "rollback")
    /\ UNCHANGED <<cfile, backVars, warned, cliVars, plug>>

\* Mutation: a request made while Schedule ran is not looked for.
LeaveScheduled(r) ==
    /\ At(r, "after_schedule")
    /\ Goto(r, "done")
    /\ UNCHANGED <<fileVars, backVars, mem, warned, cliVars, plug>>

\* ... and so is one that was cancelled, or may have been, meanwhile.
AfterSchedule(r) ==
    /\ At(r, "after_schedule")
    /\ \/ ~cfile[r] /\ Goto(r, "done")
       \/ (cfile[r] \/ Fault("read_fails")) /\ Goto(r, "rollback")
    /\ UNCHANGED <<fileVars, backVars, mem, warned, cliVars, plug>>

\* Mutation: a cancellation the backend did not confirm closes the job.
RollBackBlindly(r) ==
    /\ rpc[r] \in DOMAIN OnConfirmed
    /\ Disarm(r) \/ CancelUnconfirmed(r)
    /\ Goto(r, OnConfirmed[rpc[r]])
    /\ UNCHANGED <<fileVars, late, due, calls, mem, warned, cliVars, plug>>

RollBack(r) ==
    /\ rpc[r] \in DOMAIN OnConfirmed
    /\ \/ Disarm(r) /\ Goto(r, OnConfirmed[rpc[r]])
       \/ CancelUnconfirmed(r) /\ Goto(r, OnUnconfirmed[rpc[r]])
    /\ UNCHANGED <<fileVars, late, due, calls, mem, warned, cliVars, plug>>

Resave(r) ==
    /\ At(r, "resave")
    /\ Save(r, mem[r]) \/ SaveFails(r, mem[r])
    /\ Goto(r, "done")
    /\ UNCHANGED <<cfile, backVars, mem, warned, cliVars, plug>>

Conclude(r) ==
    /\ rpc[r] \in DOMAIN Closing
    /\ Move(r, Closing[rpc[r]], "done", "done")
    /\ UNCHANGED <<cfile, backVars, warned, cliVars, plug>>

\* The process dies between any two steps; its lock dies with it.
RunCrash(r) ==
    /\ Fault("run_crash")
    /\ rpc[r] \notin {"idle", "done"}
    /\ Goto(r, "done")
    /\ UNCHANGED <<fileVars, backVars, mem, warned, cliVars, plug>>

-----------------------------------------------------------------------------
(* `donethen cancel`, without the machine lock.                            *)

CliStep(c, pc) == cpc' = [cpc EXCEPT ![c] = pc]

\* Mutation: a job that has no file can be cancelled.
CancelUnknownJob(c) ==
    /\ cpc[c] = "idle"
    /\ CliStep(c, IF st[About[c]] \in Terminal THEN "done" ELSE "request")
    /\ UNCHANGED <<fileVars, backVars, runVars, csnap, kpc, ksnap, plug>>

CancelLoad(c) ==
    /\ cpc[c] = "idle" /\ st[About[c]] \in State
    /\ CliStep(c, IF st[About[c]] \in Terminal THEN "done" ELSE "request")
    /\ UNCHANGED <<fileVars, backVars, runVars, csnap, kpc, ksnap, plug>>

\* RequestCancel, before the job is looked at again.
CancelRequest(c) ==
    /\ cpc[c] = "request"
    /\ \/ cfile' = [cfile EXCEPT ![About[c]] = TRUE] /\ CliStep(c, "reload")
       \/ /\ Fault("save_fails")
          /\ \E b \in {cfile[About[c]], TRUE} : cfile' = [cfile EXCEPT ![About[c]] = b]
          /\ CliStep(c, "done")
    /\ UNCHANGED <<st, backVars, runVars, csnap, kpc, ksnap, plug>>

\* Mutation: the command closes a job in any phase by itself.
CancelAnyPhase(c) ==
    /\ cpc[c] = "reload"
    /\ csnap' = [csnap EXCEPT ![c] = st[About[c]]]
    /\ CliStep(c, "backend")
    /\ UNCHANGED <<fileVars, backVars, runVars, kpc, ksnap, plug>>

\* No power action yet: the coordinator will see the request.
CancelReload(c) ==
    /\ cpc[c] = "reload"
    /\ csnap' = [csnap EXCEPT ![c] = st[About[c]]]
    /\ CliStep(c, IF st[About[c]] \in Unresolved THEN "backend" ELSE "done")
    /\ UNCHANGED <<fileVars, backVars, runVars, kpc, ksnap, plug>>

\* Mutation: the cancel of an intent is final.
CancelIntent(c) ==
    /\ cpc[c] = "backend"
    /\ \/ Disarm(About[c]) /\ CliStep(c, "save")
       \/ CancelUnconfirmed(About[c]) /\ CliStep(c, "done")
    /\ UNCHANGED <<fileVars, late, due, calls, runVars, csnap, kpc, ksnap, plug>>

\* Backend.Cancel.  An intent is left to the coordinator: its Schedule may be
\* about to run.
CancelBackend(c) ==
    /\ cpc[c] = "backend"
    /\ \/ /\ Disarm(About[c])
          /\ CliStep(c, IF csnap[c] = "ACTION_INTENT_RECORDED" THEN "done" ELSE "save")
       \/ CancelUnconfirmed(About[c]) /\ CliStep(c, "done")
    /\ UNCHANGED <<fileVars, late, due, calls, runVars, csnap, kpc, ksnap, plug>>

CancelSave(c) ==
    /\ cpc[c] = "save"
    /\ Save(About[c], "CANCELLED") \/ SaveFails(About[c], "CANCELLED")
    /\ CliStep(c, "done")
    /\ UNCHANGED <<cfile, backVars, runVars, csnap, kpc, ksnap, plug>>

CancelCrash(c) ==
    /\ Fault("cli_crash")
    /\ cpc[c] \notin {"idle", "done"}
    /\ CliStep(c, "done")
    /\ UNCHANGED <<fileVars, backVars, runVars, csnap, kpc, ksnap, plug>>

-----------------------------------------------------------------------------
(* `donethen reconcile`: load, ask the backend, write the copy back.       *)

ReconcileLoad(k) ==
    /\ kpc[k] = "idle" /\ st[About[k]] \in State
    /\ ksnap' = [ksnap EXCEPT ![k] = st[About[k]]]
    /\ kpc' = [kpc EXCEPT ![k] =
                 IF st[About[k]] \in Unresolved \cup { "ACTION_EXECUTION_UNVERIFIED",
                                                            "ACTION_EXECUTED_CONFIRMED" }
                   THEN "ask" ELSE "done"]
    /\ UNCHANGED <<fileVars, backVars, runVars, cpc, csnap, plug>>

\* The deadline of the receipt that was loaded: the intent's or the countdown's.
Past(k) == IF ksnap[k] = "ACTION_INTENT_RECORDED" THEN late[About[k]] ELSE due[About[k]]

\* Scheduled and an early Unverified keep the State, a late Unverified moves
\* it; no backend confirms an execution.
ReconcileAsk(k) ==
    /\ kpc[k] = "ask"
    /\ \/ (~Past(k) \/ timer[About[k]] = "armed") /\ UNCHANGED ksnap
       \/ /\ Past(k)
          /\ ksnap' = [ksnap EXCEPT ![k] =
                         IF @ \in Unresolved THEN "ACTION_EXECUTION_UNVERIFIED" ELSE @]
    /\ kpc' = [kpc EXCEPT ![k] = "save"]
    /\ UNCHANGED <<fileVars, backVars, runVars, cpc, csnap, plug>>

ReconcileSave(k) ==
    /\ kpc[k] = "save"
    /\ Save(About[k], ksnap[k]) \/ SaveFails(About[k], ksnap[k])
    /\ kpc' = [kpc EXCEPT ![k] = "done"]
    /\ UNCHANGED <<cfile, backVars, runVars, cpc, csnap, ksnap, plug>>

-----------------------------------------------------------------------------
(* Plugin jobs, as far as they matter here: PluginPower has the rest.      *)

PluginLock(p) ==
    /\ plug[p] = "idle" /\ lock = NoOne
    /\ lock' = p
    /\ plug' = [plug EXCEPT ![p] = "holding"]
    /\ UNCHANGED <<fileVars, backVars, rpc, mem, warned, cliVars>>

\* The inventory of a plugin supervisor covers both stores.
PluginSchedule(p) ==
    /\ plug[p] = "holding"
    /\ lock' = NoOne
    /\ plug' = [plug EXCEPT ![p] =
                  IF \/ \E q \in Run \ DryRun : st[q] \in Unresolved
                     \/ \E o \in Plugin \ {p} : plug[o] = "unresolved"
                    THEN "settled" ELSE "unresolved"]
    /\ UNCHANGED <<fileVars, backVars, rpc, mem, warned, cliVars>>

PluginSettle(p) ==
    /\ plug[p] = "unresolved"
    /\ plug' = [plug EXCEPT ![p] = "settled"]
    /\ UNCHANGED <<fileVars, backVars, runVars, cliVars>>

-----------------------------------------------------------------------------
Init ==
    /\ st = [r \in Run |-> "NONE"]
    /\ cfile = [r \in Run |-> FALSE]
    /\ timer = [r \in Run |-> "off"]
    /\ late = [r \in Run |-> FALSE]
    /\ due = [r \in Run |-> FALSE]
    /\ calls = [r \in Run |-> 0]
    /\ lock = NoOne
    /\ rpc = [r \in Run |-> "idle"]
    /\ mem = [r \in Run |-> "ARMED"]
    /\ warned = [r \in Run |-> FALSE]
    /\ cpc = [c \in Cancel |-> "idle"]
    /\ csnap = [c \in Cancel |-> "ARMED"]
    /\ kpc = [k \in Reconcile |-> "idle"]
    /\ ksnap = [k \in Reconcile |-> "ARMED"]
    /\ plug = [p \in Plugin |-> "idle"]

\* A coordinator that was started.
Coordinator(r) ==
    \/ Recover(r) \/ Inspect(r) \/ Create(r) \/ Look(r) \/ Advance(r) \/ Outcome(r)
    \/ RecordIntent(r) \/ Schedule(r) \/ Unknown(r) \/ UnknownLook(r) \/ Scheduled(r)
    \/ AfterSchedule(r) \/ RollBack(r) \/ Resave(r) \/ Conclude(r)

CancelCommand(c) ==
    \/ CancelRequest(c) \/ CancelReload(c) \/ CancelBackend(c) \/ CancelSave(c)

Next ==
    \/ \E r \in Run :
         \/ Start(r) \/ Coordinator(r) \/ RunCrash(r)
         \/ IntentDeadline(r) \/ Deadline(r) \/ Fire(r)
    \/ \E c \in Cancel : CancelLoad(c) \/ CancelCommand(c) \/ CancelCrash(c)
    \/ \E k \in Reconcile : ReconcileLoad(k) \/ ReconcileAsk(k) \/ ReconcileSave(k)
    \/ \E p \in Plugin : PluginLock(p) \/ PluginSchedule(p) \/ PluginSettle(p)

Spec == Init /\ [][Next]_vars

\* Fairness: what was started runs on (Codex and the verifier have timeouts);
\* nobody owes a command, and the deadline may be far off.
FairSpec ==
    /\ Spec
    /\ \A r \in Run : WF_vars(Coordinator(r))
    /\ \A c \in Cancel : WF_vars(CancelCommand(c))

-----------------------------------------------------------------------------
\* Every variable keeps its type: the job and cancel files, the backend, the
\* coordinators and the commands with the states they loaded.
RunTypeOK ==
    /\ st \in [Run -> State \cup {"NONE"}] /\ cfile \in [Run -> BOOLEAN]
    /\ timer \in [Run -> {"off", "armed", "fired"}]
    /\ late \in [Run -> BOOLEAN] /\ due \in [Run -> BOOLEAN] /\ calls \in [Run -> Nat]
    /\ lock \in Run \cup Plugin \cup {NoOne}
    /\ rpc \in [Run -> RunStep] /\ mem \in [Run -> State] /\ warned \in [Run -> BOOLEAN]
    /\ cpc \in [Cancel -> {"idle", "request", "reload", "backend", "save", "done"}]
    /\ csnap \in [Cancel -> State]
    /\ kpc \in [Reconcile -> {"idle", "ask", "save", "done"}]
    /\ ksnap \in [Reconcile -> State]
    /\ plug \in [Plugin -> {"idle", "holding", "unresolved", "settled"}]

\* machine.go's table, about the file: three writers without a lock, each with
\* a copy of its own, never make a move the table does not have.
TransitionsLegal ==
    [][\A r \in Run : st[r] \in State /\ st'[r] # st[r] => Transition(st[r], st'[r])]_vars

\* machine.go's table has no move out of CANCELLED (TestTransitionMatrixIsExact):
\* what `cancel` reported to the user stays so, whoever writes the file next.
CancelledIsFinal == [][\A r \in Run : st[r] = "CANCELLED" => st'[r] = "CANCELLED"]_vars

\* A run shown as CANCELLED or ACTION_FAILED has no countdown left, whoever
\* closed it and whatever failed on the way (coordinator.go, cancel.go).
ClosedInert == \A r \in Run : st[r] \in {"CANCELLED", "ACTION_FAILED"} => timer[r] # "armed"

\* "The supervisor persists intent before calling the operating system": until
\* its deadline a countdown is behind a job that `cancel` can still act on.
NoHiddenCountdown == \A r \in Run : timer[r] = "armed" /\ ~due[r] => st[r] \in Unresolved

\* run.go under the machine lock: at most one run has a power action that nobody
\* has settled.
SerializedRuns == \A r, q \in Run : st[r] \in Unresolved /\ st[q] \in Unresolved => r = q

\* A request on disk when the intent is saved is seen by the look at the action
\* boundary: the backend is not called (TestCoordinatorCancellationWinsAtActionBoundary).
WarnedNeverCalls == \A r \in Run : warned[r] => calls[r] = 0

\* `donethen cancel` resolves a power action: with the request on disk, the
\* coordinator or the command settles it, unless the deadline comes first.
CancelSettles ==
    \A r \in Run : (cfile[r] /\ st[r] \in Unresolved) ~> (st[r] \notin Unresolved \/ due[r])
=============================================================================
