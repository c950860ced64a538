# DoneThen in TLA+

DoneThen lets a Codex task shut the machine down when it is finished. A wrong
poweroff cannot be taken back, a forgotten countdown fires later, and the code
that decides is spread over short-lived processes that share files. This
directory models that decision: StopBarrier for how lifecycle events reach the
jobs that wait for them, VerifiedSuccess for jobs that also want evidence and a
host at rest, PluginPower for the schedule boundary both lead to, ClassicRun
for the `donethen run` command and its store, PowerHelper for the privileged
Linux helper below them. BarrierRule and PowerBackend are the abstract
specifications: what a job may do with the stops it counted, and the contract
of a power backend. TLC checks small instances; TLAPS proves every safety
property the passing runs check, both refinements of BarrierRule, and that the
helper and the plugin's processes keep the contract, for any number of jobs, sessions, turns, runs and commands.

Paths below are relative to the repository. `PROJECT.json` maps every
definition to the lines it stands for and lists the components, runs, mutants,
findings, hazards and theorems.

## 1. Inventory

### Processes and shared state

| part | where | state it keeps | operations | talks to |
|---|---|---|---|---|
| plugin supervisor, one per armed job | `internal/pluginpower` | none but its captured generation and last `Load` | `Run`, `schedule`, `monitorScheduled`, abort, rollback, cancel | job store, recovery records, markers, machine lock, host gates, backend |
| Hook handlers, one process per lifecycle event | `internal/hookobserver` | none | prompt, Stop, SessionEnd, tool and sub-agent events | job store (under its lock), markers, cancel-only workers |
| cancel-only worker, detached by a hook | `internal/cli/cancel_worker.go` | none | wait for the machine lock, fence, settle, clear markers | all of the above but the hooks |
| `done-then cancel`, MCP `cancel` | `internal/cli/cancel.go`, `internal/pluginapi` | none | request, direct cancel, settlement | as the worker |
| MCP server, one per Codex host | `internal/mcpserver`, `internal/pluginapi` | none | arm, finish (with a verifier), pause, cancel, status | job store, launchers |
| plugin state | `internal/pluginstate` | `job.json` (state, generation, CancelRequested, barrier targets, evidence, event keys), session indexes, create-once recovery records (envelope, call start, receipt, resolution), revocation markers | one `UpdateJob` transaction under the data-root lock; atomic create of a record | - |
| machine power lock | `internal/platform` | one flock or mutex | try, release | - |
| power backend | `internal/actions` | outside | Preflight, Schedule, Cancel, Reconcile | the helper, or the OS |
| Linux power helper | `internal/powerdaemon` | `active.json`, `active.lock` | preflight, schedule, cancel, reconcile; `--fire-job` callback | systemd |
| classic coordinator | `internal/supervisor`, `internal/store`, `cli/run.go` | `<job>.json`, `<job>.cancel`; its own copy of the job | `donethen run` from agent to action | backend, machine lock, Codex, verifier |
| `donethen cancel`, `donethen reconcile` of such a job | `cli/cancel.go`, `cli/reconcile.go` | the copy they loaded | request, settle; ask, write back | the same two files, backend |
| reconcile of a plugin job, status | `internal/cli` | none | writes the outcome after a boot | backend, stores |
| host authority | `internal/hostauthority` | pending RPCs, event tracker | `Snapshot`, `ReadyForFinalGate` | Codex App Server |

What makes them hard: nothing but files connects these processes, each may die
at any instruction, hooks have three seconds, every read outside the state lock
is stale as soon as it returns, and the one call that matters may be performed
although its caller saw an error.

### What correctness means, part by part

* supervisor: the backend is asked at most once, never behind a no_action
  resolution, never for a job revoked before the intent; a job is shown as
  scheduled only with a sealed receipt; a revocation during the countdown is
  settled.
* hooks and workers: a revocation is not lost with the process that noticed it,
  and its marker is not dropped while an action is unresolved.
* cancellations: CANCELLED and a resolution mean that nothing is counting down.
* machine lock and inventory: at most one job with an unresolved power action.
* helper: no countdown without its job in `active.json`; poweroff only for a
  persisted receipt; none behind a confirmed cancellation; one at a time.
* indexes: a job that is bound hears of every session it watches, however jobs
  that want the same session reserve, bind, expire and release; a closed job
  never comes back.
* barrier: ready only when every target's last event is a Stop of its current
  turn; a resumption reopens it, or revokes what was claimed; the last Stop is
  not lost.
* verified_success: acted upon only for the turn whose completion was reported
  and verified, and for a host seen at rest in it; the countdown ends when the
  host moves on, hook or no hook; a rested job is decided.
* classic run: the same boundary with a cancel file instead of markers and a
  store without a lock: a closed job has no countdown, a countdown has an
  unresolved job, no write revives a settled job, runs are serialized, and a
  cancellation settles its run.

## 2. Modules

| module | models | lines of code it stands on |
|---|---|---|
| `PluginPower` | one action per store transaction, lock-free read, record write, lock attempt or backend call of supervisor, hooks, workers, CLI and MCP cancellation | pluginpower/supervisor.go, hookobserver/observer.go, pluginstate/*.go, cli/*cancel*.go, pluginapi/service.go |
| `StopBarrier` | session indexes, reservations, arm hooks, and the hooks of every target, for barrier and after_stop jobs that compete | pluginstate/store.go, pluginstate/job.go, hookobserver/observer.go, pluginapi/service.go |
| `BarrierRule` | abstract: what a job may do with the stops it counted | pluginstate/job.go, hookobserver/observer.go |
| `VerifiedSuccess` | finish and its verifier, hooks, host snapshots and supervisor of a verified_success job | pluginapi/service.go, hookobserver/observer.go, hostauthority/*.go, pluginpower/supervisor.go |
| `PowerBackend` | abstract: what `actions.Backend` promises | actions/backend.go |
| `PowerHelper` | daemon, timer callback, systemd units, `active.json` | powerdaemon/server_linux.go, store/atomic.go |
| `ClassicRun` | coordinator, classic store, cancel, reconcile, the machine lock shared with plugin jobs | supervisor/coordinator.go, supervisor/machine.go, store/store.go, cli/run.go, cli/cancel.go, cli/reconcile.go |
| `MCPower`, `MCPowerTwo`, `MCClassic`, `MCTargets`, `MCVerified` | who each invocation is about, the sessions and directories, the disturbances, for TLC | |
| `PluginPowerProofs`, `RevocationProofs`, `PowerHelperProofs`, `ClassicRunProofs`, `StopBarrierProofs`, `VerifiedSuccessProofs` | theorems | |

### PluginPower

| variable | in the code |
|---|---|
| `st`, `gen`, `creq` | `Job.State`, `Generation`, `CancelRequested` of `job.json` |
| `env`, `call`, `seal`, `res` | existence of the recovery envelope, call-start record, sealed receipt and resolution |
| `pend` | pending revocation markers, by the hook that wrote them |
| `timer`, `due`, `queued` | the backend's countdown, whether its deadline passed, a request the client gave up on |
| `lock` | machine power lock |
| `spc`, `sgen`, `snap` | supervisor: program point, captured generation, last `Load` |
| `apc`, `need`, `wpc` | an invocation's program point, whether it needs a worker, its worker's program point |
| `calls`, `early` | history: entries of `Backend.Schedule`; markers on disk when the intent was written |

The step is what the code makes atomic: an `UpdateJob` closure is one action
with its guard and all it writes; between two of them everything else may
happen. Supervisor actions follow `schedule()` from top to bottom:
SupLock, SupInventory, SupLoad, SupCheck1 (gates), SupLoad, SupCheck2, SupEnvelope,
SupIntent, SupLoad, SupCheck3 (last look), SupCall and SupCallWrite (read the
authority, write the call-start record), SupSchedule, then SupSeal, SupLoad,
SupCheck4, SupCommit or the unknown, abort, rollback and cancellation paths,
and SupMonitor / SupWatch for the countdown. A hook is HookCapture (binding
read without a lock), HookMarker, HookUpdate (with `retryStateLock`, which may
be exhausted), HookLaunch, HookCleanup; a worker WorkerLock, WorkerRetry,
WorkerLoad, WorkerFence, WorkerSettle, ... WorkerComplete.

Abstractions. REFUSED stands for every terminal state reached before an
action. Host snapshots, power policy, HMAC and receipt validation are one
verdict (`gate_refuses`). For a barrier job, a Stop hook is the Stop that
satisfies it and a prompt resumes a stopped target; the targets themselves
are StopBarrier's. The clock is the bit `due`. A job's invocations happen
at most once each. Fault classes (`Faults`) name what may go wrong:
crashes of supervisor, hook or worker; a hook that exhausts its lock attempts;
a worker that cannot be launched; Schedule or Cancel that answer with an error
whatever they did; a late schedule; `clock_stall`, a supervisor's turn delayed
past the deadline.

The repository's public runtime passes no Stop arbitration and reports
ExecuteReady as false, so today an execute job always ends at a gate. The model
is of the code behind the gates, as the tests drive it with fakes.

### StopBarrier

| variable | in the code |
|---|---|
| `job` | one record per `job.json`: state, `TargetReservationsCommitted`, `TargetIndexesReady`, `CancelRequested`, whether the generation is still the captured one (`fresh`), `StopTargets`, `ProcessedEventKeys` |
| `index` | the session index files |
| `marks`, `worker`, `late` | pending markers, cancel-only workers under way, jobs past `ExpiresAt` |
| `hooks` | the Hook processes under way, each with its event, what it captured and what it marked |
| `turn`, `mode`, `sent` | the host: a session's turn, whether it runs, rests or has ended, and the events it may deliver again |
| `clean`, `rearmed`, `unlinked` | history: sessions whose events all got through once and in order; sessions whose arm hook ran twice; jobs whose arm hook ended between the job file and the session index |

A transaction is a function from the old record and an event to the new one
(Reopen, CountStop, ApplyToSingle, ...), written once and used by every path
that reaches it. Reserve is `CreateBarrierReservations` with its conflict scan,
the takeover of a reservation that was never committed, and each way it can
fail half-way. Bind and BindBarrier are the two branches of `BindSession`,
including the replay branch that writes the index again. A lifecycle hook is
Capture (no lock), Mark (which looks the session up again), Update (and again,
under the lock), then Launch or Cleanup. What a save gives back of a closed
barrier's indexes is a set (Gone), because a removal may fail.

Abstractions. FAILED stands for every refused end, COMPLETE for a finished dry
run or action. The power action is claimed (Claim) and ends (Settle); its calls
are PluginPower's. Event keys are kept only where an instance can repeat an
event or reach the limit. A hook hashes its working directory into the event;
Workspace is the set of directories a session's events may come from. The
controller's session is not a target.

### VerifiedSuccess

| variable | in the code |
|---|---|
| `job` | `job.json`: state, generation, current, ready and stop turn, `FinishObserved`, `VerifierPassed`, the fingerprints H1 to H3, the host instance, `CancelRequested` |
| `late`, `marks`, `worker`, `hooks` | as in StopBarrier, with the `PostToolUse` hooks of arm, finish and pause |
| `tool` | finish calls in flight, of the armed session and of another one that has the job's id |
| `host` | outside: the target thread's turn and status, other threads and terminals, hook configuration, host instance, what the notifications have told, whether some were lost or a hook failed |
| `sup` | the supervisor: program point, what it looks at the host for, the job it had loaded, what it has seen |
| `proved` | history: the turn whose completion stands |

One `Snapshot` is three actions, LookThreads, LookChildren and LookInventory,
between which the host goes on; SupSave stores H1, H2 or H3 if the job it had
loaded is still the one in the file. `schedule` is SupGate, SupRecheck (which
starts the final look), SupIntent, SupLastLook and SupCall; the monitor looks at
the host again and again. Finish and FinishVerifier are the two updates around
the verifier, which runs without a lock; Answer starts the hook of the answer.

Abstractions. One job of mode execute. A call that the backend refuses and the
deadline of the countdown are PluginPower's: here a cancellation succeeds and
the countdown outlasts a look, which HostStopsCountdown therefore says nothing
about. Arbitrary refusals of a gate (policy, authorization, backend, unreadable
snapshots) are `gate_refuses`. A hook configuration is a number and EvaluateHooks a set of
accepted ones. Repeated events are StopBarrier's.

Two models of the same hooks are not a repetition: PluginPower keeps every
record around the call and knows one Stop; StopBarrier keeps every target and
index and knows one claim; VerifiedSuccess keeps the evidence and the host.
BarrierRule ties the last two together: both implement it.

### PowerHelper

`owner`/`phase` are `active.json`, `lock` is `active.lock`, `dpc`/`djob` the
request in service (process() holds the lock for the whole of it), `unit` and
`fpc` a job's transient units and its timer callback, `clock` the wall clock
against the recorded deadline (early, due, late beyond MaxFireLateness).
`asked`, `sealed`, `powered`, `confirmed` are histories of what was requested,
answered and done. A save replaces the file whole, but may also fail after the
replacement (`atomicWriteJSON` hardens and inspects the file after the rename),
so an error leaves either content. A failing systemd-run, stop or poweroff may
have worked. Crashes lose processes and locks; reboots also the transient
units. Not modelled: unreadable `active.json`, another peer's uid, and the boot
identity (transient units do not survive a boot, so a callback always finds its
own; an unreadable boot id is refused like an early callback).

### ClassicRun

| variable | in the code |
|---|---|
| `st`, `cfile` | `State` in `<job>.json` (NONE: no file), existence of `<job>.cancel` |
| `rpc`, `mem` | a coordinator's program point and the State of its `job` value |
| `lock` | machine power lock, also taken by plugin supervisors |
| `timer`, `late`, `due` | the countdown; whether the deadlines of the intent and of the countdown passed |
| `cpc`, `csnap`, `kpc`, `ksnap` | `cancel` and `reconcile`: program point and loaded State |
| `plug` | a plugin job: idle, holding the lock, unresolved, settled |
| `calls`, `warned` | history: entries of `Backend.Schedule`; cancel file on disk when the intent was saved |

The store has no lock and `Save` never reads: a step is one read of a file, one
replacement, one backend call or one attempt at the lock, and a writer puts
back the copy it holds. Coordinator actions follow `Coordinator.Run`: Create,
then Look, Advance and Outcome through agent, evaluation and verifier (the six
looks for a cancel file are one action that knows what each protects), RecordIntent,
the look at the boundary, Schedule, and then Scheduled and AfterSchedule, or
Unknown and UnknownLook, with RollBack, Resave and Conclude for every way a
cancellation by the coordinator can end. `Move` is `Coordinator.move`: the
table, the copy, the save. A failing save may have replaced the file, as in
PowerHelper.

Abstractions. What Codex, the envelope, the verifier and the preflight say is a
choice (Outcome). The countdown is per run and the backend keeps PowerBackend's
contract; shutdown.exe's global `/a` and late schedules are left to PluginPower
and the hazards. A plugin job is three steps. `ReconcileConfirmed` is never
answered, as in every backend of the repository. A run is started once, each
command works on one run.

### BarrierRule

`phase` (waiting, ready, claimed, closed), the targets counted as stopped, and
whether the claim was revoked. Count, Resume, Claim, Revoke and Close are the
only moves: ready takes all targets, and a claimed job never goes back to
waiting. StopBarrier implements it for every barrier (`ImplementsRule`: the
counted targets are those with a Stop of their current turn), VerifiedSuccess
with the task as the only target (`VerifiedImplementsRule`).

### PowerBackend

PowerBackend is the abstract specification: a countdown per job (off, armed,
fired) and the set of jobs whose cancellation was confirmed since the last
request that may schedule them. `ImplementsBackend` instantiates it with
`timer <- Countdown`, computed from `unit` and `powered`. `Open` says that a
confirmation does not cover a request taken up after it: that is what the code
does, and why a late schedule request (section 4) matters. PluginPower sees the
backend from the other side: `KeepsContract` takes the recorded resolution
`cancelled` as the confirmation, so that what the supervisors and workers write
down must mean what the contract says.

## 3. Runs

All runs set `CHECK_DEADLOCK FALSE`: every process is one-shot, so the
instances end.

| run | instance | checks |
|---|---|---|
| AfterStop | one after_stop job, a prompt, a Stop, a session end; crashes and failing updates, launches and backend calls | TypeOK, NoRetry, NoActionMeansNoCall, ResolvedInert, CancelledInert, ScheduledIsSealed, MarkerOutlivesAction, KeepsContract (refinement) |
| TwoPower | two jobs with a Stop each, a CLI and an MCP cancellation of the first; crashes, failing and late backend calls, stalls | OneUnresolved, NoRetry, NoActionMeansNoCall |
| Survivor | a prompt and two Stops, the supervisor may crash | MarkerSettles (liveness) |
| Watcher | one barrier job, a prompt and two Stops; hooks may crash, workers may not start, gates refuse | CancelledInert, MarkedBeforeIntentNeverCalls, MarkerOutlivesAction, RequestSettles (liveness) |
| Targets | a barrier over two sessions, one with two turns and two directories; hooks of the other die, repeat, fail or are continued, three event keys at most | BarrierTypeOK, ValidJobs, CountedMeansIdle, ImplementsRule (refinement), BarrierFires (liveness) |
| Rivals | the barrier and an after_stop job in the first session, a turn each; arming crashes, fails, expires, is cut off or repeated, hooks overtake each other | ReadyOwnsIndexes, NoRevival |
| Verified | one verified job, two turns, three hook configurations, twelve kinds of disturbance | VerifiedTypeOK, EvidenceStands, RestingWhenClaimed, VerifiedImplementsRule (refinement), HostStopsCountdown and RestedJobDecides (liveness) |
| HelperFails | three jobs, every fault class | HelperTypeOK, PendingHasState, ImplementsBackend |
| RunFails | two runs, one with a verifier, a plugin job, a cancellation, a reconcile; every fault class | RunTypeOK, ClosedInert, WarnedNeverCalls |
| RunCancelled | two runs, a dry run and a cancellation, no faults | SerializedRuns, NoHiddenCountdown, TransitionsLegal, CancelSettles (liveness) |
| CancelRace, RevivedJob | smallest instance of each finding | one property, violated |

Bounds. A property about one job needs one job; a second matters only to the
machine lock and the inventory (TwoPower). Each hook invocation happens once: a
prompt, a Stop and a session end reach every marker path, a second Stop reaches
the re-armed barrier and the continuation after the schedule. Generations are
bounded by the invocations. In the helper two jobs are enough for a conflict
and the third for a job that follows a cancelled one. In ClassicRun the second
run is the one that recovers, or is refused because of, the first. Every passing run's
faults are a constant of its cfg; between them the passing runs fire every
action.

In StopBarrier two sessions are enough for one target to stand in for the
other, two hooks at a time for every pair to interleave (the host waits for a
session's hook before its next event, so a third needs a third session), and
two turns of one session for an event of the turn before. The host is followed
while a job is open. A session in Shaky loses, repeats or delays at most one
event: the properties about `clean` sessions then also say what a disturbed
target may not do to the others. A continuation happens once per session. In
VerifiedSuccess two turns give a newer one than the one that stopped; a
behaviour meets one kind of disturbance, or two that matter together (a foreign
call and a dying hook; an interrupted turn and a server that exits), and another session calls once. What a behaviour may
meet is chosen in Init, which keeps the sum of the behaviours, not their
product, in reach. The event limit is 3 instead of 4096.

Which faults a run leaves out matters as much. ResolvedInert and
KeepsContract are checked without `late_schedule`, and CancelledInert without direct cancellations: with them
they fail: section 4 has the late schedule, and CancelRace is the other. RequestSettles is
checked without a supervisor crash and MarkerSettles without a launch failure:
each names the process that has to survive. NoHiddenCountdown, SerializedRuns
and TransitionsLegal are checked without `reconcile`, whose stale write-back
breaks the last one (RevivedJob shows it for the moves out of CANCELLED) and with it
what the others rely on; all three are proved for every fault class. CancelSettles is checked without faults:
after a schedule with an unknown outcome it fails (section 4).

Fairness (`FairSpec`). A supervisor, a hook after its first step, a launched
worker, a coordinator past its start and a cancel command past its load keep
running: they are OS processes that block only on short locks (a coordinator
also on Codex and the verifier, which have timeouts), so weak fairness of each
process. Nobody owes an event, the start of a run or command, a crash, the
verdict of a gate, or the deadline; the liveness properties release the
system when the deadline passes, because the code does. The
safety runs use `Spec`, without fairness.

## 4. What the checks found

* CancelRace: MCP (and CLI) direct cancellation re-checks only that the job is
  not terminal. In the trace `mcp.cancel` loads the job while it is ARMED; the
  Stop comes, the supervisor writes ACTION_INTENT and the call-start record, and the
  backend accepts the call; then the cancellation turns ACTION_INTENT into CANCELLED,
  and the countdown runs behind a closed job.
* RevivedJob: `reconcile` saves the whole job it loaded before it asked the
  backend. In the trace it loads ACTION_INTENT_RECORDED; the coordinator finds a
  cancellation request at the action boundary and saves CANCELLED; `reconcile` writes
  its copy back, and the job is ACTION_INTENT_RECORDED again, with no coordinator
  left, refusing later runs.

TLC showed more while the models were built; these have no run of their own and are
listed with a note under "hazards":

* A schedule request outlives the client's five seconds; the helper answers the
  cancellation first, the resolution is recorded, and the countdown starts
  afterwards, although `pluginstate/recovery.go:57` says a resolution is written
  only on evidence that the action is inert (ResolvedInert with `late_schedule`).
* `run` looks for unresolved actions in the classic store only, so it schedules
  beside an unresolved plugin action, although the repository's README (line
  108) says an unresolved action blocks later jobs. A plugin supervisor does
  look at both (ClassicRun with one run and one plugin job).
* An arm hook that is delivered again after its job ended, when the session was
  armed anew, takes the replay branch of `BindSession`, which writes the index
  without looking at the state: the new job no longer hears of its session.
  ReadyOwnsIndexes exempts these sessions (`rearmed`).
* An arm hook that ends, or fails to write, between the job file and the session
  index (`pluginstate/store.go:430`) leaves an ARMED after_stop job that no event
  reaches; the session is free for another job. ReadyOwnsIndexes exempts these jobs
  (`unlinked`) from holding an index and requires that they stay ARMED until they end.
  Running the arm hook again writes the index after all.
* A hook that captured nothing takes the binding it finds when it writes its
  marker (`pluginstate/store.go:775`), so a prompt that came before a barrier
  was bound is marked for it and its worker cancels it. A test asks for that
  (`pluginstate/store_test.go:119`). The other way round a Stop that happened
  before the bind but is captured after it counts, although the plugin's skill
  (`skills/done-then/SKILL.md:46`) says a historical Stop does not.
* A prompt hook run again with a processed event key counts as not applied and
  launches a worker that cancels the job: the safe side of an idempotent key.
* `finish` copies the turn the job knows, not the one that called. EvidenceStands
  holds because the hook of the answer compares the two and Stop insists on that hook.
* A session end that read its binding before the Stop was applied leaves a
  marker that revokes the accepted Stop, against the comment at
  `hookobserver/observer.go:348`. It errs to the safe side.
* The helper's cancel ignores the phase: after the callback requested poweroff
  its units are gone, so it confirms a stopped timer.
* After an unknown schedule outcome without a cancel file the coordinator
  exits. From then on `cancel` confirms with the backend, says to retry "until
  the coordinator settles it" and saves nothing, so the intent blocks later
  runs until a reconcile after its deadline.
* In the plugin, after an unknown outcome only CancelRequested is looked at,
  not the markers; a Stop applied after the intent it was captured before asks
  for cancellation without a marker or a worker; a barrier re-armed between
  envelope and intent cannot be scheduled any more (it fails closed).

## 5. Proofs

The proof modules assume nothing but the named assumptions of the module they
extend (`PowerAssumption`, `HelperAssumption`, `RunAssumption`, `BarrierAssumption`,
`VerifiedAssumption`): invocations, jobs and markers of absence are distinct,
a barrier has a target and a session a turn, there is an acceptable hook configuration, and the fault classes are
known ones. Sets of jobs, runs, hooks and commands may be of any size, infinite
ones included, and the fault classes any subset; a theorem that needs more says so.

PluginPowerProofs:

| theorem | states |
|---|---|
| TypeCorrect | `Spec => []TypeOK` |
| LockDiscipline | everyone in a section behind the machine lock holds it |
| AtMostOneCall | `Spec => []NoRetry` |
| NoActionIsFinal | `Spec => []NoActionMeansNoCall` |
| ScheduledHasReceipt | `Spec => []ScheduledIsSealed` |
| PowerSerialized | `Spec => []OneUnresolved` |

None of these is inductive alone. NoRetry needs to know that a supervisor at
its backend call has just created the call-start record and that nobody else
can be there; NoActionMeansNoCall that a worker about to write no_action read
`call` false under the same lock that SupCallWrite needs; OneUnresolved that
a supervisor past the inventory still holds the lock under which it found nobody.
`IInv` is the conjunction TypeOK, LockInv (program points imply the lock),
CallInv (counter, record and timer around the call), SealInv (receipt before
commit) and AloneInv (nobody else unresolved after the inventory). Each part has a
lemma per process (supervisor, hooks, cancellers, workers), each lemma a step per action.

RevocationProofs, about the same module and on top of `IInv`:

| theorem | without | states |
|---|---|---|
| ResolutionIsInert | late answers | `Spec => []ResolvedInert` |
| CancelledIsInert | late answers, direct cancellations | `Spec => []CancelledInert` |
| MarkedJobsNeverCall | direct cancellations | `Spec => []MarkedBeforeIntentNeverCalls` |
| MarkersOutliveActions | late answers, direct cancellations | `Spec => MarkerOutlivesAction` |
| RequestsFindTheMachineFree | late answers, direct cancellations | `Spec => []MachineIsFree` |
| PluginKeepsContract | late answers | `Spec => KeepsContract` (refinement) |

"Late answers" is the fault class `late_schedule`, direct cancellations are the
CLI's and the MCP server's (`Cli \cup Mcp`); TLC refutes each statement when one
of its hypotheses is dropped. A request of a hook's worker is a cancellation
too, and remains. `InertInv` says that a countdown starts in the supervisor's
one call, and that whoever is about to write a resolution, or to act on one, has
seen it stopped; the machine lock keeps the worker and the supervisor out of
each other's way. `RevocationInv` follows the generation: what a supervisor has
seen is never ahead of the file, so a marker that was on disk at the intent is
still there at the last look, or its hook had changed the generation the intent
compares (StageJob, SeenJob, MarkJob, CleanHook). A worker only clears the
markers of a job that was armed and has no action left. `CountdownInv`, an armed
timer has an unresolved job, is inductive relative to both. With AloneInv it
gives MachineIsFree: the files the inventory reads tell the truth about the
machine. MachineIsFree has no run: it needs a second job, and TwoPower has
late answers and direct cancellations, which break it. The refinement needs `IInv` and `InertInv` and has a lemma per process.

PowerHelperProofs:

| theorem | states |
|---|---|
| HelperTypeCorrect | `Spec => []HelperTypeOK`, which includes who holds `active.lock` |
| NoForgottenCountdown | `Spec => []PendingHasState` |
| FiresOnlyWhatWasSealed | without failing saves, `Spec => []FiresOnlySealed` |
| HelperIsABackend | `Spec => ImplementsBackend` (refinement) |

`HInv` adds to the type and PendingHasState what each program point of the
daemon knows (DaemonInv: the file names the job in service once the intent is
saved; before removal its units are inactive) and what a pending unit excludes
(UnitInv: neither powered nor confirmed). The refinement has one lemma per kind
of abstract step and one case per action.

FiresOnlySealed has no run: failing saves, which HelperFails has, break it (a
save that fails after replacing the file, followed by a failing rollback,
leaves a countdown nobody was told about).

ClassicRunProofs:

| theorem | states |
|---|---|
| RunTypeCorrect | `Spec => []RunTypeOK` |
| ClosedIsInert | `Spec => []ClosedInert` |
| WarnedRunsNeverCall | `Spec => []WarnedNeverCalls` |
| NoCountdownIsHidden | if `Reconcile = {}`, `Spec => []NoHiddenCountdown` |
| RunsAreSerialized | if `Reconcile = {}`, `Spec => []SerializedRuns` |
| MovesAreLegal | if `Reconcile = {}`, `Spec => TransitionsLegal` |

`RInv` is the type, CallInv (a countdown, a call, ACTION_SCHEDULED and a closed
file are all behind the coordinator's call, so nothing is armed after them; a
warned run can only end) and CopyInv (what a command may still conclude from
the State it loaded: a copy that says ACTION_SCHEDULED is about a run that will not
call again, and a saved cancellation follows a confirmed one). It is inductive
with every fault and with reconcile. Without reconcile, IntentInv (the file
behind the call and behind a countdown is unresolved), HoldInv (a run under way holds
the machine lock; a dry run stays away from power) and AloneInv (past the
inventory nobody else is unresolved) are inductive relative to it; AloneNext is
the argument that the lock keeps an hours-old inventory true. The table of
machine.go is applied to a copy, never to the file, so MovesAreLegal needs to know how
far the two can drift apart (FileInv): a coordinator under way has in its copy what
is in the file, except behind a schedule that it could not save or beside a
`cancel`; what a `cancel` loaded as scheduled is still scheduled or cancelled; and
the dead run that a recovery settles is not under way, because both would hold the lock.

StopBarrierProofs:

| theorem | states |
|---|---|
| BarrierTyped | `Spec => []BarrierTypeOK` |
| JobsStayValid | `Spec => []ValidJobs`, what Validate accepts |
| ReadyOwns | `Spec => []ReadyOwnsIndexes` |
| CountedIsIdle | `Spec => []CountedMeansIdle` |
| NothingRevives | `Spec => NoRevival` |
| BarrierFollowsRule | `Spec => ImplementsRule` (refinement of BarrierRule, for every barrier at once) |

They hold for any jobs that compete for any sessions, any turns, hooks under
way, shaky sessions and failures. Validate alone is not inductive: `JobInv` adds
that an unbound barrier has seen nothing, a dry run never acts, a cancellation request
needs an action, and an action nobody asked to revoke still has every target
counted (which is also what the refinement needs at Claim). IndexInv says that
an index belongs to a job that watches the session; HookInv what a hook carries at
each step, about turns that have begun; RearmInv that an arm hook delivered twice is on
record. OwnInv is ReadyOwnsIndexes without the claim that an `unlinked` job is
ARMED; that claim needs DeafInv: where the arm hook has not written the index, no
index names the job, so no lifecycle hook has captured it (it captures what the index
names) and no update has an event for it, and what is left, cancellation and expiry,
ends it. CountedMeansIdle needs two more about `clean` sessions, because a hook
looks a job up three times and applies the event later: CleanInv (the events of such
a session are handled one at a time, a prompt under way is in no job's keys, and
where a hook has chosen another job, no barrier has counted the session) and
IdleInv (what an active barrier counts as stopped has stopped, or the prompt's hook is on
the way). A transaction is proved once, as a move of the record that
BarrierRule allows (RuleMove), and every path that reaches it cites that: an
action is one of those moves, the indexes a save gives back, and the hook's progress.

VerifiedSuccessProofs:

| theorem | states |
|---|---|
| VerifiedTyped | `Spec => []VerifiedTypeOK`, Validate's rules about a job |
| EvidenceAlwaysStands | `Spec => []EvidenceStands` |
| VerifiedRule | `Spec => VerifiedImplementsRule` (refinement of BarrierRule) |
| ClaimedAtRest | `Spec => []RestingWhenClaimed` |

They hold for any number of turns and under every disturbance. EvidenceStands
alone says nothing about how a report comes to stand. `IInv` adds ProvedInv (a
report seen by its hook is about the turn that asked), HookInv (the hook of an
answer finds the job waiting, over, or still with that report, and no other hook of
the host runs beside it) and ToolInv (the same of an answer that is outstanding
in the turn that asked; a verifier that is still current has the job's
generation, and two never have the same). GoodJob is what Validate keeps, and
that only an unresolved or closed job can have a cancellation request, which the
refinement needs. The proof names what anybody can do to a job (it is noted,
ended, claimed, revoked, reopened, put to wait, stopped, reported, or seen by
its hook); each action is shown to make one of these moves, most parts of `IInv` to survive
the quiet ones (QuietKeeps), and each move to be a step of BarrierRule or none (RuleStep).

ClaimedAtRest needs more, because the supervisor decides on several calls to a
host that goes on between them, and compares only generations. `RestInv` proves
slightly more than the property (it asks for no markers and no worker): the
host rests in the turn that stopped, or a hook of a resumption has not told the
job yet (Speaks), or the host reported a failed hook. BaseInv says what the generation the
supervisor works for still guarantees, LookInv that its final look found the
host so as long as the file has that generation, ClaimInv that an unrevoked
action still has it. BoundJob is why a prompt cannot pass the job unseen: a job past its
arming has a turn. That a resumption told to the job is seen by the supervisor
is a property of the moves: each ends the job, revokes it or takes a new generation.

Only model-checked: the liveness properties (MarkerSettles, RequestSettles,
CancelSettles, BarrierFires, HostStopsCountdown, RestedJobDecides), because the
prover does not reason about ENABLED. Every invariant and every action property
of a passing run has its theorem, five of PluginPower's and three of
ClassicRun's under the restrictions named above.

## 6. Not modelled

Jobs whose file cannot be read, activation, pruning and schema migration of
plugin jobs; dry runs of verified_success jobs; reconcile of a plugin job; the
supervisor's wait for its ownership to be recorded; the Windows and macOS
backends beyond the outcome of a call; JSON-RPC framing and paging; how
`EvaluateHooks` judges a configuration (a pure function of one document,
covered by its table tests); policies, completion envelopes and verifiers
beyond their verdict; file metadata checks, SBOM and release scripts. Each is a
component in `PROJECT.json` with its reason.

## 7. Plan

Done: PluginPower, PowerBackend, PowerHelper, ClassicRun, StopBarrier and
BarrierRule, VerifiedSuccess, and the proofs of section 5. Left, in this order:

1. ClassicRun's backend against PowerBackend, as the helper's and PluginPower's
   already are.
2. Reconcile of plugin jobs: the writer of outcomes, racing cancel and the
   monitor, with the helper's evidence and boot changes.
3. Unreadable jobs and the ownership wait in PluginPower.
