---------------------------- MODULE StopBarrier ----------------------------
(***************************************************************************)
(* The bookkeeping behind observable Stops: how after_all_stop jobs        *)
(* reserve their target sessions (internal/pluginstate, session indexes),  *)
(* how the controller's PostToolUse binds them, and how lifecycle events   *)
(* of the targets, each a process of its own that looks its job up before  *)
(* it takes the state lock (internal/hookobserver), reach the right job    *)
(* once.  after_stop jobs compete for the same indexes.                    *)
(*                                                                         *)
(* A job is a record, a store transaction a function from the old record   *)
(* and an event to the new one.  The power action that follows is          *)
(* PluginPower's: here it is claimed, revoked and ended.                   *)
(***************************************************************************)
EXTENDS Naturals, FiniteSets

CONSTANTS
    Barrier,      \* after_all_stop jobs
    Single,       \* after_stop jobs
    Session,      \* Codex sessions
    Targets,      \* the target sessions of a barrier
    Home,         \* the session that arms an after_stop job
    DryRun,       \* the jobs armed with mode dry_run
    MaxHooks,     \* Hook processes that may run at the same time
    Workspace,    \* the working directories the events of a session may come from
    MaxTurn,      \* turns of each session
    Shaky,        \* sessions for which a hook may be lost, repeated, late or refused, once
    EventCap,     \* MaximumBarrierEventKeys, less the controller's own
    Faults,       \* the fault classes this instance may meet
    NoJob         \* no index, or nothing captured

Job == Barrier \cup Single
Directory == UNION {Workspace[s] : s \in Session}
Turn == UNION {0..MaxTurn[s] : s \in Session}

FaultClass == { "capacity", "hook_crash", "arm_crash", "update_fails", "log_fails", "release_fails",
                "launch_fails", "mark_fails", "replay", "rearm", "overtake", "continue", "expires", "bad_bind" }

ASSUME BarrierAssumption ==
    /\ Barrier \cap Single = {} /\ NoJob \notin Barrier \cup Single
    /\ Targets \in [Barrier -> SUBSET Session]
    /\ \A b \in Barrier : Targets[b] # {}
    /\ Home \in [Single -> Session]
    /\ DryRun \subseteq Barrier \cup Single
    /\ "none" \notin UNION {Workspace[s] : s \in Session}
    /\ MaxHooks \in Nat /\ Shaky \subseteq Session /\ EventCap \in Nat
    /\ MaxTurn \in [Session -> Nat \ {0}]
    /\ Faults \subseteq FaultClass

VARIABLES
    job,      \* the job files, by job
    index,    \* the session index files: the job a session belongs to
    marks,    \* revocation markers on disk, by job
    worker,   \* jobs with a cancel-only worker under way
    late,     \* jobs whose ExpiresAt has passed
    hooks,    \* the Hook processes under way
    turn,     \* the host: the current turn of a session,
    mode,     \* ... whether it runs, is idle or has ended,
    sent,     \* ... and the events it may deliver again: its latest, and arm hooks
    clean,    \* history: the sessions whose events all got through, once and in order,
    rearmed,  \* ... those whose arm hook was delivered twice,
    unlinked  \* ... and the jobs whose arm hook ended between the job file and the index

storeVars == <<job, index>>
hostVars == <<turn, mode>>
vars == <<job, index, marks, worker, late, hooks, turn, mode, sent, clean, rearmed, unlinked>>

-----------------------------------------------------------------------------
(* Job records.  FAILED stands for HOOK_UNAVAILABLE, EXPIRED and ORPHANED,  *)
(* COMPLETE for DRY_RUN_COMPLETE and an executed action, ACTION for an     *)
(* intent or a scheduled action.  fresh: the Generation is still the one   *)
(* the supervisor captured.                                                *)

Terminal == {"COMPLETE", "CANCELLED", "FAILED"}
State == {"NONE", "ARM_PENDING_BIND", "ARMED", "STOP_OBSERVED", "ACTION"} \cup Terminal

Event == [ kind : {"Arm", "Prompt", "Stop", "SessionEnd"}, s : Session, t : Turn,
           again : BOOLEAN, ws : Directory ]
Blank == [cur |-> 0, stop |-> 0, cont |-> 0, ws |-> "none"]
StopTarget == [cur : Turn, stop : Turn, cont : Turn, ws : Directory \cup {"none"}]
NewJob == [ st |-> "ARM_PENDING_BIND", committed |-> FALSE, ready |-> FALSE, creq |-> FALSE,
            fresh |-> FALSE, target |-> [s \in Session |-> Blank], keys |-> {} ]

Fault(f) == f \in Faults
IsActive(r) == r.st \notin Terminal \cup {"NONE"}
Unresolved(r) == r.st = "ACTION"
Stopped(x) == x.cur # 0 /\ x.stop = x.cur /\ x.cont = 0
BarrierSatisfied(b, r) == \A s \in Targets[b] : Stopped(r.target[s])

\* Mutation: a processed event is remembered without its directory.
RememberAnywhere(r, e) == [r EXCEPT !.keys = @ \cup {[e EXCEPT !.ws = "none"]}]

\* The keys of the events a job has processed, where they can matter.
Remember(r, e) == IF Fault("replay") \/ Fault("capacity") \/ e.kind = "Arm" THEN [r EXCEPT !.keys = @ \cup {e}] ELSE r

Close(r, s) == [r EXCEPT !.st = s, !.fresh = FALSE]
RequestCancel(r) == [r EXCEPT !.creq = TRUE, !.fresh = FALSE]
FailOrCancel(r) == IF Unresolved(r) THEN RequestCancel(r) ELSE Close(r, "FAILED")

-----------------------------------------------------------------------------
(* What an event does to the job it is applied to.                         *)

\* pinBarrierWorkspace: the first event fixes a target's directory.
Foreign(r, e) == r.target[e.s].ws \notin {"none", e.ws}

\* Mutation: a claimed action does not keep a resumption from reopening.
ReopenClaimed(r, e) ==
    LET x == r.target[e.s]
        y == [ cur |-> e.t, stop |-> 0, ws |-> e.ws,
               cont |-> IF e.again THEN e.t ELSE IF x.cur = e.t THEN x.cont ELSE 0 ]
    IN [r EXCEPT !.target[e.s] = y, !.fresh = @ /\ y = x, !.st = "ARMED"]

\* Mutation: a job that was ready stays ready when a target resumes.
ReopenReady(r, e) ==
    LET x == r.target[e.s]
        y == [ cur |-> e.t, stop |-> 0, ws |-> e.ws,
               cont |-> IF e.again THEN e.t ELSE IF x.cur = e.t THEN x.cont ELSE 0 ]
        q == [r EXCEPT !.target[e.s] = y, !.fresh = @ /\ y = x]
    IN IF Unresolved(r) /\ (y # x \/ ~r.creq) THEN RequestCancel(q) ELSE q

\* Mutation: a resumed target keeps its Stop.
ReopenKeepsStop(r, e) ==
    LET x == r.target[e.s]
        y == [ cur |-> e.t, stop |-> x.stop, ws |-> e.ws,
               cont |-> IF e.again THEN e.t ELSE IF x.cur = e.t THEN x.cont ELSE 0 ]
        q == [r EXCEPT !.target[e.s] = y, !.fresh = @ /\ y = x]
    IN IF Unresolved(r)
         THEN IF y # x \/ ~r.creq THEN RequestCancel(q) ELSE q
         ELSE [q EXCEPT !.st = "ARMED"]

\* applyBarrierPrompt, and applyBarrierStop with stop_hook_active: the target
\* is running.  A continuation inside a turn is remembered for that turn.
Reopen(r, e) ==
    LET x == r.target[e.s]
        y == [ cur |-> e.t, stop |-> 0, ws |-> e.ws,
               cont |-> IF e.again THEN e.t ELSE IF x.cur = e.t THEN x.cont ELSE 0 ]
        q == [r EXCEPT !.target[e.s] = y, !.fresh = @ /\ y = x]
    IN IF Unresolved(r)
         THEN IF y # x \/ ~r.creq THEN RequestCancel(q) ELSE q
         ELSE [q EXCEPT !.st = "ARMED"]

\* Mutation: the first Stop of a target only makes it known.
CountKnown(b, r, e) ==
    LET x == r.target[e.s]
        q == [r EXCEPT !.target[e.s] = [cur |-> e.t, stop |-> IF x.cur = e.t THEN e.t ELSE 0,
                                        cont |-> 0, ws |-> e.ws],
                       !.fresh = FALSE]
    IN IF Unresolved(r) \/ x.cur \notin {0, e.t} \/ (x.cur # 0 /\ x.cont = x.cur) \/ Stopped(x)
         THEN r
         ELSE [q EXCEPT !.st = IF ~BarrierSatisfied(b, q) THEN "ARMED"
                               ELSE IF b \in DryRun THEN "COMPLETE" ELSE "STOP_OBSERVED"]

\* applyBarrierStop: a normal Stop counts for a target not seen before or in
\* its current turn, once, and not in a turn that was continued.
CountStop(b, r, e) ==
    LET x == r.target[e.s]
        q == [r EXCEPT !.target[e.s] = [cur |-> e.t, stop |-> e.t, cont |-> 0, ws |-> e.ws],
                       !.fresh = FALSE]
    IN IF Unresolved(r) \/ x.cur \notin {0, e.t} \/ (x.cur # 0 /\ x.cont = x.cur) \/ Stopped(x)
         THEN r
         ELSE [q EXCEPT !.st = IF ~BarrierSatisfied(b, q) THEN "ARMED"
                               ELSE IF b \in DryRun THEN "COMPLETE" ELSE "STOP_OBSERVED"]

\* Mutation: the hooks do not look whether the job has ended.
ApplyToEnded(b, r, e, expired) ==
    CASE e.kind = "SessionEnd" -> IF Stopped(r.target[e.s]) THEN r ELSE FailOrCancel(r)
      [] e.kind # "SessionEnd" /\ expired /\ ~Unresolved(r) -> Close(r, "FAILED")
      [] e.kind # "SessionEnd" /\ (~expired \/ Unresolved(r)) ->
           IF Foreign(r, e) THEN FailOrCancel(r)
           ELSE IF e.kind = "Prompt" \/ e.again THEN Reopen(r, e) ELSE CountStop(b, r, e)

\* applyBarrierPrompt, applyBarrierStop and applyBarrierSessionEnd.
ApplyToBarrier(b, r, e, expired) ==
    CASE ~IsActive(r) -> r
      [] IsActive(r) /\ e.kind = "SessionEnd" -> IF Stopped(r.target[e.s]) THEN r ELSE FailOrCancel(r)
      [] IsActive(r) /\ e.kind # "SessionEnd" /\ expired /\ ~Unresolved(r) -> Close(r, "FAILED")
      [] IsActive(r) /\ e.kind # "SessionEnd" /\ (~expired \/ Unresolved(r)) ->
           IF Foreign(r, e) THEN FailOrCancel(r)
           ELSE IF e.kind = "Prompt" \/ e.again THEN Reopen(r, e) ELSE CountStop(b, r, e)

\* The closures of the same hooks for an after_stop job.
CancelGrant(r) == [Close(r, "CANCELLED") EXCEPT !.creq = TRUE]
ApplyToSingle(j, r, e, expired) ==
    LET x == r.target[e.s]
        stopped == [r EXCEPT !.target[e.s].stop = e.t,
                             !.st = IF j \in DryRun THEN "COMPLETE" ELSE "STOP_OBSERVED"]
    IN CASE ~IsActive(r) \/ (e.kind = "SessionEnd" /\ r.st \in {"STOP_OBSERVED", "ACTION"}) -> r
         [] e.kind = "SessionEnd" /\ r.st \in {"ARM_PENDING_BIND", "ARMED"} -> Close(r, "FAILED")
         [] e.kind # "SessionEnd" /\ Unresolved(r) -> RequestCancel(r)
         [] e.kind # "SessionEnd" /\ IsActive(r) /\ ~Unresolved(r) ->
              IF expired THEN Close(r, "FAILED")
              ELSE IF e.kind = "Prompt" \/ e.again THEN CancelGrant(r)
              ELSE IF j \notin DryRun /\ Foreign(r, e) THEN Close(r, "FAILED")
              ELSE IF r.st = "STOP_OBSERVED" THEN CancelGrant(r)
              ELSE IF r.st = "ARMED" /\ e.t = x.cur THEN stopped ELSE r

ApplyTo(j, r, e, expired) ==
    IF j \in Barrier THEN ApplyToBarrier(j, r, e, expired) ELSE ApplyToSingle(j, r, e, expired)

-----------------------------------------------------------------------------
(* Session indexes.                                                        *)

Owned(j) == {s \in Session : index[s] = j}

\* barrierIndexesMatchUnlocked.
IndexesMatch(b) == Targets[b] \subseteq Owned(b)

\* A reservation whose job file never got its commit may be taken over.
Stale(k) == k \in Barrier /\ ~job[k].committed

\* Mutation: only another barrier is a conflict.
BarrierConflict(b) ==
    \E s \in Targets[b] : index[s] \in Barrier /\ ~Stale(index[s]) /\ IsActive(job[index[s]])

\* CreateBarrierReservations refuses a target that an active job holds.
Conflict(b) == \E s \in Targets[b] : index[s] # NoJob /\ ~Stale(index[s]) /\ IsActive(job[index[s]])

\* An index shows its job to lifecycle events once the controller's hook has
\* bound the barrier; an after_stop job is written together with its index.
Visible(j) == j \in Single \/ (job[j].committed /\ job[j].ready)

\* LookupObservedSession, which takes no lock.
Lookup(s) == IF index[s] # NoJob /\ Visible(index[s]) THEN index[s] ELSE NoJob

\* shouldReleaseBarrierIndexes and releaseBarrierIndexesUnlocked: which
\* indexes a save of r may give back.
Gone(j, r) ==
    IF j \in Barrier /\ ~IsActive(r)
      THEN {S \in SUBSET Owned(j) : S = Owned(j) \/ Fault("release_fails")}
      ELSE {{}}
Save(j, r, gone) ==
    /\ job' = [job EXCEPT ![j] = r]
    /\ index' = [s \in Session |-> IF s \in gone THEN NoJob ELSE index[s]]

Short(j, r, gone) == j \in Barrier /\ ~IsActive(r) /\ gone # Owned(j)

\* UpdateJob.
UpdateJob(j, r) == \E gone \in Gone(j, r) : Save(j, r, gone)

-----------------------------------------------------------------------------
(* The host: turns of the sessions, and a Hook process for every event.    *)

Ev(k, s, t, again, w) == [kind |-> k, s |-> s, t |-> t, again |-> again, ws |-> w]
Running(s) == mode[s] \in {"run", "rerun"}
Busy(s) == \E x \in hooks : x.e.s = s
Process(pc, e, j) == [pc |-> pc, e |-> e, job |-> j, mark |-> NoJob, err |-> FALSE]

\* Something goes wrong with an event of session s.
Disturb(s) == s \in Shaky \cap clean /\ clean' = clean \ {s}

\* The host waits for the hooks of a session, unless it stops waiting.  It is
\* followed as long as a job is open: a bound, as are MaxHooks and MaxTurn.
Start(pc, e, j) ==
    /\ \E k \in Job : job[k].st \notin Terminal
    /\ Cardinality(hooks) < MaxHooks
    /\ \/ ~Busy(e.s) /\ UNCHANGED clean
       \/ Busy(e.s) /\ Fault("overtake") /\ Disturb(e.s)
    /\ hooks' = hooks \cup {Process(pc, e, j)}
    /\ sent' = IF Fault(IF e.kind = "Arm" THEN "rearm" ELSE "replay")
                 THEN {f \in sent : f.s # e.s \/ f.kind = "Arm"} \cup {e} ELSE sent

Deliver(e) ==
    /\ Start("capture", e, NoJob)
    /\ UNCHANGED <<storeVars, marks, worker, late, rearmed, unlinked>>

Prompt(s) ==
    /\ mode[s] \in {"idle", "rested"} /\ turn[s] < MaxTurn[s]
    /\ turn' = [turn EXCEPT ![s] = @ + 1]
    /\ mode' = [mode EXCEPT ![s] = "run"]
    /\ \E w \in Workspace[s] : Deliver(Ev("Prompt", s, turn[s] + 1, FALSE, w))

Stop(s) ==
    /\ Running(s)
    /\ mode' = [mode EXCEPT ![s] = IF @ = "run" THEN "idle" ELSE "rested"]
    /\ \E w \in Workspace[s] : Deliver(Ev("Stop", s, turn[s], mode[s] = "rerun", w))
    /\ UNCHANGED turn

SessionEnd(s) ==
    /\ mode[s] # "ended"
    /\ mode' = [mode EXCEPT ![s] = "ended"]
    /\ \E w \in Workspace[s] : Deliver(Ev("SessionEnd", s, turn[s], FALSE, w))
    /\ UNCHANGED turn

\* Another plugin's Stop hook sends the session back to work: the turn goes on,
\* once, a bound.
Continue(s) ==
    /\ Fault("continue") /\ s \in Shaky /\ mode[s] = "idle" /\ turn[s] > 0
    /\ mode' = [mode EXCEPT ![s] = "rerun"]
    /\ UNCHANGED <<storeVars, marks, worker, late, hooks, turn, sent, clean, rearmed, unlinked>>

Again(pc, e, j) ==
    /\ Cardinality(hooks) < MaxHooks /\ Disturb(e.s)
    /\ hooks' = hooks \cup {Process(pc, e, j)}

\* A hook is run again for an event that was delivered before.
Redeliver(e) ==
    /\ Fault("replay") /\ e \in sent /\ e.kind # "Arm"
    /\ Again("capture", e, NoJob)
    /\ UNCHANGED <<storeVars, marks, worker, late, hostVars, sent, rearmed, unlinked>>

-----------------------------------------------------------------------------
(* Arming.                                                                 *)

\* arm of an after_stop job, and the PostToolUse hook for its answer.
ArmSingle(j) ==
    LET s == Home[j]
    IN /\ job[j].st = "NONE" /\ Running(s)
       /\ \E w \in Workspace[s] :
            LET e == Ev("Arm", s, turn[s], FALSE, w)
            IN \/ /\ job' = [job EXCEPT ![j] = [NewJob EXCEPT !.target[s].ws = w]]
                  /\ Start("bind", e, j)
               \/ /\ Fault("launch_fails")
                  /\ job' = [job EXCEPT ![j] = Close([NewJob EXCEPT !.target[s].ws = w], "FAILED")]
                  /\ UNCHANGED <<hooks, sent, clean>>
       /\ UNCHANGED <<index, marks, worker, late, hostVars, rearmed, unlinked>>

Rearm(j, e) ==
    /\ Fault("rearm") /\ e \in sent /\ e.kind = "Arm" /\ e.s = Home[j] /\ job[j].st # "NONE"
    /\ Again("bind", e, j)
    /\ rearmed' = rearmed \cup {e.s}
    /\ UNCHANGED <<storeVars, marks, worker, late, hostVars, sent, unlinked>>

\* BindSession: the job of the session's current turn, if no other active job
\* has the session.  A repeated hook writes the index again.
Bound(j) == job[j].target[Home[j]].cur # 0
Bind(x) ==
    LET j == x.job
        s == x.e.s
        r == job[j]
        held == index[s] \notin {NoJob, j} /\ IsActive(job[index[s]])
        bound == [Remember(r, x.e) EXCEPT !.st = "ARMED",
                           !.target[s].cur = x.e.t,
                           !.target[s].ws = IF j \in DryRun THEN @ ELSE x.e.ws]
    IN /\ x.pc = "bind"
       /\ hooks' = hooks \ {x}
       /\ \/ /\ x.e \in r.keys
             /\ index' = IF Bound(j) THEN [index EXCEPT ![s] = j] ELSE index
             /\ UNCHANGED <<job, clean, unlinked>>
          \/ /\ x.e \notin r.keys /\ r.st = "ARM_PENDING_BIND" /\ j \in late
             /\ job' = [job EXCEPT ![j] = Remember(Close(r, "FAILED"), x.e)]
             /\ UNCHANGED <<index, clean, unlinked>>
          \/ /\ x.e \notin r.keys /\ r.st = "ARM_PENDING_BIND" /\ j \notin late
             /\ ~held
             /\ job' = [job EXCEPT ![j] = bound]
             /\ \/ index' = [index EXCEPT ![s] = j] /\ UNCHANGED <<clean, unlinked>>
                \/ Fault("hook_crash") /\ Disturb(s) /\ unlinked' = unlinked \cup {j} /\ UNCHANGED index
          \/ /\ x.e \notin r.keys
             /\ r.st # "ARM_PENDING_BIND" \/ (j \notin late /\ held)
             /\ UNCHANGED <<storeVars, clean, unlinked>>
       /\ UNCHANGED <<marks, worker, late, hostVars, sent, rearmed>>

\* CreateBarrierReservations: the job file, an index per target, the commit.
\* When an index cannot be written the job fails and what was written goes.
Reserve(b) ==
    LET T == Targets[b]
        Cleared(S) == [s \in Session |-> IF s \in S THEN NoJob ELSE index[s]]
        Written(S) == [s \in Session |-> IF s \in S THEN b ELSE index[s]]
        stale == {s \in T : index[s] # NoJob /\ Stale(index[s])}
        committed == [NewJob EXCEPT !.committed = TRUE]
    IN /\ job[b].st = "NONE" /\ ~Conflict(b)
       /\ \/ /\ job' = [job EXCEPT ![b] = committed]
             /\ index' = Written(T)
          \/ /\ Fault("update_fails")
             /\ job' = [job EXCEPT ![b] = Close(NewJob, "FAILED")]
             /\ \E S \in SUBSET T : S # T /\ index' = Cleared(S \cup stale)
          \/ /\ Fault("arm_crash")
             /\ job' = [job EXCEPT ![b] = NewJob]
             /\ \E S \in SUBSET T :
                  index' = [s \in Session |-> IF s \in S THEN b
                                              ELSE IF s \in stale THEN NoJob ELSE index[s]]
          \/ /\ Fault("log_fails") \/ Fault("launch_fails")
             /\ job' = [job EXCEPT ![b] = Close(committed, "FAILED")]
             /\ index' = Cleared(T)
       /\ UNCHANGED <<marks, worker, late, hooks, hostVars, sent, clean, rearmed, unlinked>>

\* bindBarrierControllerUnlocked: the PostToolUse hook of the controller makes
\* the reservation observable, or fails the job.
BindBarrier(b, good) ==
    LET r == job[b]
        ready == [r EXCEPT !.ready = TRUE, !.fresh = FALSE,
                           !.st = IF ~BarrierSatisfied(b, r) THEN "ARMED"
                                  ELSE IF b \in DryRun THEN "COMPLETE" ELSE "STOP_OBSERVED"]
    IN /\ r.st = "ARM_PENDING_BIND" /\ r.committed
       /\ good \/ Fault("bad_bind")
       /\ \/ /\ b \in late \/ ~good \/ ~IndexesMatch(b)
             /\ UpdateJob(b, Close(r, "FAILED"))
          \/ /\ b \notin late /\ good /\ IndexesMatch(b)
             /\ UpdateJob(b, ready)
          \/ /\ b \notin late /\ good /\ IndexesMatch(b) /\ Fault("log_fails")
             /\ UpdateJob(b, FailOrCancel(ready))
       /\ UNCHANGED <<marks, worker, late, hooks, hostVars, sent, clean, rearmed, unlinked>>

-----------------------------------------------------------------------------
(* A lifecycle hook.  It looks the session up without the lock, leaves a    *)
(* revocation marker when the event may have to stop a power action, applies *)
(* the event under the lock, and then starts a cancel-only worker or removes *)
(* its marker.                                                             *)

Advance(x, y) == hooks' = (hooks \ {x}) \cup {y}

\* targetBinding, and what each handler makes of it.
Revoking(e, j) ==
    LET r == job[j]
        x == r.target[e.s]
        found == j # NoJob
        preserved == Stopped(x) \/ (j \in Single /\ (r.st = "STOP_OBSERVED" \/ Unresolved(r)))
    IN \/ e.kind = "Prompt"
       \/ e.kind = "Stop" /\ (e.again \/ (found /\ (x.ws \notin {"none", e.ws} \/ Unresolved(r))))
       \/ e.kind = "SessionEnd" /\ ~(found /\ preserved)

Capture(x) ==
    LET j == Lookup(x.e.s)
    IN /\ x.pc = "capture"
       /\ Advance(x, [x EXCEPT !.job = j, !.pc = IF Revoking(x.e, j) THEN "mark" ELSE "update"])
       /\ UNCHANGED <<storeVars, marks, worker, late, hostVars, sent, clean, rearmed, unlinked>>

\* CreateRevocationMarker looks the session up again.  A hook that captured
\* nothing takes the binding it finds now.
Mark(x) ==
    LET now == Lookup(x.e.s)
        other == now # NoJob /\ x.job # NoJob /\ now # x.job
        none == now = NoJob /\ x.job = NoJob
        closed == now # NoJob /\ ~IsActive(job[now])
        j == IF now # NoJob THEN now ELSE x.job
    IN /\ x.pc = "mark"
       /\ IF other \/ none \/ closed
            THEN Advance(x, [x EXCEPT !.pc = "update"]) /\ UNCHANGED <<marks, clean>>
            ELSE \/ /\ Advance(x, [x EXCEPT !.pc = "update", !.mark = j])
                    /\ marks' = [marks EXCEPT ![j] = @ \cup {[e |-> x.e, by |-> x.job]}]
                    /\ UNCHANGED clean
                 \/ /\ Fault("mark_fails")
                    /\ Advance(x, [x EXCEPT !.pc = "update", !.mark = j, !.err = TRUE])
                    /\ Disturb(x.e.s)
                    /\ UNCHANGED marks
       /\ UNCHANGED <<storeVars, worker, late, hostVars, sent, rearmed, unlinked>>

\* observeRevocation after the update: is a cancel-only worker needed?
Leave(x, applied, err, r) ==
    IF x.mark = NoJob
      THEN hooks' = hooks \ {x}
      ELSE Advance(x, [x EXCEPT !.pc = IF x.err \/ err \/ ~applied \/ Unresolved(r)
                                         THEN "launch" ELSE "cleanup"])

\* updateObservedSessionBinding: only the job that was captured, still indexed,
\* observable, and only once for an event.
Applies(x) ==
    /\ x.job # NoJob /\ index[x.e.s] = x.job /\ Visible(x.job)
    /\ x.e \notin job[x.job].keys

Update(x) ==
    LET j == x.job
        r == job[j]
        full == Fault("capacity") /\ j \in Barrier /\ Cardinality(r.keys) >= EventCap
        q == IF full THEN FailOrCancel(r)
             ELSE Remember(ApplyTo(j, r, x.e, j \in late), x.e)
        unlogged == IF j \in Barrier THEN FailOrCancel(q) ELSE q
    IN /\ x.pc = "update"
       /\ \/ /\ ~Applies(x)
             /\ Leave(x, FALSE, FALSE, NewJob)
             /\ UNCHANGED <<storeVars, clean>>
          \/ /\ Applies(x)
             /\ \E gone \in Gone(j, q) :
                  /\ Save(j, q, gone)
                  /\ Leave(x, TRUE, ~full /\ Short(j, q, gone), q)
             /\ UNCHANGED clean
          \/ /\ Applies(x) /\ ~full /\ Fault("log_fails")
             /\ UpdateJob(j, unlogged)
             /\ Leave(x, TRUE, TRUE, unlogged)
             /\ Disturb(x.e.s)
          \/ /\ Fault("update_fails")
             /\ Leave(x, FALSE, TRUE, NewJob)
             /\ Disturb(x.e.s)
             /\ UNCHANGED storeVars
       /\ UNCHANGED <<marks, worker, late, hostVars, sent, rearmed, unlinked>>

\* EnsureCancelWorker; when it cannot start, the job is stopped as far as a
\* state update can.
Launch(x) ==
    LET j == x.mark
        r == job[j]
    IN /\ x.pc = "launch"
       /\ hooks' = hooks \ {x}
       /\ \/ worker' = worker \cup {j} /\ UNCHANGED storeVars
          \/ /\ Fault("launch_fails")
             /\ UpdateJob(j, IF IsActive(r) THEN FailOrCancel(r) ELSE r)
             /\ UNCHANGED worker
       /\ UNCHANGED <<marks, late, hostVars, sent, clean, rearmed, unlinked>>

\* CompleteRevocation: the update went through and left nothing to recover.
Cleanup(x) ==
    /\ x.pc = "cleanup"
    /\ hooks' = hooks \ {x}
    /\ marks' = [marks EXCEPT ![x.mark] = @ \ {[e |-> x.e, by |-> x.job]}]
    /\ UNCHANGED <<storeVars, worker, late, hostVars, sent, clean, rearmed, unlinked>>

\* The host gives up on a hook and ends its process.
HookCrash(x) ==
    /\ Fault("hook_crash")
    /\ hooks' = hooks \ {x}
    /\ Disturb(x.e.s)
    /\ UNCHANGED <<storeVars, marks, worker, late, hostVars, sent, rearmed, unlinked>>

HookStep(x) == Bind(x) \/ Capture(x) \/ Mark(x) \/ Update(x) \/ Launch(x) \/ Cleanup(x)

-----------------------------------------------------------------------------
(* Cancellation, expiry, and the supervisor's use of the barrier.          *)

\* mcp.cancel: an action on record is left to a cancel-only worker.
CancelJob(j) ==
    LET r == job[j]
    IN /\ IsActive(r)
       /\ IF Unresolved(r)
            THEN UpdateJob(j, RequestCancel(r)) /\ worker' = worker \cup {j}
            ELSE UpdateJob(j, CancelGrant(r)) /\ UNCHANGED worker
       /\ UNCHANGED <<marks, late, hooks, hostVars, sent, clean, rearmed, unlinked>>

\* The cancel-only worker (PluginPower has its steps): what is active ends
\* cancelled and its markers go; what is closed is left as it is.
Worker(j) ==
    /\ j \in worker
    /\ worker' = worker \ {j}
    /\ IF IsActive(job[j])
         THEN UpdateJob(j, CancelGrant(job[j])) /\ marks' = [marks EXCEPT ![j] = {}]
         ELSE UNCHANGED <<storeVars, marks>>
    /\ UNCHANGED <<late, hooks, hostVars, sent, clean, rearmed, unlinked>>

Tick(j) ==
    /\ Fault("expires") /\ IsActive(job[j])
    /\ late' = late \cup {j}
    /\ UNCHANGED <<storeVars, marks, worker, hooks, hostVars, sent, clean, rearmed, unlinked>>

\* Whoever looks at an expired job with no action on record closes it.
Refresh(j) ==
    /\ j \in late /\ IsActive(job[j]) /\ ~Unresolved(job[j])
    /\ UpdateJob(j, Close(job[j], "FAILED"))
    /\ UNCHANGED <<marks, worker, late, hooks, hostVars, sent, clean, rearmed, unlinked>>

\* BarrierAuthority, and the binding check of an after_stop job; in either
\* case no revocation may be pending.
Authority(j) ==
    /\ marks[j] = {} /\ ~job[j].creq
    /\ j \in Barrier => Visible(j) /\ BarrierSatisfied(j, job[j]) /\ IndexesMatch(j)
    /\ j \in Single => Bound(j) /\ job[j].target[Home[j]].stop = job[j].target[Home[j]].cur

\* schedule: the supervisor captures the job it will insist on, or fails it.
Authorize(j) ==
    LET r == job[j]
    IN /\ r.st = "STOP_OBSERVED" /\ j \notin late /\ ~r.fresh
       /\ UpdateJob(j, IF Authority(j) THEN [r EXCEPT !.fresh = TRUE] ELSE Close(r, "FAILED"))
       /\ UNCHANGED <<marks, worker, late, hooks, hostVars, sent, clean, rearmed, unlinked>>

\* power.intent.
Claim(j) ==
    LET r == job[j]
    IN /\ r.st = "STOP_OBSERVED" /\ r.fresh
       /\ UpdateJob(j, [r EXCEPT !.st = "ACTION"])
       /\ UNCHANGED <<marks, worker, late, hooks, hostVars, sent, clean, rearmed, unlinked>>

\* The checks that follow the intent call the action off, or it runs its course.
Settle(j) ==
    LET r == job[j]
    IN /\ r.st = "ACTION"
       /\ UpdateJob(j, IF Authority(j) THEN Close(r, "COMPLETE")
                       ELSE [Close(r, "CANCELLED") EXCEPT !.creq = TRUE])
       /\ UNCHANGED <<marks, worker, late, hooks, hostVars, sent, clean, rearmed, unlinked>>

-----------------------------------------------------------------------------
Init ==
    /\ job = [j \in Job |-> [NewJob EXCEPT !.st = "NONE"]]
    /\ index = [s \in Session |-> NoJob]
    /\ marks = [j \in Job |-> {}]
    /\ worker = {} /\ late = {} /\ hooks = {}
    /\ turn = [s \in Session |-> 1]
    /\ mode = [s \in Session |-> "run"]
    /\ sent = {}
    /\ clean = Session
    /\ rearmed = {} /\ unlinked = {}

HostNext == \E s \in Session : Prompt(s) \/ Stop(s) \/ SessionEnd(s) \/ Continue(s)
ReplayNext == \E e \in sent : Redeliver(e) \/ \E j \in Single : Rearm(j, e)
ArmNext ==
    \/ \E j \in Single : ArmSingle(j)
    \/ \E b \in Barrier : Reserve(b) \/ \E good \in BOOLEAN : BindBarrier(b, good)
HookNext == \E x \in hooks : HookStep(x) \/ HookCrash(x)
JobNext ==
    \E j \in Job : CancelJob(j) \/ Worker(j) \/ Tick(j) \/ Refresh(j)
                     \/ Authorize(j) \/ Claim(j) \/ Settle(j)

Next == HostNext \/ ReplayNext \/ ArmNext \/ HookNext \/ JobNext

Spec == Init /\ [][Next]_vars

\* The operating system runs a hook that was started.
SessionHook(s) == \E x \in hooks : x.e.s = s /\ HookStep(x)
FairSpec == Spec /\ \A s \in Session : WF_vars(SessionHook(s))

-----------------------------------------------------------------------------
(* Properties.                                                             *)

JobRecord == [ st : State, committed : BOOLEAN, ready : BOOLEAN, creq : BOOLEAN, fresh : BOOLEAN,
               target : [Session -> StopTarget], keys : SUBSET Event ]
HookProcess == [ pc : {"bind", "capture", "mark", "update", "launch", "cleanup"}, e : Event,
              job : Job \cup {NoJob}, mark : Job \cup {NoJob}, err : BOOLEAN ]

\* Every variable has its type.
BarrierTypeOK ==
    /\ job \in [Job -> JobRecord]
    /\ index \in [Session -> Job \cup {NoJob}]
    /\ marks \in [Job -> SUBSET [e : Event, by : Job \cup {NoJob}]]
    /\ worker \subseteq Job /\ late \subseteq Job
    /\ hooks \subseteq HookProcess
    /\ turn \in [Session -> Turn]
    /\ mode \in [Session -> {"idle", "run", "rerun", "rested", "ended"}]
    /\ sent \subseteq Event
    /\ clean \subseteq Session /\ rearmed \subseteq Session /\ unlinked \subseteq Single

\* Validate and validateStopBarrier.
ValidTarget(x) ==
    IF x.cur = 0 THEN x = Blank
    ELSE x.ws # "none" /\ x.stop \in {0, x.cur} /\ x.cont \in {0, x.cur} /\ (x.stop = 0 \/ x.cont = 0)
ValidBarrier(b, r) ==
    /\ \A s \in Targets[b] : ValidTarget(r.target[s])
    /\ r.ready => r.committed
    /\ r.st = "ARM_PENDING_BIND" => ~r.ready
    /\ r.st \in {"ARMED", "STOP_OBSERVED", "ACTION"} => r.ready
    /\ r.st = "STOP_OBSERVED" \/ (r.st = "COMPLETE" /\ b \in DryRun) => BarrierSatisfied(b, r)
ValidSingle(j, r) ==
    LET x == r.target[Home[j]]
    IN /\ r.st = "ARM_PENDING_BIND" => x.cur = 0
       /\ r.st \in {"ARMED", "STOP_OBSERVED", "ACTION"} => x.cur # 0
       /\ r.st = "STOP_OBSERVED" => x.stop # 0
ValidJob(j, r) == IF j \in Barrier THEN ValidBarrier(j, r) ELSE ValidSingle(j, r)

\* No sequence of hooks, cancellations and failures produces a record that
\* Validate refuses: a refused update would leave the event unrecorded.
ValidJobs == \A j \in Job : ValidJob(j, job[j])

\* A job that is bound and not closed holds the index of every session it
\* watches, so no event can miss it, however the other jobs reserve, bind and
\* release.  An arm hook delivered twice may take one away; an arm hook cut off
\* between the job file and the index leaves an after_stop job that no event
\* reaches, and that therefore never gets past ARMED.
Hears(j) == Home[j] \in Owned(j) \cup rearmed
ReadyOwnsIndexes ==
    /\ \A b \in Barrier : IsActive(job[b]) /\ job[b].ready => Targets[b] \subseteq Owned(b) \cup rearmed
    /\ \A j \in Single : IsActive(job[j]) /\ Bound(j) => Hears(j) \/ (j \in unlinked /\ job[j].st = "ARMED")

\* While a barrier is ready to act and nothing has asked to revoke it, none of
\* its targets is at work, unless a hook has yet to report that.
CountedMeansIdle ==
    \A b \in Barrier, s \in Session :
      (/\ job[b].st \in {"STOP_OBSERVED", "ACTION"} /\ ~job[b].creq
       /\ marks[b] = {} /\ b \notin worker /\ s \in Targets[b] \cap clean)
      => (mode[s] # "run" \/ Busy(s))

\* A job that has ended never becomes active again, whatever arrives late.
NoRevival == [][\A j \in Job : job[j].st \in Terminal => job'[j].st \in Terminal]_vars

\* A bound barrier is not left waiting once every target rests in a turn it
\* has seen, or with a Stop on its way: the last Stop is recorded or the
\* barrier ends.
Resting(b, s) ==
    /\ s \in clean /\ mode[s] = "idle"
    /\ \/ job[b].target[s].cur = turn[s] /\ job[b].target[s].cont = 0
       \/ \E x \in hooks : x.e.s = s /\ x.e.kind = "Stop" /\ x.job = b
AllStopped(b) == job[b].st = "ARMED" /\ \A s \in Targets[b] : Resting(b, s)
BarrierFires == \A b \in Barrier : AllStopped(b) ~> ~AllStopped(b)

-----------------------------------------------------------------------------
(* The stores and hooks together implement BarrierRule, for every barrier.  *)

Phase(r) ==
    CASE r.st \in {"NONE", "ARM_PENDING_BIND", "ARMED"} -> "waiting"
      [] r.st = "STOP_OBSERVED" -> "ready"
      [] r.st = "ACTION" -> "claimed"
      [] r.st \in Terminal -> "closed"
Counted(b, r) == {s \in Targets[b] : Stopped(r.target[s])}

Rule(b) == INSTANCE BarrierRule WITH Target <- Targets[b], phase <- Phase(job[b]),
                                     counted <- Counted(b, job[b]), revoked <- job[b].creq

\* However hooks, reservations and failures interleave, a barrier moves as
\* BarrierRule lets it.
ImplementsRule ==
    /\ \A b \in Barrier : Rule(b)!Init
    /\ [][\A b \in Barrier : [Rule(b)!Next]_(Rule(b)!vars)]_vars
=============================================================================
