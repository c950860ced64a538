--------------------------- MODULE VerifiedSuccess ---------------------------
(***************************************************************************)
(* The verified_success policy: a job acts only after its task reported    *)
(* done, the registered verifier passed, and the host itself was seen at   *)
(* rest in the very turn that stopped.  Three parties work on the job file *)
(* without waiting for each other: the MCP server (finish, pause, cancel), *)
(* the lifecycle hooks, and the supervisor, which looks at the host        *)
(* through several App Server calls (internal/hostauthority) and saves     *)
(* what it saw only if the job did not change meanwhile.                   *)
(*                                                                         *)
(* One job of mode execute.  The power call itself and its failures are    *)
(* PluginPower's; which job an event reaches, and its repetition, are      *)
(* StopBarrier's.                                                          *)
(***************************************************************************)
EXTENDS Naturals

CONSTANTS
    MaxTurn,      \* turns of the session: a bound
    Config,       \* the effective hook configurations of the host (positive numbers),
    Compatible,   \* ... and those EvaluateHooks accepts
    Disturbances  \* what may come between in one behaviour: sets of these classes

\* agent_only is how the job is armed: verifier_profile none, and the task's
\* own word allowed to be enough.
Disturbance == { "agent_only", "cancel", "session_end", "interrupt", "continue", "expires", "others", "reconfigured",
                 "stranger", "hook_crash", "restart", "event_loss", "gate_refuses", "server_exits",
                 "launch_fails" }

ASSUME VerifiedAssumption ==
    /\ MaxTurn \in Nat \ {0}
    /\ Config \subseteq Nat \ {0} /\ Compatible \subseteq Config /\ Compatible # {}
    /\ Disturbances \subseteq SUBSET Disturbance

VARIABLES
    job,      \* the job file
    late,     \* its ExpiresAt has passed
    marks,    \* its revocation markers: the hooks that wrote them
    worker,   \* a cancel-only worker is under way
    hooks,    \* the Hook processes under way
    tool,     \* finish calls under way, of the armed session and of another
    host,     \* the host's target thread, other threads, hooks and instance, and what may
              \* come between in this behaviour
    sup,      \* the supervisor: its step, what it looks at the host for, the job it
              \* loaded and what it saw so far
    proved    \* history: the turn whose completion stands, as the host knows it

vars == <<job, late, marks, worker, hooks, tool, host, sup, proved>>

-----------------------------------------------------------------------------
(* The job.  FAILED stands for every state a gate closes a job with.       *)

Terminal == {"FAILED", "EXPIRED", "CANCELLED", "NOT_DONE", "VERIFICATION_FAILED"}
Reported == {"READY_PENDING_STOP", "STOP_OBSERVED"}
Acting == {"ACTION_INTENT", "ACTION_SCHEDULED"}
Working == {"ARMED", "HOST_MONITORING"}
State == {"NONE", "ARM_PENDING_BIND", "VERIFYING", "WAITING"} \cup Working \cup Reported \cup Acting \cup Terminal

Turn == 0..MaxTurn
Print0 == Config \cup {0}
Instance == {0, 1, 2}
JobRecord == [ st : State, gen : Nat, cur : Turn, ready : Turn, stop : Turn, fin : BOOLEAN, pass : BOOLEAN,
               h1 : Print0, h2 : Print0, h3 : Print0, inst : Instance, creq : BOOLEAN ]
NewJob == [ st |-> "ARM_PENDING_BIND", gen |-> 1, cur |-> 0, ready |-> 0, stop |-> 0, fin |-> FALSE,
            pass |-> FALSE, h1 |-> 0, h2 |-> 0, h3 |-> 0, inst |-> 0, creq |-> FALSE ]

May(f) == f \in host.may
AgentOnly == May("agent_only")
Unresolved(r) == r.st \in Acting
IsActive(r) == r.st \notin Terminal \cup {"NONE"}
Bound(r) == r.cur # 0

Bump(r) == [r EXCEPT !.gen = @ + 1]

\* clearCompletion: the evidence and what was seen of the host go together.
ClearCompletion(r) ==
    [r EXCEPT !.ready = 0, !.stop = 0, !.fin = FALSE, !.pass = FALSE,
              !.h1 = 0, !.h2 = 0, !.h3 = 0, !.inst = 0, !.creq = FALSE]

Invalidate(r, s) == [ClearCompletion(Bump(r)) EXCEPT !.st = s]

\* expire, in each of the three packages.
Expire(r) == Invalidate(r, "EXPIRED")
RequestCancel(r) == [Bump(r) EXCEPT !.creq = TRUE]

-----------------------------------------------------------------------------
(* The host.  A hook of the target thread makes the host wait.             *)

Own(x) == x.kind # "Stranger"
Busy == \E x \in hooks : Own(x)
Tell(h) == [h EXCEPT !.live = TRUE]
Hook(k, again) == [kind |-> k, t |-> host.turn, again |-> again, pc |-> "observe", mark |-> FALSE]
StartHook(k, again) == hooks' = hooks \cup {Hook(k, again)}

UserPromptSubmit ==
    /\ host.st \in {"idle", "interrupted"} /\ host.turn < MaxTurn /\ ~Busy
    /\ host' = [Tell(host) EXCEPT !.turn = @ + 1, !.st = "active", !.again = FALSE]
    /\ hooks' = hooks \cup {[Hook("Prompt", FALSE) EXCEPT !.t = host.turn + 1]}
    /\ UNCHANGED <<job, late, marks, worker, tool, sup, proved>>

StopEvent ==
    /\ host.st = "active" /\ ~Busy /\ tool.own.pc = "none"
    /\ host' = [Tell(host) EXCEPT !.st = "closing"]
    /\ StartHook("Stop", host.again)
    /\ UNCHANGED <<job, late, marks, worker, tool, sup, proved>>

\* After its Stop hooks the turn is over, unless one of them asks to go on.
TurnCompleted ==
    /\ host.st = "closing" /\ ~Busy
    /\ \/ host' = [Tell(host) EXCEPT !.st = "idle", !.told = @ \cup {host.turn}]
       \/ /\ May("continue") /\ ~host.again
          /\ host' = [Tell(host) EXCEPT !.st = "active", !.again = TRUE]
    /\ UNCHANGED <<job, late, marks, worker, hooks, tool, sup, proved>>

\* The user interrupts the turn: no Stop, and no answer for a tool call.
Interrupt ==
    /\ May("interrupt") /\ host.st = "active" /\ ~Busy
    /\ host' = [Tell(host) EXCEPT !.st = "interrupted"]
    /\ UNCHANGED <<job, late, marks, worker, hooks, tool, sup, proved>>

SessionEnd ==
    /\ May("session_end") /\ host.st \notin {"closing", "ended"} /\ ~Busy
    /\ host' = [Tell(host) EXCEPT !.st = "ended"]
    /\ StartHook("SessionEnd", FALSE)
    /\ UNCHANGED <<job, late, marks, worker, tool, sup, proved>>

\* Other threads, background terminals, the hook configuration, the host
\* process and the notification channel go their own ways.
Elsewhere ==
    /\ \/ May("others") /\ \E busy \in BOOLEAN : host' = [host EXCEPT !.others = busy]
       \/ May("reconfigured") /\ \E c \in Config : host' = [host EXCEPT !.conf = c]
       \/ May("restart") /\ host' = [host EXCEPT !.inst = 2]
       \/ May("event_loss") /\ host' = [host EXCEPT !.loss = TRUE]
    /\ UNCHANGED <<job, late, marks, worker, hooks, tool, sup, proved>>

-----------------------------------------------------------------------------
(* The MCP server.                                                         *)

\* No call under way; another session calls once, a bound.
Quiet == [pc |-> "none", t |-> 0, gen |-> 0]
Over(c) == [Quiet EXCEPT !.pc = IF c = "own" THEN "none" ELSE "over"]

\* arm: the job, its supervisor, and the hook for the answer, which the
\* supervisor may have connected too late to be told of.
Arm ==
    /\ job.st = "NONE" /\ host.st = "active" /\ ~Busy
    /\ \E heard \in BOOLEAN : host' = [host EXCEPT !.live = heard, !.told = {}, !.failed = FALSE]
    /\ \/ job' = NewJob /\ sup' = [sup EXCEPT !.pc = "run"] /\ StartHook("Arm", FALSE)
       \/ May("launch_fails") /\ job' = [Bump(NewJob) EXCEPT !.st = "FAILED"] /\ UNCHANGED <<sup, hooks>>
    /\ UNCHANGED <<late, marks, worker, tool, proved>>

\* finish, of the armed session's current turn or of another session that
\* holds the job's id.  The verifier runs without the state lock.
Caller == {"own", "other"}
Calls(c) ==
    /\ tool[c].pc = "none"
    /\ c = "own" => host.st = "active" /\ ~Busy
    /\ c = "other" => May("stranger")
CallTurn(c) == IF c = "own" THEN host.turn ELSE 0
Finish(c) ==
    LET evidence == [Bump(job) EXCEPT !.pass = FALSE, !.ready = job.cur, !.stop = 0, !.fin = FALSE,
                                      !.h2 = 0, !.h3 = 0]
    IN /\ Calls(c) /\ job.st \in Working
       /\ \/ /\ late /\ job' = Expire(job)
             /\ UNCHANGED <<tool, proved>>
          \/ /\ ~late /\ job' = [Bump(job) EXCEPT !.st = "NOT_DONE", !.pass = FALSE, !.ready = 0]
             /\ UNCHANGED <<tool, proved>>
          \/ /\ ~late /\ AgentOnly
             /\ job' = [evidence EXCEPT !.st = "READY_PENDING_STOP"]
             /\ tool' = [tool EXCEPT ![c] = [pc |-> "reply", t |-> CallTurn(c), gen |-> job.gen + 1]]
             /\ proved' = CallTurn(c)
          \/ /\ ~late /\ ~AgentOnly
             /\ job' = [evidence EXCEPT !.st = "VERIFYING"]
             /\ tool' = [tool EXCEPT ![c] = [pc |-> "verify", t |-> CallTurn(c), gen |-> job.gen + 1]]
             /\ UNCHANGED proved
       /\ UNCHANGED <<late, marks, worker, hooks, host, sup>>

\* Mutation: the job is not compared with the one the verifier was run for.
FinishVerifierLate(c) ==
    LET passed == [job EXCEPT !.st = "READY_PENDING_STOP", !.pass = TRUE]
    IN /\ tool[c].pc = "verify"
       /\ IsActive(job) /\ ~Unresolved(job)
       /\ job' = passed
       /\ tool' = [tool EXCEPT ![c].pc = "reply"]
       /\ proved' = tool[c].t
       /\ UNCHANGED <<late, marks, worker, hooks, host, sup>>

\* mcp.finish.verifier.
FinishVerifier(c) ==
    LET same == job.st = "VERIFYING" /\ job.gen = tool[c].gen
        passed == [job EXCEPT !.st = "READY_PENDING_STOP", !.pass = TRUE]
        failed == [job EXCEPT !.st = "VERIFICATION_FAILED", !.pass = FALSE, !.ready = 0]
    IN /\ tool[c].pc = "verify"
       /\ \/ /\ late /\ IsActive(job) /\ ~Unresolved(job)
             /\ job' = Expire(job) /\ tool' = [tool EXCEPT ![c] = Over(c)]
             /\ UNCHANGED proved
          \/ /\ ~(late /\ IsActive(job) /\ ~Unresolved(job)) /\ ~same
             /\ tool' = [tool EXCEPT ![c] = Over(c)]
             /\ UNCHANGED <<job, proved>>
          \/ /\ ~late /\ same
             /\ \/ /\ job' = passed /\ tool' = [tool EXCEPT ![c].pc = "reply"]
                   /\ proved' = tool[c].t
                \/ /\ job' = failed /\ tool' = [tool EXCEPT ![c] = Over(c)]
                   /\ UNCHANGED proved
       /\ UNCHANGED <<late, marks, worker, hooks, host, sup>>

\* The answer arrives in the turn that asked, and its PostToolUse hook runs.
Answer(c) ==
    /\ tool[c].pc = "reply"
    /\ \/ c = "own" /\ host.st = "active" /\ host.turn = tool[c].t /\ ~Busy /\ StartHook("Finish", FALSE)
       \/ c = "own" /\ ~(host.st = "active" /\ host.turn = tool[c].t) /\ UNCHANGED hooks
       \/ c = "other" /\ StartHook("Stranger", FALSE)
    /\ tool' = [tool EXCEPT ![c] = Over(c)]
    /\ UNCHANGED <<job, late, marks, worker, host, sup, proved>>

\* The host ends the MCP server while the verifier runs.
ServerExits(c) ==
    /\ May("server_exits") /\ tool[c].pc = "verify"
    /\ tool' = [tool EXCEPT ![c] = Over(c)]
    /\ UNCHANGED <<job, late, marks, worker, hooks, host, sup, proved>>

\* pause, by any session that knows the job; a pause has a hook as well.
Pause(c) ==
    /\ Calls(c) /\ job.st \in Working \cup Reported
    /\ IF late THEN job' = Expire(job) /\ UNCHANGED <<hooks, proved>>
               ELSE /\ job' = Invalidate(job, "WAITING") /\ proved' = 0
                    /\ StartHook(IF c = "own" THEN "Pause" ELSE "Stranger", FALSE)
    /\ tool' = [tool EXCEPT ![c] = Over(c)]
    /\ UNCHANGED <<late, marks, worker, host, sup>>

\* cancel; asked for once, a bound.
Cancel ==
    /\ May("cancel") /\ IsActive(job) /\ ~job.creq
    /\ IF Unresolved(job)
         THEN job' = RequestCancel(job) /\ worker' = TRUE
         ELSE job' = [Invalidate(job, "CANCELLED") EXCEPT !.creq = TRUE] /\ UNCHANGED worker
    /\ UNCHANGED <<late, marks, hooks, tool, host, sup, proved>>

Tick ==
    /\ May("expires") /\ IsActive(job) /\ late' = TRUE
    /\ UNCHANGED <<job, marks, worker, hooks, tool, host, sup, proved>>

\* status refreshes what has expired.
Refresh ==
    /\ late /\ IsActive(job) /\ ~Unresolved(job)
    /\ job' = Expire(job)
    /\ UNCHANGED <<late, marks, worker, hooks, tool, host, sup, proved>>

-----------------------------------------------------------------------------
(* The hooks: what the event makes of the job, between the marker that     *)
(* announces it and the worker or the clean-up that follows.               *)

AfterPrompt(r, t) ==
    IF Unresolved(r) THEN RequestCancel(r)
    ELSE IF late THEN Expire(r)
    ELSE [Invalidate(r, "ARMED") EXCEPT !.cur = t]

\* Only the Stop of the turn that reported, after the report was seen by its
\* own hook, ends the task.
AfterStop(r, t) ==
    IF Unresolved(r) THEN (IF t # r.stop THEN RequestCancel(r) ELSE r)
    ELSE IF late THEN Expire(r)
    ELSE IF r.st # "READY_PENDING_STOP" THEN r
    ELSE IF ~r.fin \/ r.ready # t THEN [Invalidate(r, "ARMED") EXCEPT !.cur = t]
    ELSE [r EXCEPT !.st = "STOP_OBSERVED", !.stop = t]

AfterSessionEnd(r) == IF Unresolved(r) THEN RequestCancel(r) ELSE Expire(r)

\* PostToolUse of arm (BindSession), of finish and pause, and of either by a
\* session the job does not belong to.
AfterArm(r, t) ==
    IF r.st # "ARM_PENDING_BIND" THEN r
    ELSE IF late THEN Expire(r) ELSE [r EXCEPT !.st = "ARMED", !.cur = t]
AfterFinish(r, t) ==
    IF late THEN Expire(r)
    ELSE IF r.st # "READY_PENDING_STOP" THEN r
    ELSE IF r.ready # t THEN [Invalidate(r, "ARMED") EXCEPT !.cur = t]
    ELSE [r EXCEPT !.fin = TRUE]
AfterStranger(r) == IF Unresolved(r) THEN RequestCancel(r) ELSE Invalidate(r, "FAILED")

After(x, r) ==
    IF ~IsActive(r) THEN r
    ELSE CASE x.kind = "Prompt" -> AfterPrompt(r, x.t)
           [] x.kind = "Stop" -> AfterStop(r, x.t)
           [] x.kind = "SessionEnd" -> AfterSessionEnd(r)
           [] x.kind = "Arm" -> AfterArm(r, x.t)
           [] x.kind = "Finish" -> AfterFinish(r, x.t)
           [] x.kind = "Pause" -> IF late THEN Expire(r) ELSE r
           [] x.kind = "Stranger" -> AfterStranger(r)

Advance(x, y) == hooks' = (hooks \ {x}) \cup {y}

\* A lifecycle hook of a session without a job ends; one that may have to stop
\* a power action leaves a marker while the job is open.
Revoking(x) ==
    \/ x.kind \in {"Prompt", "SessionEnd"}
    \/ x.kind = "Stop" /\ (x.again \/ (Unresolved(job) /\ x.t # job.stop))
Observe(x) ==
    /\ x.pc = "observe"
    /\ IF x.kind \in {"Prompt", "Stop", "SessionEnd"} /\ ~Bound(job)
         THEN hooks' = hooks \ {x} /\ UNCHANGED marks
         ELSE LET marked == Revoking(x) /\ IsActive(job)
              IN /\ Advance(x, [x EXCEPT !.pc = "update", !.mark = marked])
                 /\ marks' = IF marked THEN marks \cup {<<x.kind, x.t>>} ELSE marks
    /\ UNCHANGED <<job, late, worker, tool, host, sup, proved>>

Update(x) ==
    /\ x.pc = "update"
    /\ job' = After(x, job)
    /\ IF x.mark THEN Advance(x, [x EXCEPT !.pc = IF Unresolved(job') THEN "launch" ELSE "cleanup"])
                 ELSE hooks' = hooks \ {x}
    /\ UNCHANGED <<late, marks, worker, tool, host, sup, proved>>

Settle(x) ==
    /\ x.pc \in {"launch", "cleanup"}
    /\ hooks' = hooks \ {x}
    /\ \/ x.pc = "cleanup" /\ marks' = marks \ {<<x.kind, x.t>>} /\ UNCHANGED <<job, worker>>
       \/ x.pc = "launch" /\ worker' = TRUE /\ UNCHANGED <<job, marks>>
       \/ /\ x.pc = "launch" /\ May("launch_fails")
          /\ job' = IF Unresolved(job) THEN RequestCancel(job)
                    ELSE IF IsActive(job) THEN [Bump(job) EXCEPT !.st = "FAILED"] ELSE job
          /\ UNCHANGED <<marks, worker>>
    /\ UNCHANGED <<late, tool, host, sup, proved>>

\* The host ends a hook that takes too long, and reports it as failed.
HookCrash(x) ==
    /\ May("hook_crash") /\ Own(x)
    /\ hooks' = hooks \ {x}
    /\ host' = [host EXCEPT !.failed = TRUE]
    /\ UNCHANGED <<job, late, marks, worker, tool, sup, proved>>

\* The cancel-only worker.
Worker ==
    /\ worker /\ worker' = FALSE
    /\ IF IsActive(job) THEN job' = [Bump(job) EXCEPT !.st = "CANCELLED", !.creq = TRUE] /\ marks' = {}
                        ELSE UNCHANGED <<job, marks>>
    /\ UNCHANGED <<late, hooks, tool, host, sup, proved>>

-----------------------------------------------------------------------------
(* The supervisor looks at the host.  One Snapshot is several App Server   *)
(* calls; the host goes on between them.                                   *)

Goto(pc) == sup' = [sup EXCEPT !.pc = pc]
SupUnchanged == UNCHANGED <<late, marks, worker, hooks, tool, host, proved>>
Nothing == [idle |-> FALSE, last |-> 0, quiet |-> FALSE, conf |-> 0, inst |-> 0, ready |-> FALSE]
Look(goal) == sup' = [sup EXCEPT !.pc = "threads", !.goal = goal, !.base = job, !.shot = Nothing]

\* Mutation: the second look only before the Stop.
H2BeforeStop(r) == r.st = "READY_PENDING_STOP" /\ r.fin

NeedsH2(r) == r.st = "STOP_OBSERVED" \/ (r.st = "READY_PENDING_STOP" /\ r.fin)

\* The main loop for verified_success.
SupRun ==
    LET r == job
    IN /\ sup.pc = "run"
       /\ \/ r.st \in Terminal \cup {"ACTION_INTENT"} /\ Goto("done")
          \/ r.st = "ACTION_SCHEDULED" /\ Goto("monitor")
          \/ /\ IsActive(r) /\ ~Unresolved(r)
             /\ May("gate_refuses") \/ late
             /\ Goto("fail")
          \/ /\ IsActive(r) /\ ~Unresolved(r) /\ ~late
             /\ \/ Bound(r) /\ r.h1 = 0 /\ Look("h1")
                \/ r.h1 # 0 /\ r.h2 = 0 /\ NeedsH2(r) /\ Look("h2")
                \/ r.h1 # 0 /\ r.h2 # 0 /\ r.st = "STOP_OBSERVED" /\ Look("h3")
       /\ UNCHANGED job /\ SupUnchanged

Refused == IF sup.goal = "watch" THEN "cancel" ELSE "fail"

\* Loaded threads: the target's status and last turn, and what else runs.
LookThreads ==
    /\ sup.pc = "threads"
    /\ sup' = IF host.st = "ended" THEN [sup EXCEPT !.pc = Refused]
              ELSE [sup EXCEPT !.pc = "children", !.shot.idle = host.st \in {"idle", "interrupted"},
                               !.shot.last = IF host.st = "idle" THEN host.turn ELSE 0,
                               !.shot.quiet = ~host.others]
    /\ UNCHANGED job /\ SupUnchanged

\* Background terminals and descendants.
LookChildren ==
    /\ sup.pc = "children"
    /\ sup' = [sup EXCEPT !.pc = "inventory", !.shot.quiet = @ /\ ~host.others]
    /\ UNCHANGED job /\ SupUnchanged

\* Mutation: only what runs beside the target is looked at.
ReadyIfQuiet(stop) == sup.shot.quiet /\ ~Busy /\ ~host.failed

\* ReadyForFinalGate: at rest, in the expected turn, whose completion was also
\* announced, with no hook running or failed and nothing else at work.
ReadyForFinalGate(stop) ==
    /\ sup.shot.idle /\ sup.shot.quiet
    /\ sup.shot.last = stop /\ stop \in host.told
    /\ ~Busy /\ ~host.failed

\* hooks/list, and the notifications up to its answer.  classifySnapshot fails
\* a host that was never heard of, dropped notifications, or an unacceptable
\* configuration; only H1 may wait for the first.
LookInventory ==
    LET unproven == ~host.live
        bad == host.loss \/ host.conf \notin Compatible
        known == CASE sup.goal = "h1" -> TRUE
                   [] sup.goal = "h2" -> host.conf = sup.base.h1 /\ host.inst = sup.base.inst
                   [] sup.goal = "h3" -> host.conf = sup.base.h1 /\ host.conf = sup.base.h2
                                         /\ host.inst = sup.base.inst
                   [] sup.goal \in {"final", "watch"} -> host.conf = sup.base.h3 /\ host.inst = sup.base.inst
        ready == ReadyForFinalGate(sup.base.stop)
        seen == [sup EXCEPT !.shot.conf = host.conf, !.shot.inst = host.inst, !.shot.ready = ready]
    IN /\ sup.pc = "inventory"
       /\ \/ unproven /\ sup.goal = "h1" /\ Goto("run")
          \/ (unproven \/ bad \/ ~known) /\ Goto(Refused)
          \/ /\ ~unproven /\ ~bad /\ known
             /\ \/ sup.goal \in {"h1", "h2"} /\ sup' = [seen EXCEPT !.pc = "save"]
                \/ sup.goal = "h3" /\ sup' = [seen EXCEPT !.pc = IF ready THEN "save" ELSE "run"]
                \/ sup.goal = "final" /\ sup' = [seen EXCEPT !.pc = IF ready THEN "intent" ELSE "fail"]
                \/ sup.goal = "watch" /\ sup' = [seen EXCEPT !.pc = IF ready THEN "monitor" ELSE "cancel"]
       /\ UNCHANGED job /\ SupUnchanged

\* Mutation: what was seen is saved whatever the job has become.
SupSaveStale ==
    LET r == job
    IN /\ sup.pc = "save"
       /\ IsActive(r) /\ ~Unresolved(r)
       /\ job' = CASE sup.goal = "h1" -> [r EXCEPT !.h1 = sup.shot.conf, !.inst = sup.shot.inst]
                   [] sup.goal = "h2" -> [r EXCEPT !.h2 = sup.shot.conf]
                   [] sup.goal = "h3" -> [r EXCEPT !.h3 = sup.shot.conf]
       /\ Goto(IF sup.goal = "h3" THEN "lock" ELSE "run")
       /\ SupUnchanged

\* host.snapshot.h1, .h2 and .h3: saved if the job did not change meanwhile.
SupSave ==
    LET r == job
        b == sup.base
        same == /\ r.gen = b.gen
                /\ CASE sup.goal = "h1" -> r.h1 = 0
                     [] sup.goal = "h2" -> r.h2 = 0 /\ r.h1 = b.h1
                     [] sup.goal = "h3" -> r.st = "STOP_OBSERVED" /\ r.h1 = b.h1 /\ r.h2 = b.h2
    IN /\ sup.pc = "save"
       /\ IF same
            THEN /\ job' = CASE sup.goal = "h1" -> [r EXCEPT !.h1 = sup.shot.conf, !.inst = sup.shot.inst,
                                                             !.st = IF @ = "ARMED" THEN "HOST_MONITORING" ELSE @]
                             [] sup.goal = "h2" -> [r EXCEPT !.h2 = sup.shot.conf]
                             [] sup.goal = "h3" -> [r EXCEPT !.h3 = sup.shot.conf]
                 /\ Goto(IF sup.goal = "h3" THEN "lock" ELSE "run")
            ELSE Goto("run") /\ UNCHANGED job
       /\ SupUnchanged

-----------------------------------------------------------------------------
(* schedule() for this policy.  A job that changed ends the supervisor.    *)

\* fail().
SupFail ==
    /\ sup.pc = "fail"
    /\ job' = IF job.st \in Terminal \cup {"ACTION_SCHEDULED"} THEN job ELSE [job EXCEPT !.st = "FAILED"]
    /\ Goto("run")
    /\ SupUnchanged

\* The gates before quiescence.
SupGate ==
    LET r == job
        agree == r.h3 # 0 /\ r.h1 = r.h2 /\ r.h2 = r.h3
        earned == r.pass \/ AgentOnly
    IN /\ sup.pc = "lock"
       /\ \/ r.st # "STOP_OBSERVED" /\ Goto("done")
          \/ r.st = "STOP_OBSERVED" /\ marks = {} /\ ~late /\ ~agree /\ Goto("done")
          \/ /\ r.st = "STOP_OBSERVED"
             /\ marks # {} \/ late \/ (agree /\ ~earned) \/ May("gate_refuses")
             /\ Goto("fail")
          \/ /\ r.st = "STOP_OBSERVED" /\ marks = {} /\ ~late /\ agree /\ earned
             /\ sup' = [sup EXCEPT !.pc = "quiet", !.base = r]
       /\ UNCHANGED job /\ SupUnchanged

\* ... and after it, with a last look at the host.
SupRecheck ==
    LET same == job.gen = sup.base.gen /\ job.st = "STOP_OBSERVED"
    IN /\ sup.pc = "quiet"
       /\ \/ ~same /\ Goto("done")
          \/ same /\ (marks # {} \/ late) /\ Goto("fail")
          \/ same /\ marks = {} /\ ~late /\ Look("final")
       /\ UNCHANGED job /\ SupUnchanged

\* Mutation: an intent is written for whatever is stopped by now.
SupIntentUnchecked ==
    /\ sup.pc = "intent"
    /\ IF ~Unresolved(job) /\ IsActive(job)
         THEN job' = [job EXCEPT !.st = "ACTION_INTENT"] /\ Goto("recheck")
         ELSE UNCHANGED job /\ Goto("done")
    /\ SupUnchanged

\* power.intent, unless the policy, the authorization or the backend refuses.
SupIntent ==
    /\ sup.pc = "intent"
    /\ \/ /\ job.gen = sup.base.gen /\ job.st = "STOP_OBSERVED"
          /\ job' = [job EXCEPT !.st = "ACTION_INTENT"] /\ Goto("recheck")
       \/ ~(job.gen = sup.base.gen /\ job.st = "STOP_OBSERVED") /\ UNCHANGED job /\ Goto("done")
       \/ May("gate_refuses") /\ UNCHANGED job /\ Goto("fail")
    /\ SupUnchanged

\* The last look before the call; an intent that no longer stands is cancelled.
SupLastLook ==
    LET stands == marks = {} /\ ~job.creq /\ job.gen = sup.base.gen
    IN /\ sup.pc = "recheck"
       /\ \/ job.st # "ACTION_INTENT" /\ UNCHANGED job /\ Goto("done")
          \/ job.st = "ACTION_INTENT" /\ stands /\ UNCHANGED job /\ Goto("call")
          \/ /\ job.st = "ACTION_INTENT" /\ (~stands \/ May("gate_refuses"))
             /\ job' = [job EXCEPT !.st = "CANCELLED", !.creq = TRUE] /\ Goto("run")
       /\ SupUnchanged

\* The call is accepted, and committed if nothing changed while it ran;
\* otherwise it is rolled back.
SupCall ==
    LET stands == job.st = "ACTION_INTENT" /\ marks = {} /\ ~job.creq /\ job.gen = sup.base.gen
    IN /\ sup.pc = "call"
       /\ IF stands THEN job' = [job EXCEPT !.st = "ACTION_SCHEDULED"] /\ Goto("run")
                    ELSE UNCHANGED job /\ Goto("cancel")
       /\ SupUnchanged

\* Mutation: only what the hooks leave in the state directory is watched.
SupMonitorMarkers ==
    /\ sup.pc = "monitor"
    /\ \/ job.st \in Terminal /\ Goto("done")
       \/ job.st = "ACTION_SCHEDULED" /\ (job.creq \/ marks # {}) /\ Goto("cancel")
    /\ UNCHANGED job /\ SupUnchanged

\* monitorScheduled: the host is looked at again and again.
SupMonitor ==
    /\ sup.pc = "monitor"
    /\ \/ job.st \in Terminal /\ Goto("done")
       \/ job.st = "ACTION_SCHEDULED" /\ (job.creq \/ marks # {} \/ May("gate_refuses")) /\ Goto("cancel")
       \/ job.st = "ACTION_SCHEDULED" /\ ~job.creq /\ marks = {} /\ Look("watch")
    /\ UNCHANGED job /\ SupUnchanged

\* The confirmed cancellation.
SupCancel ==
    /\ sup.pc = "cancel"
    /\ job' = IF Unresolved(job) THEN [job EXCEPT !.st = "CANCELLED", !.creq = TRUE] ELSE job
    /\ Goto("done")
    /\ SupUnchanged

SupStep ==
    \/ SupRun \/ LookThreads \/ LookChildren \/ LookInventory \/ SupSave \/ SupFail
    \/ SupGate \/ SupRecheck \/ SupIntent \/ SupLastLook \/ SupCall \/ SupMonitor \/ SupCancel

-----------------------------------------------------------------------------
(* The system.                                                             *)

Init ==
    /\ job = [NewJob EXCEPT !.st = "NONE"]
    /\ late = FALSE /\ marks = {} /\ worker = FALSE /\ hooks = {}
    /\ tool = [c \in Caller |-> Quiet]
    /\ \E may \in Disturbances :
         host = [ turn |-> 1, st |-> "active", again |-> FALSE, others |-> FALSE, inst |-> 1, told |-> {},
                  conf |-> CHOOSE c \in Compatible : TRUE, loss |-> FALSE, failed |-> FALSE, live |-> FALSE,
                  may |-> may ]
    /\ sup = [pc |-> "off", goal |-> "h1", base |-> job, shot |-> Nothing]
    /\ proved = 0

HostStep == UserPromptSubmit \/ StopEvent \/ TurnCompleted \/ Interrupt \/ SessionEnd \/ Elsewhere
ServerStep ==
    \/ Arm \/ Cancel \/ Refresh
    \/ \E c \in Caller : Finish(c) \/ FinishVerifier(c) \/ Answer(c) \/ ServerExits(c) \/ Pause(c)
HookStep == \E x \in hooks : Observe(x) \/ Update(x) \/ Settle(x) \/ HookCrash(x)

Next == HostStep \/ ServerStep \/ HookStep \/ Worker \/ Tick \/ SupStep

Spec == Init /\ [][Next]_vars

\* Only the supervisor's loop is known to go on: hooks may be ended by the
\* host, and nobody has to prompt, to finish or to stop.
FairSpec == Spec /\ WF_vars(SupStep)

-----------------------------------------------------------------------------
(* Properties.                                                             *)

\* Every part of the job keeps to Job.Validate (internal/pluginstate/job.go):
\* evidence and the host's identity come and go together.
HookRecord == [ kind : {"Prompt", "Stop", "SessionEnd", "Arm", "Finish", "Pause", "Stranger"}, t : Turn,
                again : BOOLEAN, pc : {"observe", "update", "launch", "cleanup"}, mark : BOOLEAN ]
ToolRecord == [ pc : {"none", "verify", "reply", "over"}, t : Turn, gen : Nat ]
VerifiedTypeOK ==
    /\ job \in JobRecord
    /\ late \in BOOLEAN /\ worker \in BOOLEAN /\ proved \in Turn
    /\ hooks \subseteq HookRecord /\ tool \in [Caller -> ToolRecord]
    /\ marks \subseteq {"Prompt", "Stop", "SessionEnd"} \X Turn
    /\ job.h1 # 0 <=> job.inst # 0
    /\ job.h2 # 0 => job.h1 = job.h2
    /\ job.h3 # 0 => job.st \notin Working \cup {"WAITING"}
    /\ job.st \in {"STOP_OBSERVED"} \cup Acting => job.stop = job.ready /\ job.stop # 0 /\ job.fin

\* A job is taken for finished, or acted upon, only for the turn in which its
\* own session reported done and the verifier passed, whatever lost hook,
\* foreign finish, late verifier or interrupted turn came between (finish
\* copies the turn the job knows, not the one that called).
EvidenceStands == job.st \in {"STOP_OBSERVED"} \cup Acting => proved = job.stop

\* An action nobody has revoked yet was claimed for a host at rest in the
\* turn that stopped: what has moved since is still in the hands of a hook of
\* the host, or made one fail in front of the supervisor (schedule's gates
\* over several App Server calls).
RestingWhenClaimed ==
    job.st \in Acting /\ ~job.creq /\ marks = {} /\ ~worker =>
        (host.st = "idle" /\ host.turn = job.stop) \/ Busy \/ host.failed

\* The two together are the rule the barrier jobs follow, with the one task as
\* the only target: no claim without a counted stop, none after a resumption
\* that was not a revocation.
Phase ==
    CASE job.st \in Terminal -> "closed"
      [] job.st \in Acting -> "claimed"
      [] job.st = "STOP_OBSERVED" -> "ready"
      [] OTHER -> "waiting"
Rule == INSTANCE BarrierRule
    WITH Target <- {1}, phase <- Phase, revoked <- job.creq,
         counted <- IF job.st \in {"STOP_OBSERVED"} \cup Acting THEN {1} ELSE {}
VerifiedImplementsRule == Rule!Spec

\* The supervisor's own look at the host ends a countdown even when the hook
\* that should have was lost: a newer turn, a failed hook, lost notifications
\* or another host process (monitorScheduled).
HostStopsCountdown ==
    job.st = "ACTION_SCHEDULED"
        /\ (host.turn # job.stop \/ host.failed \/ host.loss \/ host.inst # job.inst)
    ~> job.st # "ACTION_SCHEDULED"

\* A stopped job whose host is at rest does not wait for ever: it is acted
\* upon or closed, whichever of H1, H2 and H3 the Stop came before.
Decidable ==
    /\ job.st = "STOP_OBSERVED" /\ sup.pc \notin {"off", "done"} /\ marks = {}
    /\ host.st = "idle" /\ host.turn = job.stop /\ job.stop \in host.told
    /\ ~host.others /\ ~host.failed /\ ~Busy
RestedJobDecides == Decidable ~> ~Decidable
=============================================================================
