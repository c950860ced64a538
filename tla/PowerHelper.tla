---------------------------- MODULE PowerHelper ----------------------------
(***************************************************************************)
(* The privileged Linux power helper (internal/powerdaemon): a daemon that *)
(* serves schedule, cancel and reconcile requests one at a time, and the   *)
(* timer callbacks systemd starts, which share active.json with it under   *)
(* active.lock.  systemd is the transient timer and service unit of each   *)
(* job; the files survive a crash of either process and a reboot, the      *)
(* units only the crashes.                                                 *)
(***************************************************************************)
EXTENDS Naturals

CONSTANTS
    Job,          \* jobs whose schedule request may reach the helper, each once
    NoJob,        \* there is no active.json
    NoOne,        \* nobody holds active.lock
    Daemon,       \* the daemon as the holder of the lock
    HelperFaults  \* the fault classes this instance may meet

HelperFaultClass == {"systemd_fails", "save_fails", "helper_crash", "reboot", "clock_moves"}

ASSUME HelperAssumption ==
    /\ NoJob \notin Job
    /\ NoOne \notin Job /\ Daemon \notin Job /\ NoOne # Daemon
    /\ HelperFaults \subseteq HelperFaultClass

VARIABLES
    owner, phase,  \* active.json: its job and phase
    lock,          \* holder of active.lock
    dpc, djob,     \* the request in service: step and job
    asked,         \* jobs whose schedule request was taken up
    sealed,        \* jobs answered with a receipt
    unit,          \* systemd's view of a job's units
    fpc,           \* timer callbacks: step
    clock,         \* the wall clock against the job's recorded deadline
    powered,       \* jobs for which poweroff was requested
    confirmed      \* jobs whose cancellation was confirmed since the last schedule

fileVars == <<owner, phase>>
daemonVars == <<dpc, djob, asked, sealed, confirmed>>
unitVars == <<unit, fpc, powered>>
vars == <<fileVars, lock, daemonVars, unitVars, clock>>

Phase == {"intent", "schedule_unverified", "scheduled", "firing", "fire_unverified", "expired"}
DaemonStep == { "idle", "intent", "systemdrun", "unverified", "seal", "rollback",
                "stop", "verify", "remove", "inspect", "release" }
FireStep == {"off", "wait", "check", "power"}
Pending == {"timer", "service"}

Fails(f) == f \in HelperFaults

\* AtomicWriteJSON replaces the file whole.  It may also fail after the
\* replacement, so an error leaves either file behind.
SaveActive(j, p) == owner' = j /\ phase' = p
SaveFails(j, p) == Fails("save_fails") /\ (SaveActive(j, p) \/ UNCHANGED fileVars)
RemoveActive == owner' = NoJob /\ phase' = "intent"

\* is-active of both units.
UnitsInactive(j) == unit[j] \notin Pending

\* systemctl stop of both units: the callback, if it runs, is killed.
StopUnits(j) ==
    /\ unit' = [unit EXCEPT ![j] = IF @ \in Pending THEN "gone" ELSE @]
    /\ fpc' = [fpc EXCEPT ![j] = "off"]
    /\ UNCHANGED powered

-----------------------------------------------------------------------------
(* Requests.  process() takes the lock for the whole request; an answer    *)
(* releases it.                                                            *)

Begin(j, step) ==
    /\ dpc = "idle" /\ lock = NoOne
    /\ lock' = Daemon /\ djob' = j /\ dpc' = step

To(step) == dpc' = step /\ UNCHANGED <<lock, djob>>
Answer == dpc' = "idle" /\ lock' = NoOne /\ UNCHANGED djob

\* schedule: the preflight refuses a second machine power job.
Schedule(j) ==
    /\ j \notin asked
    /\ asked' = asked \cup {j}
    /\ \/ /\ owner = NoJob
          /\ Begin(j, "intent")
          /\ confirmed' = confirmed \ {j}
       \/ /\ owner # NoJob /\ dpc = "idle" /\ lock = NoOne
          /\ UNCHANGED <<lock, dpc, djob, confirmed>>
    /\ UNCHANGED <<fileVars, sealed, unitVars, clock>>

\* Mutation: systemd is asked before the intent is on disk.
IntentForgotten ==
    /\ dpc = "intent"
    /\ To("systemdrun")
    /\ UNCHANGED <<fileVars, asked, sealed, confirmed, unitVars, clock>>

SaveIntent ==
    /\ dpc = "intent"
    /\ \/ SaveActive(djob, "intent") /\ To("systemdrun")
       \/ SaveFails(djob, "intent") /\ Answer
    /\ UNCHANGED <<asked, sealed, confirmed, unitVars, clock>>

\* systemd-run: a failure leaves the outcome unknown.
SystemdRun ==
    /\ dpc = "systemdrun"
    /\ \/ unit' = [unit EXCEPT ![djob] = "timer"] /\ To("seal")
       \/ /\ Fails("systemd_fails") /\ To("unverified")
          /\ unit' \in {unit, [unit EXCEPT ![djob] = "timer"]}
    /\ UNCHANGED <<fileVars, asked, sealed, confirmed, fpc, powered, clock>>

SaveUnverified ==
    /\ dpc = "unverified"
    /\ SaveActive(djob, "schedule_unverified") \/ SaveFails(djob, "schedule_unverified")
    /\ Answer
    /\ UNCHANGED <<asked, sealed, confirmed, unitVars, clock>>

SaveScheduled ==
    /\ dpc = "seal"
    /\ \/ SaveActive(djob, "scheduled") /\ sealed' = sealed \cup {djob} /\ Answer
       \/ SaveFails(djob, "scheduled") /\ To("rollback") /\ UNCHANGED sealed
    /\ UNCHANGED <<asked, confirmed, unitVars, clock>>

\* The rollback is attempted, its outcome ignored; active.json stays.
Rollback ==
    /\ dpc = "rollback"
    /\ \/ StopUnits(djob)
       \/ Fails("systemd_fails") /\ UNCHANGED unitVars
    /\ Answer
    /\ UNCHANGED <<fileVars, asked, sealed, confirmed, clock>>

\* cancel: without active state there is nothing to cancel; the state of
\* another job is not touched.
Cancel(j) ==
    /\ \/ owner = j /\ Begin(j, "stop") /\ UNCHANGED confirmed
       \/ /\ owner = NoJob /\ dpc = "idle" /\ lock = NoOne
          /\ confirmed' = confirmed \cup {j}
          /\ UNCHANGED <<lock, dpc, djob>>
    /\ UNCHANGED <<fileVars, asked, sealed, unitVars, clock>>

StopForCancel ==
    /\ dpc = "stop"
    /\ \/ StopUnits(djob) /\ To("remove")
       \/ /\ (Fails("systemd_fails") \/ UnitsInactive(djob))
          /\ (StopUnits(djob) \/ UNCHANGED unitVars)
          /\ To("verify")
    /\ UNCHANGED <<fileVars, asked, sealed, confirmed, clock>>

\* Mutation: a failed stop is not verified.
TrustStop ==
    /\ dpc = "verify"
    /\ To("remove")
    /\ UNCHANGED <<fileVars, asked, sealed, confirmed, unitVars, clock>>

\* A failed stop is good enough if systemd shows both units inactive.
VerifyStopped ==
    /\ dpc = "verify"
    /\ \/ UnitsInactive(djob) /\ To("remove")
       \/ (~UnitsInactive(djob) \/ Fails("systemd_fails")) /\ Answer
    /\ UNCHANGED <<fileVars, asked, sealed, confirmed, unitVars, clock>>

RemoveAndConfirm ==
    /\ dpc = "remove"
    /\ \/ RemoveActive /\ confirmed' = confirmed \cup {djob}
       \/ Fails("save_fails") /\ UNCHANGED <<fileVars, confirmed>>
    /\ Answer
    /\ UNCHANGED <<asked, sealed, unitVars, clock>>

\* reconcile and status: a job whose units are gone is released.
Reconcile(j) ==
    /\ owner = j /\ Begin(j, "inspect")
    /\ UNCHANGED <<fileVars, asked, sealed, confirmed, unitVars, clock>>

Inspect ==
    /\ dpc = "inspect"
    /\ \/ UnitsInactive(djob) /\ To("release")
       \/ (~UnitsInactive(djob) \/ Fails("systemd_fails")) /\ Answer
    /\ UNCHANGED <<fileVars, asked, sealed, confirmed, unitVars, clock>>

ReleaseState ==
    /\ dpc = "release"
    /\ \/ RemoveActive
       \/ Fails("save_fails") /\ UNCHANGED fileVars
    /\ Answer
    /\ UNCHANGED <<asked, sealed, confirmed, unitVars, clock>>

DaemonCrash ==
    /\ Fails("helper_crash")
    /\ dpc # "idle"
    /\ Answer
    /\ UNCHANGED <<fileVars, asked, sealed, confirmed, unitVars, clock>>

-----------------------------------------------------------------------------
(* The timer callback, `donethen-powerd --fire-job`.                       *)

\* The service ends; --collect unloads both units.
EndService(j) ==
    /\ unit' = [unit EXCEPT ![j] = "gone"]
    /\ fpc' = [fpc EXCEPT ![j] = "off"]
    /\ lock' = IF lock = j THEN NoOne ELSE lock

\* systemd counts monotonic time from a moment after the recorded
\* scheduling time: the wall clock is short of the deadline only if it was
\* set back.
TimerElapse(j) ==
    /\ unit[j] = "timer"
    /\ clock[j] # "early" \/ Fails("clock_moves")
    /\ unit' = [unit EXCEPT ![j] = "service"]
    /\ fpc' = [fpc EXCEPT ![j] = "wait"]
    /\ UNCHANGED <<fileVars, lock, daemonVars, powered, clock>>

\* Mutation: the callback does not wait for active.lock.
FireUnlocked(j) ==
    /\ fpc[j] = "wait"
    /\ fpc' = [fpc EXCEPT ![j] = "check"]
    /\ UNCHANGED <<fileVars, lock, daemonVars, unit, powered, clock>>

\* The callback waits ten seconds for active.lock.
FireLock(j) ==
    /\ fpc[j] = "wait"
    /\ \/ /\ lock = NoOne /\ lock' = j
          /\ fpc' = [fpc EXCEPT ![j] = "check"]
          /\ UNCHANGED unit
       \/ lock # NoOne /\ EndService(j)
    /\ UNCHANGED <<fileVars, daemonVars, powered, clock>>

\* What the callback records when it keeps the machine on; errors of the
\* save do not matter to it.
KeepOn(j, p) == (SaveActive(j, p) \/ SaveFails(j, p)) /\ EndService(j)

\* Only a job whose receipt was persisted, at its deadline and not long
\* after, goes on; "firing" is on disk before poweroff is requested.
\* Transient units do not outlive a boot, so the boot identity matches.
FireCheck(j) ==
    /\ fpc[j] = "check"
    /\ \/ /\ owner # j \/ phase # "scheduled"
          /\ EndService(j) /\ UNCHANGED fileVars
       \/ /\ owner = j /\ phase = "scheduled"
          /\ \/ clock[j] = "early" /\ KeepOn(j, "fire_unverified")
             \/ clock[j] = "late" /\ KeepOn(j, "expired")
             \/ /\ clock[j] = "due"
                /\ \/ /\ SaveActive(j, "firing")
                      /\ fpc' = [fpc EXCEPT ![j] = "power"]
                      /\ UNCHANGED <<lock, unit>>
                   \/ SaveFails(j, "firing") /\ EndService(j)
    /\ UNCHANGED <<daemonVars, powered, clock>>

\* systemctl poweroff returns once systemd has queued the shutdown; a
\* failed call may have queued it too.
FirePower(j) ==
    /\ fpc[j] = "power"
    /\ \/ powered' = powered \cup {j} /\ EndService(j) /\ UNCHANGED fileVars
       \/ /\ Fails("systemd_fails")
          /\ powered' \in {powered, powered \cup {j}}
          /\ KeepOn(j, "fire_unverified")
    /\ UNCHANGED <<daemonVars, clock>>

\* The callback process dies, with or without its decision on disk.
FireCrash(j) ==
    /\ Fails("helper_crash")
    /\ fpc[j] # "off"
    /\ EndService(j)
    /\ UNCHANGED <<fileVars, daemonVars, powered, clock>>

-----------------------------------------------------------------------------
(* The machine.                                                            *)

\* The wall clock passes the deadline and, over a long sleep, the permitted
\* lateness; it moves otherwise only when it is set.
ClockTurns(j) ==
    /\ unit[j] \in Pending
    /\ \/ clock[j] = "early" /\ clock' = [clock EXCEPT ![j] = "due"]
       \/ clock[j] = "due" /\ clock' = [clock EXCEPT ![j] = "late"]
       \/ /\ Fails("clock_moves")
          /\ clock' \in {[clock EXCEPT ![j] = c] : c \in {"early", "due", "late"} \ {clock[j]}}
    /\ UNCHANGED <<fileVars, lock, daemonVars, unitVars>>

\* Processes, locks and transient units are gone, active.json stays.
Reboot ==
    /\ Fails("reboot") \/ powered # {}
    /\ unit' = [j \in Job |-> IF unit[j] \in Pending THEN "gone" ELSE unit[j]]
    /\ fpc' = [j \in Job |-> "off"]
    /\ dpc' = "idle" /\ lock' = NoOne
    /\ UNCHANGED <<fileVars, djob, asked, sealed, confirmed, powered, clock>>

-----------------------------------------------------------------------------
Init ==
    /\ owner = NoJob /\ phase = "intent"
    /\ lock = NoOne /\ dpc = "idle" /\ djob = NoJob
    /\ asked = {} /\ sealed = {} /\ confirmed = {} /\ powered = {}
    /\ unit = [j \in Job |-> "none"]
    /\ fpc = [j \in Job |-> "off"]
    /\ clock = [j \in Job |-> "early"]

Next ==
    \/ \E j \in Job : Schedule(j) \/ Cancel(j) \/ Reconcile(j)
    \/ SaveIntent \/ SystemdRun \/ SaveUnverified \/ SaveScheduled \/ Rollback
    \/ StopForCancel \/ VerifyStopped \/ RemoveAndConfirm
    \/ Inspect \/ ReleaseState \/ DaemonCrash
    \/ \E j \in Job : TimerElapse(j) \/ FireLock(j) \/ FireCheck(j) \/ FirePower(j) \/ FireCrash(j)
    \/ \E j \in Job : ClockTurns(j)
    \/ Reboot

Spec == Init /\ [][Next]_vars

-----------------------------------------------------------------------------
(* Properties.                                                             *)

\* The state of the helper is well formed: active.json only ever holds a
\* phase validActivePhase accepts, and whoever serves a request or decides
\* a callback holds active.lock.
HelperTypeOK ==
    /\ owner \in Job \cup {NoJob} /\ phase \in Phase
    /\ lock \in Job \cup {NoOne, Daemon}
    /\ dpc \in DaemonStep /\ djob \in Job \cup {NoJob}
    /\ asked \subseteq Job /\ sealed \subseteq Job
    /\ confirmed \subseteq Job /\ powered \subseteq Job
    /\ unit \in [Job -> Pending \cup {"none", "gone"}]
    /\ fpc \in [Job -> FireStep]
    /\ clock \in [Job -> {"early", "due", "late"}]
    /\ lock = Daemon <=> dpc # "idle"
    /\ \A j \in Job : lock = j <=> fpc[j] \in {"check", "power"}

\* systemd never holds a countdown the helper has forgotten: whatever
\* request failed, crashed or was rebooted half way, a pending unit has its
\* job in active.json, so cancel can reach it and preflight refuses others.
PendingHasState == \A j \in Job : unit[j] \in Pending => owner = j

\* While saving active.json does not fail, poweroff is only requested for a
\* job whose receipt was persisted: a schedule request cut off anywhere
\* before that leaves a timer whose callback keeps the machine on.
FiresOnlySealed == powered \subseteq sealed

\* What a caller sees of a job's countdown.
Countdown == [j \in Job |-> IF j \in powered THEN "fired"
                            ELSE IF unit[j] \in Pending THEN "armed" ELSE "off"]

Backend == INSTANCE PowerBackend WITH timer <- Countdown

\* The helper keeps the promise of a power backend: at most one countdown
\* on the machine, and no poweroff behind a confirmed cancellation.
ImplementsBackend == Backend!Spec
=============================================================================
