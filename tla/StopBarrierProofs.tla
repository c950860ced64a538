-------------------------- MODULE StopBarrierProofs --------------------------
(***************************************************************************)
(* What holds of StopBarrier for any jobs, sessions and targets, any number *)
(* of turns and hooks under way, and any faults.                           *)
(***************************************************************************)
EXTENDS StopBarrier, TLAPS

-----------------------------------------------------------------------------
(* The invariant.                                                          *)

\* What Validate accepts, and what makes it last: an unbound barrier has seen
\* nothing, a dry run never acts, a cancellation request needs an action, and
\* an action nobody asked to revoke still has every target counted.
GoodBarrier(b, r) ==
    /\ ValidBarrier(b, r)
    /\ r.st \in {"NONE", "ARM_PENDING_BIND"} => ~r.ready /\ \A s \in Targets[b] : r.target[s] = Blank
    /\ r.st \notin {"ACTION"} \cup Terminal => ~r.creq
    /\ r.st = "ACTION" /\ ~r.creq => BarrierSatisfied(b, r)
    /\ b \in DryRun => r.st \notin {"STOP_OBSERVED", "ACTION"}
GoodJob(j, r) ==
    /\ r \in JobRecord
    /\ j \in Barrier => GoodBarrier(j, r)
    /\ j \in Single => ValidSingle(j, r)
JobInv == \A j \in Job : GoodJob(j, job[j])

\* An index belongs to a job that watches its session.
IndexInv ==
    \A s \in Session :
      /\ index[s] \in Barrier => s \in Targets[index[s]]
      /\ index[s] \in Single => s = Home[index[s]]

\* An event is about a turn that has begun; only a Stop can be a continuation.
GoodEvent(e) == e.t # 0 /\ e.t <= turn[e.s] /\ (e.kind = "Prompt" => ~e.again)
GoodHook(x) ==
    /\ GoodEvent(x.e)
    /\ x.pc = "bind" <=> x.e.kind = "Arm"
    /\ x.pc = "bind" => x.job \in Single /\ x.e.s = Home[x.job]
    /\ x.pc \in {"bind", "capture", "mark"} => x.mark = NoJob /\ ~x.err
    /\ x.pc = "capture" => x.job = NoJob
    /\ x.pc \in {"launch", "cleanup"} => x.mark # NoJob
HookInv ==
    /\ \A s \in Session : turn[s] # 0
    /\ \A e \in sent : GoodEvent(e)
    /\ \A x \in hooks : GoodHook(x)
    /\ \A j \in Job : \A e \in job[j].keys : e.t <= turn[e.s]

\* A bound, open job holds the index of each session it watches, unless an arm
\* hook ran twice, or its own ended between the job file and the index.
OwnInv ==
    /\ \A b \in Barrier : IsActive(job[b]) /\ job[b].ready => Targets[b] \subseteq Owned(b) \cup rearmed
    /\ \A j \in Single : IsActive(job[j]) /\ Bound(j) => Home[j] \in Owned(j) \cup rearmed \/ j \in unlinked

\* An after_stop job whose arm hook has not written the index has none, so no
\* lifecycle hook captured it and no event moves it past ARMED.
AtMostArmed == {"ARMED"} \cup Terminal
Deaf(j) == ~Bound(j) \/ (j \in unlinked /\ Home[j] \notin rearmed)
DeafInv ==
    /\ \A j \in Single :
         /\ job[j].st = "NONE" => ~Bound(j)
         /\ Deaf(j) => index[Home[j]] # j /\ \A x \in hooks : x.pc # "bind" => x.job # j
    /\ \A j \in unlinked : Home[j] \in rearmed \/ job[j].st \in AtMostArmed

\* The arm hook of a session is run again only for a session on record.
RearmInv ==
    /\ rearmed \cap clean = {}
    /\ \A x \in hooks : x.pc = "bind" /\ x.e \in job[x.job].keys => x.e.s \in rearmed

\* The events of a clean session are handled one at a time.  While it runs, the
\* only one under way is its prompt or its arm hook, and once a hook has
\* chosen its job, the others that want the session have not counted it.
Pending == {"capture", "mark", "update"}
Alone(s) == \A x, y \in hooks : x.e.s = s /\ y.e.s = s => x = y
Missed(x, b) == x.pc \in {"mark", "update"} /\ x.job # b /\ x.e.s \in Targets[b]
CleanInv ==
    \A s \in clean :
      /\ Alone(s)
      /\ \A x \in hooks : x.e.s = s =>
           /\ mode[s] = "run" => x.e.kind \in {"Arm", "Prompt"}
           /\ x.e.kind = "Prompt" /\ x.pc \in Pending => \A j \in Job : x.e \notin job[j].keys
           /\ \A b \in Barrier : Missed(x, b) /\ IsActive(job[b]) => ~Stopped(job[b].target[s])

\* What a barrier counts as stopped in a clean session has stopped, unless its
\* prompt hook is on the way to say otherwise.
Reporting(s) == \E x \in hooks : x.e.s = s /\ x.e.kind = "Prompt" /\ x.pc \in Pending
IdleInv ==
    \A b \in Barrier : \A s \in Targets[b] \cap clean :
      IsActive(job[b]) /\ ~job[b].creq /\ Stopped(job[b].target[s]) => mode[s] # "run" \/ Reporting(s)

IInv ==
    /\ BarrierTypeOK /\ JobInv /\ IndexInv /\ HookInv
    /\ OwnInv /\ DeafInv /\ RearmInv /\ CleanInv /\ IdleInv

-----------------------------------------------------------------------------
(* Job records: what the store transactions do to one.                     *)

\* What BarrierRule lets a barrier do, of its record before and after.
RuleMove(b, r, q) ==
    LET c == Counted(b, r)
        d == Counted(b, q)
    IN \/ Phase(q) = Phase(r) /\ d = c /\ q.creq = r.creq
       \/ /\ Phase(r) = "waiting" /\ q.creq = r.creq
          /\ \E s \in Targets[b] : d = c \cup {s}
          /\ Phase(q) \in IF d = Targets[b] THEN {"ready", "closed"} ELSE {"waiting"}
       \/ /\ Phase(r) \in {"waiting", "ready"} /\ Phase(q) = "waiting" /\ q.creq = r.creq
          /\ \E s \in Targets[b] : d = c \ {s}
       \/ /\ Phase(r) = "claimed" /\ Phase(q) = "claimed" /\ q.creq
          /\ d = c \/ \E s \in Targets[b] : d = c \ {s}
       \/ Phase(r) = "ready" /\ Phase(q) = "claimed" /\ c = Targets[b] /\ d = c /\ q.creq = r.creq
       \/ Phase(r) # "closed" /\ Phase(q) = "closed"

\* A step of anybody on a job that is on record; the events in E are applied.
Moves(j, r, q, E) ==
    /\ GoodJob(j, q)
    /\ j \in Barrier => RuleMove(j, r, q)
    /\ r.st \in Terminal => q.st \in Terminal
    /\ IsActive(q) => IsActive(r) /\ (r.creq => q.creq)
    /\ q.ready = r.ready /\ q.committed = r.committed
    /\ \A s \in Session : s \notin {e.s : e \in E} => q.target[s] = r.target[s]
    /\ j \in Single => \A s \in Session : q.target[s].cur = r.target[s].cur
    /\ j \in Single /\ q.st = "NONE" => r.st = "NONE"
    /\ j \in Single /\ E = {} /\ r.st \in AtMostArmed => q.st \in AtMostArmed
    /\ q.keys \subseteq r.keys \cup E

LEMMA RecordFields ==
    ASSUME NEW r \in JobRecord
    PROVE  /\ r.st \in State /\ r.committed \in BOOLEAN /\ r.ready \in BOOLEAN
           /\ r.creq \in BOOLEAN /\ r.fresh \in BOOLEAN
           /\ r.target \in [Session -> StopTarget] /\ r.keys \subseteq Event
BY DEF JobRecord

LEMMA PhaseIs ==
    ASSUME NEW r, r.st \in State
    PROVE  /\ Phase(r) \in {"waiting", "ready", "claimed", "closed"}
           /\ Phase(r) = "waiting" <=> r.st \in {"NONE", "ARM_PENDING_BIND", "ARMED"}
           /\ Phase(r) = "ready" <=> r.st = "STOP_OBSERVED"
           /\ Phase(r) = "claimed" <=> r.st = "ACTION"
           /\ Phase(r) = "closed" <=> r.st \in Terminal
<1>1. CASE r.st \in {"NONE", "ARM_PENDING_BIND", "ARMED"}
  BY <1>1 DEF Phase, Terminal
<1>2. CASE r.st = "STOP_OBSERVED"
  BY <1>2 DEF Phase, Terminal
<1>3. CASE r.st = "ACTION"
  BY <1>3 DEF Phase, Terminal
<1>4. CASE r.st \in Terminal
  BY <1>4 DEF Phase, Terminal
<1>. QED
  BY <1>1, <1>2, <1>3, <1>4 DEF State

LEMMA TargetFields ==
    ASSUME NEW x \in StopTarget
    PROVE  x.cur \in Turn /\ x.stop \in Turn /\ x.cont \in Turn /\ x.ws \in Directory \cup {"none"}
BY DEF StopTarget

LEMMA BlankTyped == Turn \subseteq Nat /\ 0 \in Nat /\ Blank.cur = 0 /\ ~Stopped(Blank)
BY BarrierAssumption DEF Turn, Blank, Stopped

\* Nothing but the state, the cancellation request and the generation changes.
Same(r, q) == q.ready = r.ready /\ q.committed = r.committed /\ q.target = r.target /\ q.keys = r.keys

LEMMA CloseFields ==
    ASSUME NEW r \in JobRecord, NEW s \in State
    PROVE  LET q == Close(r, s)
           IN q \in JobRecord /\ q.st = s /\ q.creq = r.creq /\ Same(r, q)
BY DEF JobRecord, Close, Same

LEMMA RequestFields ==
    ASSUME NEW r \in JobRecord
    PROVE  LET q == RequestCancel(r)
           IN q \in JobRecord /\ q.st = r.st /\ q.creq = TRUE /\ Same(r, q)
BY DEF JobRecord, RequestCancel, Same

LEMMA GrantFields ==
    ASSUME NEW r \in JobRecord
    PROVE  LET q == CancelGrant(r)
           IN q \in JobRecord /\ q.st = "CANCELLED" /\ q.creq = TRUE /\ Same(r, q)
<1>. DEFINE c == Close(r, "CANCELLED")
<1>1. c \in JobRecord /\ c.st = "CANCELLED" /\ Same(r, c)
  BY CloseFields DEF State, Terminal
<1>. HIDE DEF c
<1>2. LET q == [c EXCEPT !.creq = TRUE]
      IN q \in JobRecord /\ q.st = c.st /\ q.creq = TRUE /\ Same(c, q)
  BY <1>1 DEF JobRecord, Same
<1>. QED
  BY <1>1, <1>2 DEF CancelGrant, Same, c

\* The ways a record may change when no event is applied to it.
Quiet(r, q) ==
    /\ q \in JobRecord /\ Same(r, q)
    /\ \/ q.st = r.st /\ q.creq = r.creq
       \/ r.st \notin Terminal /\ r.st # "NONE" /\ q.st \in {"CANCELLED", "FAILED"}
       \/ r.st \in Terminal /\ q.st = "FAILED" /\ q.creq = r.creq
       \/ r.st = "ACTION" /\ q.st = "ACTION" /\ q.creq = TRUE
       \/ r.st = "STOP_OBSERVED" /\ q.st = "ACTION" /\ q.creq = r.creq
       \/ r.st = "ACTION" /\ q.st = "COMPLETE" /\ q.creq = r.creq

LEMMA FailOrCancelQuiet ==
    ASSUME NEW r \in JobRecord, r.st # "NONE"
    PROVE  /\ Quiet(r, FailOrCancel(r))
           /\ IsActive(FailOrCancel(r)) => FailOrCancel(r).creq
<1>1. r.st \in State /\ r.creq \in BOOLEAN
  BY RecordFields
<1>2. CASE Unresolved(r)
  BY <1>1, <1>2, RequestFields DEF FailOrCancel, Unresolved, Quiet
<1>3. CASE ~Unresolved(r)
  <2>1. "FAILED" \in State
    BY DEF State, Terminal
  <2>. QED
    BY <1>1, <1>3, <2>1, CloseFields DEF FailOrCancel, Quiet, IsActive, Terminal
<1>. QED
  BY <1>2, <1>3

LEMMA SameCounted == ASSUME NEW r, NEW q, Same(r, q), NEW b
                     PROVE  Counted(b, q) = Counted(b, r) /\ (BarrierSatisfied(b, q) <=> BarrierSatisfied(b, r))
BY DEF Same, Counted, BarrierSatisfied

LEMMA CountedAll ==
    ASSUME NEW b, NEW r
    PROVE  BarrierSatisfied(b, r) <=> Counted(b, r) = Targets[b]
BY DEF BarrierSatisfied, Counted

\* Such a change keeps a good job good, and is a move of the rule.
LEMMA QuietMoves ==
    ASSUME NEW j \in Job, NEW r, GoodJob(j, r), NEW q, Quiet(r, q)
    PROVE  Moves(j, r, q, {})
<1>1. /\ r \in JobRecord /\ q \in JobRecord /\ Same(r, q)
      /\ r.st \in State /\ q.st \in State /\ r.creq \in BOOLEAN /\ q.creq \in BOOLEAN
  BY RecordFields DEF GoodJob, Quiet
<1>2. CASE j \in Barrier
  <2>1. GoodBarrier(j, r)
    BY <1>2 DEF GoodJob
  <2>2. GoodBarrier(j, q)
    <3>1. ValidBarrier(j, q)
      BY <1>1, <2>1, SameCounted DEF GoodBarrier, ValidBarrier, Same, Quiet, State, Terminal
    <3>. QED
      BY <1>1, <2>1, <3>1, SameCounted DEF GoodBarrier, ValidBarrier, Same, Quiet, State, Terminal
  <2>3. j \notin Single
    BY <1>2, BarrierAssumption
  <2>4. RuleMove(j, r, q)
    <3>1. Counted(j, q) = Counted(j, r)
      BY <1>1, SameCounted
    <3>2. r.st = "STOP_OBSERVED" => Counted(j, r) = Targets[j]
      BY <2>1, CountedAll DEF GoodBarrier, ValidBarrier
    <3>. QED
      BY <1>1, <3>1, <3>2, PhaseIs DEF RuleMove, Quiet, Terminal
  <2>. QED
    BY <1>1, <2>1, <2>2, <2>3, <2>4 DEF Moves, GoodJob, Quiet, Same, IsActive, Terminal, State, GoodBarrier
<1>3. CASE j \in Single
  <2>1. ValidSingle(j, r) /\ j \notin Barrier
    BY <1>3, BarrierAssumption DEF GoodJob
  <2>2. ValidSingle(j, q)
    BY <1>1, <2>1 DEF ValidSingle, Quiet, Same, State, Terminal
  <2>. QED
    BY <1>1, <2>1, <2>2 DEF Moves, GoodJob, Quiet, Same, IsActive, Terminal, State, AtMostArmed
<1>. QED
  BY <1>2, <1>3 DEF Job

-----------------------------------------------------------------------------
(* An event applied to a job.                                              *)

\* A target that goes on is running in the turn of the event.
Onward(x, e) == [ cur |-> e.t, stop |-> 0, ws |-> e.ws,
                  cont |-> IF e.again THEN e.t ELSE IF x.cur = e.t THEN x.cont ELSE 0 ]
Onwards(r, q, e) ==
    /\ q \in JobRecord /\ q.ready = r.ready /\ q.committed = r.committed /\ q.keys = r.keys
    /\ q.target[e.s] = Onward(r.target[e.s], e)
    /\ \A u \in Session : u # e.s => q.target[u] = r.target[u]
    /\ r.st = "ACTION" => q.st = "ACTION" /\ q.creq = TRUE
    /\ r.st # "ACTION" => q.st = "ARMED" /\ q.creq = r.creq
Halted(e) == [cur |-> e.t, stop |-> e.t, cont |-> 0, ws |-> e.ws]

LEMMA EventFields ==
    ASSUME NEW e \in Event
    PROVE  /\ e.kind \in {"Arm", "Prompt", "Stop", "SessionEnd"} /\ e.s \in Session /\ e.t \in Turn
           /\ e.again \in BOOLEAN /\ e.ws \in Directory /\ e.ws # "none" /\ e.t \in Nat
BY BarrierAssumption, BlankTyped DEF Event, Directory

LEMMA NewTargets ==
    ASSUME NEW e \in Event, e.t # 0, NEW x \in StopTarget, ValidTarget(x)
    PROVE  /\ Onward(x, e) \in StopTarget /\ ValidTarget(Onward(x, e)) /\ ~Stopped(Onward(x, e))
           /\ Halted(e) \in StopTarget /\ ValidTarget(Halted(e)) /\ Stopped(Halted(e))
<1>1. /\ e.t \in Turn /\ e.ws \in Directory /\ e.again \in BOOLEAN /\ e.ws # "none" /\ 0 \in Turn
  BY EventFields, BarrierAssumption DEF Turn
<1>2. x.cont \in Turn
  BY DEF StopTarget
<1>3. Onward(x, e) \in StopTarget /\ Halted(e) \in StopTarget
  BY <1>1, <1>2 DEF StopTarget, Onward, Halted
<1>4. ValidTarget(Onward(x, e)) /\ ~Stopped(Onward(x, e))
  BY <1>1 DEF ValidTarget, Onward, Stopped, Blank
<1>5. ValidTarget(Halted(e)) /\ Stopped(Halted(e))
  BY <1>1 DEF ValidTarget, Halted, Stopped
<1>. QED
  BY <1>3, <1>4, <1>5

\* What an event makes of the record, before its key is added.
LEMMA ReopenFields ==
    ASSUME NEW r \in JobRecord, NEW e \in Event, Onward(r.target[e.s], e) \in StopTarget
    PROVE  Onwards(r, Reopen(r, e), e)
<1>. DEFINE x == r.target[e.s]
            y == Onward(x, e)
            p == [r EXCEPT !.target[e.s] = y, !.fresh = @ /\ y = x]
<1>1. /\ p \in JobRecord /\ p.ready = r.ready /\ p.committed = r.committed /\ p.keys = r.keys
      /\ p.st = r.st /\ p.creq = r.creq
      /\ p.target[e.s] = y /\ \A u \in Session : u # e.s => p.target[u] = r.target[u]
  BY EventFields DEF JobRecord
<1>2. Reopen(r, e) = IF Unresolved(r) THEN IF y # x \/ ~r.creq THEN RequestCancel(p) ELSE p
                     ELSE [p EXCEPT !.st = "ARMED"]
  BY DEF Reopen, Onward
<1>3. r.creq \in BOOLEAN
  BY RecordFields
<1>. HIDE DEF p, y
<1>4. CASE Unresolved(r)
  <2>1. RequestCancel(p) \in JobRecord /\ RequestCancel(p).st = p.st /\ RequestCancel(p).creq = TRUE
        /\ Same(p, RequestCancel(p))
    BY <1>1, RequestFields
  <2>2. Onwards(r, RequestCancel(p), e)
    BY <1>1, <1>4, <2>1 DEF Onwards, Same, Unresolved, y
  <2>3. r.creq = TRUE => Onwards(r, p, e)
    BY <1>1, <1>4 DEF Onwards, Unresolved, y
  <2>. QED
    BY <1>2, <1>3, <1>4, <2>2, <2>3
<1>5. CASE ~Unresolved(r)
  <2>1. LET q == [p EXCEPT !.st = "ARMED"]
        IN /\ q \in JobRecord /\ q.st = "ARMED" /\ q.creq = p.creq /\ q.ready = p.ready
           /\ q.committed = p.committed /\ q.target = p.target /\ q.keys = p.keys
    BY <1>1 DEF JobRecord, State
  <2>. QED
    BY <1>1, <1>2, <1>5, <2>1 DEF Unresolved, Onwards, y
<1>. QED
  BY <1>4, <1>5

LEMMA ReopenMoves ==
    ASSUME NEW b \in Barrier, NEW r, GoodJob(b, r), IsActive(r), r.ready,
           NEW e \in Event, e.t # 0, e.s \in Targets[b]
    PROVE  Moves(b, r, Reopen(r, e), {e}) /\ ~Stopped(Reopen(r, e).target[e.s])
<1>. DEFINE x == r.target[e.s]
            y == Onward(x, e)
            q == Reopen(r, e)
<1>1. /\ r \in JobRecord /\ GoodBarrier(b, r) /\ b \notin Single /\ Targets[b] \subseteq Session
      /\ r.st \in State /\ r.creq \in BOOLEAN
  BY BarrierAssumption, RecordFields DEF GoodJob
<1>2. x \in StopTarget /\ ValidTarget(x)
  BY <1>1, RecordFields DEF GoodBarrier, ValidBarrier
<1>3. y \in StopTarget /\ ValidTarget(y) /\ ~Stopped(y)
  BY <1>2, NewTargets
<1>4. /\ q \in JobRecord /\ q.ready = r.ready /\ q.committed = r.committed /\ q.keys = r.keys
      /\ q.target[e.s] = y /\ \A u \in Session : u # e.s => q.target[u] = r.target[u]
      /\ r.st = "ACTION" => q.st = "ACTION" /\ q.creq = TRUE
      /\ r.st # "ACTION" => q.st = "ARMED" /\ q.creq = r.creq
  <2>1. Onward(r.target[e.s], e) \in StopTarget
    BY <1>3
  <2>2. Onwards(r, q, e)
    BY <1>1, <2>1, ReopenFields
  <2>. QED
    BY <2>2 DEF Onwards
<1>. HIDE DEF x, y, q
<1>5. Counted(b, q) = Counted(b, r) \ {e.s}
  BY <1>1, <1>3, <1>4 DEF Counted
<1>6. r.st \in {"ARMED", "STOP_OBSERVED", "ACTION"}
  BY <1>1 DEF GoodBarrier, IsActive, State
<1>7. RuleMove(b, r, q)
  <2>1. q.st \in State
    BY <1>4, RecordFields
  <2>. QED
    BY <1>1, <1>4, <1>5, <1>6, <2>1, PhaseIs DEF RuleMove
<1>8. GoodBarrier(b, q)
  <2>1. \A s \in Targets[b] : ValidTarget(q.target[s])
    BY <1>1, <1>3, <1>4 DEF GoodBarrier, ValidBarrier
  <2>. QED
    BY <1>1, <1>4, <1>6, <2>1 DEF GoodBarrier, ValidBarrier, Terminal
<1>9. \A s \in Session : s \notin {f.s : f \in {e}} => q.target[s] = r.target[s]
  BY <1>4
<1>. QED
  BY <1>1, <1>3, <1>4, <1>5, <1>6, <1>7, <1>8, <1>9 DEF Moves, GoodJob, IsActive, Terminal, q

LEMMA CountMoves ==
    ASSUME NEW b \in Barrier, NEW r, GoodJob(b, r), IsActive(r), r.ready,
           NEW e \in Event, e.t # 0, e.s \in Targets[b]
    PROVE  Moves(b, r, CountStop(b, r, e), {e})
<1>. DEFINE x == r.target[e.s]
            p == [r EXCEPT !.target[e.s] = Halted(e), !.fresh = FALSE]
            t == IF ~BarrierSatisfied(b, p) THEN "ARMED" ELSE IF b \in DryRun THEN "COMPLETE" ELSE "STOP_OBSERVED"
            q == [p EXCEPT !.st = t]
<1>1. /\ r \in JobRecord /\ GoodBarrier(b, r) /\ b \notin Single /\ Targets[b] \subseteq Session
      /\ r.st \in State /\ r.creq \in BOOLEAN
  BY BarrierAssumption, RecordFields DEF GoodJob
<1>2. Halted(e) \in StopTarget /\ ValidTarget(Halted(e)) /\ Stopped(Halted(e))
  BY <1>1, NewTargets, RecordFields DEF GoodBarrier, ValidBarrier
<1>3. CountStop(b, r, e) = IF Unresolved(r) \/ x.cur \notin {0, e.t} \/ (x.cur # 0 /\ x.cont = x.cur) \/ Stopped(x)
                             THEN r ELSE q
  BY DEF CountStop, Halted
<1>4. Moves(b, r, r, {e})
  <2>1. Quiet(r, r)
    BY <1>1 DEF Quiet, Same
  <2>. QED
    BY <2>1, QuietMoves DEF Moves, Job
<1>5. ASSUME ~Unresolved(r), ~Stopped(x)  PROVE Moves(b, r, q, {e})
  <2>1. /\ p \in JobRecord /\ p.ready = r.ready /\ p.committed = r.committed /\ p.keys = r.keys
        /\ p.st = r.st /\ p.creq = r.creq /\ p.target = [r.target EXCEPT ![e.s] = Halted(e)]
    BY <1>1, <1>2, EventFields DEF JobRecord
  <2>. HIDE DEF p
  <2>2. t \in State /\ t \in {"ARMED", "COMPLETE", "STOP_OBSERVED"}
    BY DEF State, Terminal
  <2>3. /\ q \in JobRecord /\ q.st = t /\ q.creq = r.creq /\ q.ready = r.ready
        /\ q.committed = r.committed /\ q.target = p.target /\ q.keys = r.keys
    BY <2>1, <2>2 DEF JobRecord
  <2>4. t = "ARMED" <=> ~BarrierSatisfied(b, q)
    BY <2>3 DEF BarrierSatisfied
  <2>5. t = "COMPLETE" => b \in DryRun
    OBVIOUS
  <2>6. t = "STOP_OBSERVED" => b \notin DryRun
    OBVIOUS
  <2>. HIDE DEF q, t, x
  <2>7. /\ q.target[e.s] = Halted(e) /\ \A u \in Session : u # e.s => q.target[u] = r.target[u]
        /\ Counted(b, q) = Counted(b, r) \cup {e.s}
    BY <1>1, <1>2, <2>1, <2>3, RecordFields DEF Counted
  <2>8. r.st = "ARMED" /\ ~r.creq
    <3>1. r.st \in {"ARMED", "STOP_OBSERVED"} /\ ~r.creq
      BY <1>1, <1>5 DEF GoodBarrier, IsActive, Unresolved, State, Terminal
    <3>2. r.st # "STOP_OBSERVED"
      BY <1>1, <1>5 DEF GoodBarrier, ValidBarrier, BarrierSatisfied, x
    <3>. QED
      BY <3>1, <3>2
  <2>9. RuleMove(b, r, q)
    BY <1>1, <2>2, <2>3, <2>4, <2>7, <2>8, PhaseIs, CountedAll, RecordFields DEF RuleMove, Terminal
  <2>10. GoodBarrier(b, q)
    <3>1. \A s \in Targets[b] : ValidTarget(q.target[s])
      BY <1>1, <1>2, <2>7 DEF GoodBarrier, ValidBarrier
    <3>. QED
      BY <1>1, <2>2, <2>3, <2>4, <2>5, <2>6, <2>8, <3>1 DEF GoodBarrier, ValidBarrier, Terminal
  <2>11. \A s \in Session : s \notin {f.s : f \in {e}} => q.target[s] = r.target[s]
    BY <2>7
  <2>. QED
    BY <1>1, <2>3, <2>7, <2>8, <2>9, <2>10, <2>11 DEF Moves, GoodJob, IsActive, Terminal
<1>. QED
  BY <1>3, <1>4, <1>5

\* A prompt that reached a barrier left its target running, or the job is not
\* one that would act.
Heard(r, e) == e.kind = "Prompt" /\ IsActive(r) => ~Stopped(r.target[e.s]) \/ r.creq = TRUE
EventMoves(j, r, q, e) ==
    /\ Moves(j, r, q, {e})
    /\ q.st = "ACTION" => r.st = "ACTION"
    /\ j \in Barrier => Heard(q, e)

\* The record has its parts in any good job.
LEMMA GoodParts ==
    ASSUME NEW j, NEW r, GoodJob(j, r)
    PROVE  r \in JobRecord /\ r.st \in State /\ r.creq \in BOOLEAN /\ r.target \in [Session -> StopTarget]
BY RecordFields DEF GoodJob

\* A change that closes the job, or asks to cancel its action, can follow an event.
LEMMA EventThenQuiet ==
    ASSUME NEW j \in Job, NEW r, NEW p, NEW e \in Event, EventMoves(j, r, p, e), GoodJob(j, r),
           NEW q, Quiet(p, q), IsActive(q) => q.st = p.st /\ q.creq = TRUE
    PROVE  EventMoves(j, r, q, e)
<1>1. /\ Moves(j, r, p, {e}) /\ GoodJob(j, p) /\ Same(p, q)
      /\ p.st = "ACTION" => r.st = "ACTION"
  BY DEF EventMoves, Moves, Quiet
<1>2. Moves(j, p, q, {}) /\ GoodJob(j, q)
  BY <1>1, QuietMoves DEF Moves
<1>3. /\ r.st \in State /\ p.st \in State /\ q.st \in State
      /\ r.creq \in BOOLEAN /\ p.creq \in BOOLEAN /\ q.creq \in BOOLEAN
  BY <1>1, <1>2, GoodParts
<1>4. IsActive(q) => q.st = p.st /\ q.creq = TRUE /\ IsActive(r)
  BY <1>1 DEF Moves, IsActive
<1>5. ASSUME j \in Barrier  PROVE RuleMove(j, r, q)
  <2>1. RuleMove(j, r, p) /\ Counted(j, q) = Counted(j, p)
    BY <1>1, <1>5, SameCounted DEF Moves
  <2>2. CASE q.st \in Terminal
    <3>1. p.st \in Terminal => q.creq = p.creq
      BY <2>2 DEF Quiet, Terminal
    <3>2. r.st \in Terminal => p.st \in Terminal
      BY <1>1 DEF Moves
    <3>3. r.st \in Terminal => Counted(j, p) = Counted(j, r) /\ p.creq = r.creq
      BY <1>3, <2>1, <3>2, PhaseIs DEF RuleMove, Terminal
    <3>. QED
      BY <1>3, <2>1, <2>2, <3>1, <3>2, <3>3, PhaseIs DEF RuleMove
  <2>3. CASE q.st = "ACTION"
    <3>1. p.st = "ACTION" /\ r.st = "ACTION" /\ q.creq = TRUE
      BY <1>1, <1>4, <2>3 DEF IsActive, Terminal
    <3>. QED
      BY <1>3, <2>1, <2>3, <3>1, PhaseIs DEF RuleMove
  <2>4. CASE q.st \notin Terminal \cup {"ACTION"}
    <3>1. q.creq = FALSE
      BY <1>2, <1>3, <1>5, <2>4 DEF GoodJob, GoodBarrier
    <3>2. q.st = "NONE" /\ p.st = "NONE" /\ p.creq = q.creq
      BY <1>4, <2>4, <3>1 DEF Quiet, IsActive, Terminal
    <3>. QED
      BY <1>3, <2>1, <3>2, PhaseIs DEF RuleMove
  <2>. QED
    BY <2>2, <2>3, <2>4
<1>6. j \in Barrier => Heard(q, e)
  BY <1>4 DEF Heard
<1>7. q.st = "ACTION" => r.st = "ACTION"
  BY <1>1, <1>4 DEF IsActive, Terminal
<1>8. Moves(j, r, q, {e})
  <2>1. r.st \in Terminal => q.st \in Terminal
    BY <1>1, <1>2 DEF Moves
  <2>. QED
    BY <1>1, <1>2, <1>4, <1>5, <2>1 DEF Moves, Same
<1>. QED
  BY <1>6, <1>7, <1>8 DEF EventMoves

\* A change without an event, where a Hook found nothing to apply.
LEMMA QuietEvent ==
    ASSUME NEW j \in Job, NEW r, GoodJob(j, r), NEW e \in Event, NEW q, Quiet(r, q),
           q.st = "ACTION" => r.st = "ACTION", j \in Barrier => Heard(q, e)
    PROVE  EventMoves(j, r, q, e)
BY QuietMoves DEF EventMoves, Moves

\* What is remembered of an event changes nothing else.
LEMMA RememberMoves ==
    ASSUME NEW j \in Job, NEW r, NEW p, NEW e \in Event, EventMoves(j, r, p, e)
    PROVE  EventMoves(j, r, Remember(p, e), e)
<1>. DEFINE q == [p EXCEPT !.keys = @ \cup {e}]
<1>1. Moves(j, r, p, {e}) /\ GoodJob(j, p) /\ p \in JobRecord
  BY DEF EventMoves, Moves, GoodJob
<1>2. CASE Remember(p, e) = q
  <2>1. /\ q \in JobRecord /\ q.st = p.st /\ q.creq = p.creq /\ q.ready = p.ready
        /\ q.committed = p.committed /\ q.target = p.target /\ q.keys = p.keys \cup {e}
    BY <1>1 DEF JobRecord
  <2>. HIDE DEF q
  <2>2. GoodJob(j, q)
    BY <1>1, <2>1 DEF GoodJob, GoodBarrier, ValidBarrier, BarrierSatisfied, ValidSingle
  <2>3. Phase(q) = Phase(p) /\ Counted(j, q) = Counted(j, p)
    BY <2>1 DEF Phase, Counted
  <2>4. j \in Barrier => RuleMove(j, r, q)
    BY <1>1, <2>1, <2>3 DEF Moves, RuleMove
  <2>5. Moves(j, r, q, {e})
    BY <1>1, <2>1, <2>2, <2>4 DEF Moves, IsActive
  <2>6. j \in Barrier => Heard(q, e)
    BY <2>1 DEF EventMoves, Heard, IsActive
  <2>. QED
    BY <1>2, <2>1, <2>5, <2>6 DEF EventMoves
<1>3. CASE Remember(p, e) = p
  BY <1>3
<1>. QED
  BY <1>2, <1>3 DEF Remember

\* Any event, on a barrier a Hook can see.
LEMMA BarrierEvent ==
    ASSUME NEW b \in Barrier, NEW r, GoodJob(b, r), r.ready, NEW expired \in BOOLEAN,
           NEW e \in Event, e.t # 0, e.s \in Targets[b], e.kind # "Arm"
    PROVE  EventMoves(b, r, ApplyToBarrier(b, r, e, expired), e)
<1>. DEFINE q == ApplyToBarrier(b, r, e, expired)
<1>1. /\ r \in JobRecord /\ r.st \in State /\ r.creq \in BOOLEAN /\ b \in Job
      /\ e.kind \in {"Prompt", "Stop", "SessionEnd"}
  BY GoodParts, EventFields DEF Job
<1>2. Quiet(r, r)
  BY <1>1 DEF Quiet, Same
<1>3. IsActive(r) => Quiet(r, FailOrCancel(r)) /\ (IsActive(FailOrCancel(r)) => FailOrCancel(r).creq = TRUE)
  BY <1>1, FailOrCancelQuiet DEF IsActive
<1>4. FailOrCancel(r).st = "ACTION" => r.st = "ACTION"
  BY <1>1, CloseFields DEF FailOrCancel, Unresolved, State, Terminal
<1>5. CASE ~IsActive(r)
  BY <1>1, <1>2, <1>5, QuietEvent DEF ApplyToBarrier, Heard
<1>6. CASE IsActive(r) /\ e.kind = "SessionEnd"
  <2>1. q = IF Stopped(r.target[e.s]) THEN r ELSE FailOrCancel(r)
    BY <1>6 DEF ApplyToBarrier
  <2>. HIDE DEF q
  <2>. QED
    BY <1>1, <1>2, <1>3, <1>4, <1>6, <2>1, QuietEvent DEF Heard, q
<1>7. CASE IsActive(r) /\ e.kind # "SessionEnd" /\ expired /\ ~Unresolved(r)
  <2>1. q = Close(r, "FAILED")
    BY <1>7 DEF ApplyToBarrier
  <2>2. Quiet(r, Close(r, "FAILED")) /\ Close(r, "FAILED").st = "FAILED"
    BY <1>1, <1>7, CloseFields DEF Quiet, IsActive, State, Terminal
  <2>. HIDE DEF q
  <2>3. EventMoves(b, r, q, e)
    BY <1>1, <2>1, <2>2, QuietEvent DEF Heard, IsActive, Terminal
  <2>. QED
    BY <2>3 DEF q
<1>8. CASE IsActive(r) /\ e.kind # "SessionEnd" /\ (~expired \/ Unresolved(r))
  <2>1. q = IF Foreign(r, e) THEN FailOrCancel(r)
            ELSE IF e.kind = "Prompt" \/ e.again THEN Reopen(r, e) ELSE CountStop(b, r, e)
    BY <1>8 DEF ApplyToBarrier
  <2>. HIDE DEF q
  <2>2. EventMoves(b, r, FailOrCancel(r), e)
    BY <1>1, <1>3, <1>4, <1>8, QuietEvent DEF Heard
  <2>3. EventMoves(b, r, Reopen(r, e), e)
    <3>1. Moves(b, r, Reopen(r, e), {e}) /\ ~Stopped(Reopen(r, e).target[e.s])
      BY <1>8, ReopenMoves
    <3>2. Reopen(r, e).st = "ACTION" => r.st = "ACTION"
      <4>1. r.target[e.s] \in StopTarget /\ ValidTarget(r.target[e.s])
        BY <1>1, GoodParts, EventFields DEF GoodJob, GoodBarrier, ValidBarrier
      <4>2. Onward(r.target[e.s], e) \in StopTarget
        BY <4>1, NewTargets
      <4>3. Onwards(r, Reopen(r, e), e)
        BY <1>1, <4>2, ReopenFields
      <4>. QED
        BY <4>3 DEF Onwards
    <3>. QED
      BY <3>1, <3>2 DEF EventMoves, Heard
  <2>4. ASSUME e.kind # "Prompt"  PROVE EventMoves(b, r, CountStop(b, r, e), e)
    <3>1. Moves(b, r, CountStop(b, r, e), {e})
      BY <1>8, CountMoves
    <3>2. CountStop(b, r, e).st = "ACTION" => r.st = "ACTION"
      <4>. DEFINE p == [r EXCEPT !.target[e.s] = Halted(e), !.fresh = FALSE]
                  t == IF ~BarrierSatisfied(b, p) THEN "ARMED" ELSE IF b \in DryRun THEN "COMPLETE" ELSE "STOP_OBSERVED"
      <4>1. CountStop(b, r, e) = r \/ CountStop(b, r, e) = [p EXCEPT !.st = t]
        BY DEF CountStop, Halted
      <4>2. p \in JobRecord
        BY <1>1, GoodParts, NewTargets, EventFields DEF JobRecord, GoodJob, GoodBarrier, ValidBarrier
      <4>3. t # "ACTION"
        OBVIOUS
      <4>. HIDE DEF p, t
      <4>4. [p EXCEPT !.st = t].st = t
        BY <4>2 DEF JobRecord
      <4>. QED
        BY <4>1, <4>3, <4>4
    <3>. QED
      BY <2>4, <3>1, <3>2 DEF EventMoves, Heard
  <2>. QED
    BY <2>1, <2>2, <2>3, <2>4 DEF q
<1>. QED
  BY <1>5, <1>6, <1>7, <1>8

\* Any event, on an after_stop job.
LEMMA SingleEvent ==
    ASSUME NEW j \in Single, NEW r, GoodJob(j, r), NEW expired \in BOOLEAN,
           NEW e \in Event, e.t # 0, e.s = Home[j], e.kind # "Arm"
    PROVE  EventMoves(j, r, ApplyToSingle(j, r, e, expired), e)
<1>. DEFINE q == ApplyToSingle(j, r, e, expired)
            t == IF j \in DryRun THEN "COMPLETE" ELSE "STOP_OBSERVED"
            stopped == [r EXCEPT !.target[e.s].stop = e.t, !.st = t]
<1>1. /\ r \in JobRecord /\ r.st \in State /\ r.creq \in BOOLEAN /\ j \in Job /\ j \notin Barrier
      /\ ValidSingle(j, r)
  BY GoodParts, BarrierAssumption DEF Job, GoodJob
<1>2. ASSUME NEW p, Quiet(r, p), p.st = "ACTION" => r.st = "ACTION"
      PROVE  EventMoves(j, r, p, e)
  BY <1>1, <1>2, QuietEvent
<1>3. EventMoves(j, r, r, e)
  BY <1>1, <1>2 DEF Quiet, Same
<1>4. r.st = "ACTION" => EventMoves(j, r, RequestCancel(r), e)
  BY <1>1, <1>2, RequestFields DEF Quiet
<1>5. IsActive(r) => EventMoves(j, r, Close(r, "FAILED"), e)
  <2>1. Close(r, "FAILED") \in JobRecord /\ Same(r, Close(r, "FAILED")) /\ Close(r, "FAILED").st = "FAILED"
    BY <1>1, CloseFields DEF State, Terminal
  <2>. QED
    BY <1>2, <2>1 DEF Quiet, IsActive
<1>6. IsActive(r) => EventMoves(j, r, CancelGrant(r), e)
  BY <1>1, <1>2, GrantFields DEF Quiet, IsActive
<1>7. ASSUME r.st = "ARMED"  PROVE EventMoves(j, r, stopped, e)
  <2>1. t \in State /\ t \in {"COMPLETE", "STOP_OBSERVED"}
    BY DEF State, Terminal
  <2>. HIDE DEF t
  <2>. DEFINE x == r.target[e.s]
              y == [x EXCEPT !.stop = e.t]
  <2>2. x \in StopTarget /\ e.s \in Session /\ e.t \in Turn
    BY <1>1, GoodParts, EventFields
  <2>3. y \in StopTarget /\ y.stop = e.t /\ y.cur = x.cur
    BY <2>2 DEF StopTarget
  <2>. HIDE DEF y
  <2>4. stopped = [r EXCEPT !.target[e.s] = y, !.st = t]
    BY DEF y
  <2>. HIDE DEF stopped
  <2>5. /\ stopped \in JobRecord /\ stopped.st = t /\ stopped.ready = r.ready
        /\ stopped.committed = r.committed /\ stopped.keys = r.keys /\ stopped.creq = r.creq
        /\ stopped.target[e.s] = y /\ \A s \in Session : s # e.s => stopped.target[s] = r.target[s]
    BY <1>1, <2>1, <2>2, <2>3, <2>4 DEF JobRecord
  <2>6. x.cur # 0
    BY <1>1, <1>7 DEF ValidSingle
  <2>7. GoodJob(j, stopped)
    BY <1>1, <2>1, <2>3, <2>5, <2>6 DEF GoodJob, ValidSingle
  <2>8. \A s \in Session : stopped.target[s].cur = r.target[s].cur
    BY <2>3, <2>5
  <2>9. \A s \in Session : s \notin {f.s : f \in {e}} => stopped.target[s] = r.target[s]
    BY <2>5
  <2>10. Moves(j, r, stopped, {e})
    BY <1>1, <1>7, <2>1, <2>5, <2>7, <2>8, <2>9 DEF Moves, IsActive, Terminal
  <2>. QED
    BY <1>1, <2>1, <2>5, <2>10 DEF EventMoves
<1>. HIDE DEF stopped
<1>8. CASE ~IsActive(r) \/ (e.kind = "SessionEnd" /\ r.st \in {"STOP_OBSERVED", "ACTION"})
  <2>1. q = r
    BY <1>8 DEF ApplyToSingle, IsActive, Unresolved, Terminal
  <2>. QED
    BY <1>3, <2>1
<1>9. CASE e.kind = "SessionEnd" /\ r.st \in {"ARM_PENDING_BIND", "ARMED"}
  <2>1. IsActive(r) /\ q = Close(r, "FAILED")
    BY <1>9 DEF ApplyToSingle, IsActive, Terminal
  <2>. QED
    BY <1>5, <2>1
<1>10. CASE e.kind # "SessionEnd" /\ Unresolved(r)
  <2>1. r.st = "ACTION" /\ q = RequestCancel(r)
    BY <1>10 DEF ApplyToSingle, Unresolved, IsActive, Terminal
  <2>. QED
    BY <1>4, <2>1
<1>11. CASE e.kind # "SessionEnd" /\ IsActive(r) /\ ~Unresolved(r)
  <2>1. q = IF expired THEN Close(r, "FAILED")
            ELSE IF e.kind = "Prompt" \/ e.again THEN CancelGrant(r)
            ELSE IF j \notin DryRun /\ Foreign(r, e) THEN Close(r, "FAILED")
            ELSE IF r.st = "STOP_OBSERVED" THEN CancelGrant(r)
            ELSE IF r.st = "ARMED" /\ e.t = r.target[e.s].cur THEN stopped ELSE r
    BY <1>11 DEF ApplyToSingle, stopped
  <2>. HIDE DEF q
  <2>. QED
    BY <1>3, <1>5, <1>6, <1>7, <1>11, <2>1 DEF q
<1>. QED
  BY <1>1, <1>8, <1>9, <1>10, <1>11 DEF IsActive, State

LEMMA AppliedMoves ==
    ASSUME NEW j \in Job, NEW r, GoodJob(j, r), NEW expired \in BOOLEAN,
           NEW e \in Event, e.t # 0, e.kind # "Arm",
           j \in Barrier => r.ready /\ e.s \in Targets[j], j \in Single => e.s = Home[j]
    PROVE  EventMoves(j, r, ApplyTo(j, r, e, expired), e)
BY BarrierEvent, SingleEvent DEF ApplyTo, Job

-----------------------------------------------------------------------------
(* Steps on one job's file.                                                *)

\* A save of one job; it may give indexes back when the job has ended.
JobPart(E) ==
    \/ UNCHANGED <<job, index>>
    \/ \E j \in Job, q \in JobRecord, S \in SUBSET Session :
         /\ Moves(j, job[j], q, E)
         /\ S \subseteq Owned(j) /\ (S = {} \/ ~IsActive(q))
         /\ Save(j, q, S)
JobSteps(E) == \A j \in Job : job'[j] = job[j] \/ Moves(j, job[j], job'[j], E)

\* What every step does to a job: the rule for barriers, no revival.
Steps == \A j \in Job : /\ j \in Barrier => RuleMove(j, job[j], job'[j])
                        /\ job[j].st \in Terminal => job'[j].st \in Terminal

LEMMA GoneWhat ==
    ASSUME NEW j \in Job, NEW q, NEW S \in Gone(j, q), BarrierTypeOK
    PROVE  S \in SUBSET Session /\ S \subseteq Owned(j) /\ (S = {} \/ ~IsActive(q))
<1>1. CASE j \in Barrier /\ ~IsActive(q)
  BY <1>1 DEF Gone, Owned
<1>2. CASE ~(j \in Barrier /\ ~IsActive(q))
  BY <1>2 DEF Gone
<1>. QED
  BY <1>1, <1>2

LEMMA UpdateJobPart ==
    ASSUME BarrierTypeOK, NEW j \in Job, NEW q, NEW E, Moves(j, job[j], q, E), UpdateJob(j, q)
    PROVE  JobPart(E)
<1>1. q \in JobRecord
  BY DEF Moves, GoodJob
<1>2. PICK S \in Gone(j, q) : Save(j, q, S)
  BY DEF UpdateJob
<1>. QED
  BY <1>1, <1>2, GoneWhat DEF JobPart

LEMMA QuietPart ==
    ASSUME IInv, NEW j \in Job, NEW q, Quiet(job[j], q), UpdateJob(j, q)
    PROVE  JobPart({})
BY QuietMoves, UpdateJobPart DEF IInv, JobInv

LEMMA JobPartSteps ==
    ASSUME IInv, NEW E, JobPart(E)
    PROVE  /\ job' \in [Job -> JobRecord] /\ index' \in [Session -> Job \cup {NoJob}]
           /\ JobSteps(E)
           /\ \A s \in Session : index'[s] = index[s] \/ (index'[s] = NoJob /\ ~IsActive(job'[index[s]]))
<1>1. job \in [Job -> JobRecord] /\ index \in [Session -> Job \cup {NoJob}]
  BY DEF IInv, BarrierTypeOK
<1>2. CASE UNCHANGED <<job, index>>
  BY <1>1, <1>2 DEF JobSteps
<1>3. CASE \E j \in Job, q \in JobRecord, S \in SUBSET Session :
             /\ Moves(j, job[j], q, E)
             /\ S \subseteq Owned(j) /\ (S = {} \/ ~IsActive(q))
             /\ Save(j, q, S)
  <2>1. PICK j \in Job, q \in JobRecord, S \in SUBSET Session :
             /\ Moves(j, job[j], q, E)
             /\ S \subseteq Owned(j) /\ (S = {} \/ ~IsActive(q))
             /\ Save(j, q, S)
    BY <1>3
  <2>2. /\ job' \in [Job -> JobRecord] /\ job'[j] = q /\ \A k \in Job : k # j => job'[k] = job[k]
        /\ index' = [s \in Session |-> IF s \in S THEN NoJob ELSE index[s]]
    BY <1>1, <2>1 DEF Save
  <2>3. index' \in [Session -> Job \cup {NoJob}]
    BY <1>1, <2>2
  <2>4. JobSteps(E)
    BY <2>1, <2>2 DEF JobSteps
  <2>5. ASSUME NEW s \in Session
        PROVE  index'[s] = index[s] \/ (index'[s] = NoJob /\ ~IsActive(job'[index[s]]))
    <3>1. s \notin S => index'[s] = index[s]
      BY <2>2
    <3>2. s \in S => index'[s] = NoJob /\ index[s] = j /\ ~IsActive(q)
      BY <2>1, <2>2 DEF Owned
    <3>. QED
      BY <2>2, <3>1, <3>2
  <2>. QED
    BY <2>2, <2>3, <2>4, <2>5
<1>. QED
  BY <1>2, <1>3 DEF JobPart

LEMMA SameMoves ==
    ASSUME NEW j \in Job, NEW r, GoodJob(j, r)
    PROVE  Moves(j, r, r, {})
BY QuietMoves, GoodParts DEF Quiet, Same

\* A save keeps the jobs good, moves them by the rule, and keeps their indexes.
LEMMA JobPartKeeps ==
    ASSUME IInv, NEW E, JobPart(E), rearmed \subseteq rearmed', unlinked' = unlinked
    PROVE  JobInv' /\ IndexInv' /\ OwnInv' /\ Steps
<1>1. /\ job' \in [Job -> JobRecord] /\ index' \in [Session -> Job \cup {NoJob}]
      /\ JobSteps(E)
      /\ \A s \in Session : index'[s] = index[s] \/ (index'[s] = NoJob /\ ~IsActive(job'[index[s]]))
  BY JobPartSteps
<1>2. \A j \in Job : GoodJob(j, job[j])
  BY DEF IInv, JobInv
<1>3. JobInv'
  BY <1>1, <1>2 DEF JobInv, JobSteps, Moves
<1>4. IndexInv'
  BY <1>1, BarrierAssumption DEF IInv, IndexInv, Job
<1>5. Steps
  <2>1. ASSUME NEW j \in Job
        PROVE  /\ j \in Barrier => RuleMove(j, job[j], job'[j])
               /\ job[j].st \in Terminal => job'[j].st \in Terminal
    <3>1. Moves(j, job[j], job[j], {})
      BY <1>2, SameMoves
    <3>. QED
      BY <1>1, <3>1 DEF JobSteps, Moves
  <2>. QED
    BY <2>1 DEF Steps
<1>6. OwnInv'
  <2>1. ASSUME NEW b \in Barrier, IsActive(job'[b]), job'[b].ready, NEW s \in Targets[b]
        PROVE  index'[s] = b \/ s \in rearmed'
    <3>1. IsActive(job[b]) /\ job[b].ready /\ s \in Session /\ b \in Job
      BY <1>1, <2>1, BarrierAssumption DEF JobSteps, Moves, Job
    <3>2. index[s] = b \/ s \in rearmed
      BY <3>1 DEF IInv, OwnInv, Owned
    <3>. QED
      BY <1>1, <2>1, <3>1, <3>2
  <2>2. ASSUME NEW j \in Single, IsActive(job'[j]), job'[j].target[Home[j]].cur # 0
        PROVE  index'[Home[j]] = j \/ Home[j] \in rearmed' \/ j \in unlinked'
    <3>1. IsActive(job[j]) /\ job[j].target[Home[j]].cur # 0 /\ Home[j] \in Session /\ j \in Job
      BY <1>1, <2>2, BarrierAssumption DEF JobSteps, Moves, Job
    <3>2. index[Home[j]] = j \/ Home[j] \in rearmed \/ j \in unlinked
      BY <3>1 DEF IInv, OwnInv, Owned, Bound
    <3>. QED
      BY <1>1, <2>2, <3>1, <3>2
  <2>. QED
    BY <2>1, <2>2, BarrierAssumption DEF OwnInv, Owned, Bound
<1>. QED
  BY <1>3, <1>4, <1>5, <1>6

\* What a hook's own progress does to the hooks: it ends, or goes on with its
\* event.  A clean one that has not reported yet still has to.
Follows(x, y) ==
    /\ y \in HookProcess /\ GoodHook(y) /\ y.e = x.e
    /\ x.pc # "bind" /\ y.pc # "bind"
    /\ x.pc \in Pending <=> y.pc \in Pending
    /\ y.job \in {x.job, NoJob, index[x.e.s]}
    /\ \A b \in Barrier : Missed(y, b) =>
         Missed(x, b) \/ (x.e.s \in clean /\ IsActive(job[b]) => ~Stopped(job[b].target[x.e.s]))
HookPart ==
    \/ hooks' = hooks
    \/ \E x \in hooks :
         \/ hooks' = hooks \ {x} /\ (x.e.s \in clean' => x.pc \notin Pending)
         \/ \E y : Follows(x, y) /\ hooks' = (hooks \ {x}) \cup {y}

\* Every hook of the next state is one of now, or follows one.
LEMMA HookPartBack ==
    ASSUME IInv, HookPart
    PROVE  /\ \A y \in hooks' : y \in hooks \/ (y.pc # "bind" /\ \E x \in hooks : Follows(x, y))
           /\ \A x \in hooks : x \in hooks' \/ (x.e.s \in clean' => x.pc \notin Pending)
                                \/ \E y \in hooks' : Follows(x, y)
           /\ \A s \in clean : Alone(s) => Alone(s)'
           /\ hooks' \subseteq HookProcess /\ \A y \in hooks' : GoodHook(y)
<1>1. hooks \subseteq HookProcess /\ \A x \in hooks : GoodHook(x)
  BY DEF IInv, BarrierTypeOK, HookInv
<1>2. CASE hooks' = hooks
  BY <1>1, <1>2 DEF Alone
<1>3. ASSUME NEW x \in hooks, hooks' = hooks \ {x}, x.e.s \in clean' => x.pc \notin Pending
      PROVE  /\ \A y \in hooks' : y \in hooks
             /\ \A z \in hooks : z \in hooks' \/ (z.e.s \in clean' => z.pc \notin Pending)
             /\ \A s \in clean : Alone(s) => Alone(s)'
  BY <1>3 DEF Alone
<1>4. ASSUME NEW x \in hooks, NEW y, Follows(x, y), hooks' = (hooks \ {x}) \cup {y}
      PROVE  /\ \A z \in hooks' : z \in hooks \/ (z.pc # "bind" /\ \E w \in hooks : Follows(w, z))
             /\ \A z \in hooks : z \in hooks' \/ \E w \in hooks' : Follows(z, w)
             /\ \A s \in clean : Alone(s) => Alone(s)'
             /\ hooks' \subseteq HookProcess /\ \A z \in hooks' : GoodHook(z)
  <2>1. y \in HookProcess /\ GoodHook(y) /\ y.pc # "bind" /\ y.e = x.e /\ y \in hooks'
    BY <1>4 DEF Follows
  <2>2. \A s \in clean : Alone(s) => Alone(s)'
    BY <1>4, <2>1 DEF Alone
  <2>. QED
    BY <1>1, <1>4, <2>1, <2>2
<1>. QED
  BY <1>1, <1>2, <1>3, <1>4 DEF HookPart

\* A step that brings no index and no event to a job that has no index: what
\* hooks there are captured none, or the one their session's index names.
LeavesDeaf ==
    /\ rearmed \subseteq rearmed' /\ unlinked' = unlinked
    /\ \A j \in Single :
         /\ job'[j].target[Home[j]].cur = job[j].target[Home[j]].cur
         /\ job'[j].st = "NONE" => job[j].st = "NONE"
         /\ Deaf(j) /\ job[j].st \in AtMostArmed => job'[j].st \in AtMostArmed
         /\ index'[Home[j]] = j => index[Home[j]] = j
    /\ \A y \in hooks' :
         y.pc # "bind" => y.job \in {NoJob, index[y.e.s]} \/ \E x \in hooks : x.pc # "bind" /\ x.job = y.job

LEMMA DeafKeeps ==
    ASSUME IInv, LeavesDeaf, hooks' \subseteq HookProcess
    PROVE  DeafInv'
<1>1. \A j \in Single : Home[j] \in Session /\ j # NoJob /\ j \notin Barrier
  BY BarrierAssumption
<1>2. \A j \in Single : Deaf(j)' => Deaf(j)
  BY DEF Deaf, Bound, LeavesDeaf
<1>3. \A j \in Single : job'[j].st = "NONE" => ~Bound(j)'
  BY DEF IInv, DeafInv, Bound, LeavesDeaf
<1>4. ASSUME NEW j \in Single, Deaf(j)', NEW y \in hooks', y.pc # "bind"  PROVE y.job # j
  <2>1. index[Home[j]] # j /\ \A x \in hooks : x.pc # "bind" => x.job # j
    BY <1>2, <1>4 DEF IInv, DeafInv
  <2>2. y.e.s \in Session
    BY <1>4, EventFields DEF HookProcess
  <2>3. index[y.e.s] = j => y.e.s = Home[j]
    BY <2>2 DEF IInv, IndexInv
  <2>. QED
    BY <1>1, <1>4, <2>1, <2>3 DEF LeavesDeaf
<1>5. ASSUME NEW j \in unlinked'  PROVE Home[j] \in rearmed' \/ job'[j].st \in AtMostArmed
  <2>1. j \in Single /\ j \in unlinked
    BY <1>5 DEF LeavesDeaf, IInv, BarrierTypeOK
  <2>. QED
    BY <2>1 DEF IInv, DeafInv, Deaf, LeavesDeaf
<1>6. \A j \in Single : Deaf(j)' => index'[Home[j]] # j
  BY <1>2 DEF IInv, DeafInv, LeavesDeaf
<1>. QED
  BY <1>3, <1>4, <1>5, <1>6 DEF DeafInv

LEMMA QuietDeaf ==
    ASSUME IInv, JobPart({}), HookPart, UNCHANGED <<rearmed, unlinked>>
    PROVE  LeavesDeaf
<1>1. /\ \A j \in Job : job'[j] = job[j] \/ Moves(j, job[j], job'[j], {})
      /\ \A s \in Session : index'[s] = index[s] \/ index'[s] = NoJob
  BY JobPartSteps DEF JobSteps
<1>2. \A j \in Single : j \in Job /\ j # NoJob /\ Home[j] \in Session
  BY BarrierAssumption DEF Job
<1>3. ASSUME NEW j \in Single
      PROVE  /\ job'[j].target[Home[j]].cur = job[j].target[Home[j]].cur
             /\ job'[j].st = "NONE" => job[j].st = "NONE"
             /\ job[j].st \in AtMostArmed => job'[j].st \in AtMostArmed
  BY <1>1, <1>2 DEF Moves
<1>4. \A y \in hooks' : y \in hooks \/ (y.pc # "bind" /\ \E x \in hooks : Follows(x, y))
  BY HookPartBack
<1>5. ASSUME NEW y \in hooks', y.pc # "bind"
      PROVE  y.job \in {NoJob, index[y.e.s]} \/ \E x \in hooks : x.pc # "bind" /\ x.job = y.job
  BY <1>4, <1>5 DEF Follows
<1>. QED
  BY <1>1, <1>2, <1>3, <1>5 DEF LeavesDeaf

\* Nothing of the host moves: a save without an event, and a hook's progress.
LEMMA QuietKeeps ==
    ASSUME IInv, JobPart({}), HookPart, UNCHANGED <<turn, mode, sent, rearmed, unlinked>>, clean' \subseteq clean
    PROVE  HookInv' /\ RearmInv' /\ CleanInv' /\ IdleInv'
<1>1. /\ \A j \in Job : job'[j] = job[j] \/ Moves(j, job[j], job'[j], {})
      /\ job \in [Job -> JobRecord] /\ Barrier \subseteq Job
  BY JobPartSteps DEF JobSteps, IInv, BarrierTypeOK, Job
<1>2. /\ \A y \in hooks' : y \in hooks \/ (y.pc # "bind" /\ \E x \in hooks : Follows(x, y))
      /\ \A x \in hooks : x \in hooks' \/ (x.e.s \in clean' => x.pc \notin Pending)
                           \/ \E y \in hooks' : Follows(x, y)
      /\ \A s \in clean : Alone(s) => Alone(s)'
      /\ \A y \in hooks' : GoodHook(y)
  BY HookPartBack
<1>3. \A j \in Job : job'[j].keys \subseteq job[j].keys
  BY <1>1 DEF Moves
<1>4. \A b \in Barrier : \A s \in Session :
        /\ job'[b].target[s] = job[b].target[s]
        /\ IsActive(job'[b]) => IsActive(job[b]) /\ (job[b].creq => job'[b].creq)
  BY <1>1 DEF Moves
<1>5. HookInv'
  BY <1>2, <1>3 DEF IInv, HookInv, GoodHook, GoodEvent
<1>6. RearmInv'
  <2>1. \A x \in hooks : x.pc = "bind" => x.job \in Job
    BY DEF IInv, HookInv, GoodHook, Job
  <2>. QED
    BY <1>2, <1>3, <2>1 DEF IInv, RearmInv
<1>7. CleanInv'
  <2>1. ASSUME NEW s \in clean', NEW y \in hooks', y.e.s = s
        PROVE  /\ mode'[s] = "run" => y.e.kind \in {"Arm", "Prompt"}
               /\ y.e.kind = "Prompt" /\ y.pc \in Pending => \A j \in Job : y.e \notin job'[j].keys
               /\ \A b \in Barrier : Missed(y, b) /\ IsActive(job'[b]) => ~Stopped(job'[b].target[s])
    <3>1. s \in clean /\ s \in Session
      BY <2>1 DEF IInv, BarrierTypeOK
    <3>2. CASE y \in hooks
      BY <1>3, <1>4, <2>1, <3>1, <3>2 DEF IInv, CleanInv
    <3>3. CASE \E x \in hooks : Follows(x, y)
      <4>1. PICK x \in hooks : Follows(x, y)
        BY <3>3
      <4>2. x.e = y.e /\ x.e.s = s
        BY <2>1, <4>1 DEF Follows
      <4>3. mode'[s] = "run" => y.e.kind \in {"Arm", "Prompt"}
        BY <3>1, <4>2 DEF IInv, CleanInv
      <4>4. y.e.kind = "Prompt" /\ y.pc \in Pending => \A j \in Job : y.e \notin job'[j].keys
        BY <1>3, <3>1, <4>1, <4>2 DEF IInv, CleanInv, Follows
      <4>5. ASSUME NEW b \in Barrier, Missed(y, b), IsActive(job'[b])  PROVE ~Stopped(job'[b].target[s])
        <5>1. IsActive(job[b]) /\ job'[b].target[s] = job[b].target[s]
          BY <1>4, <3>1, <4>5
        <5>2. Missed(x, b) \/ ~Stopped(job[b].target[s])
          BY <3>1, <4>1, <4>2, <4>5, <5>1 DEF Follows
        <5>. QED
          BY <3>1, <4>2, <5>1, <5>2 DEF IInv, CleanInv
      <4>. QED
        BY <4>3, <4>4, <4>5
    <3>. QED
      BY <1>2, <3>2, <3>3
  <2>. QED
    BY <1>2, <2>1 DEF IInv, CleanInv
<1>8. IdleInv'
  <2>1. ASSUME NEW b \in Barrier, NEW s \in Targets[b] \cap clean',
               IsActive(job'[b]), ~job'[b].creq, Stopped(job'[b].target[s]), mode'[s] = "run"
        PROVE  Reporting(s)'
    <3>1. s \in Targets[b] \cap clean /\ s \in Session
      BY <2>1, BarrierAssumption
    <3>2. Reporting(s)
      BY <1>4, <2>1, <3>1 DEF IInv, IdleInv
    <3>3. PICK x \in hooks : x.e.s = s /\ x.e.kind = "Prompt" /\ x.pc \in Pending
      BY <3>2 DEF Reporting
    <3>4. x \in hooks' \/ \E y \in hooks' : Follows(x, y)
      BY <1>2, <2>1, <3>3
    <3>. QED
      BY <3>3, <3>4 DEF Reporting, Follows
  <2>. QED
    BY <2>1 DEF IdleInv
<1>. QED
  BY <1>5, <1>6, <1>7, <1>8

\* The rest of the types, which no lemma above needs.
OwnTypes ==
    /\ marks \in [Job -> SUBSET [e : Event, by : Job \cup {NoJob}]]
    /\ worker \subseteq Job /\ late \subseteq Job

LEMMA QuietStep ==
    ASSUME IInv, JobPart({}), HookPart, UNCHANGED <<turn, mode, sent, rearmed, unlinked>>, clean' \subseteq clean, OwnTypes'
    PROVE  IInv' /\ Steps
<1>1. JobInv' /\ IndexInv' /\ OwnInv' /\ Steps
  BY JobPartKeeps
<1>2. HookInv' /\ RearmInv' /\ CleanInv' /\ IdleInv'
  BY QuietKeeps
<1>3. BarrierTypeOK'
  BY JobPartSteps, HookPartBack DEF IInv, BarrierTypeOK, OwnTypes
<1>4. DeafInv'
  BY HookPartBack, QuietDeaf, DeafKeeps
<1>. QED
  BY <1>1, <1>2, <1>3, <1>4 DEF IInv

-----------------------------------------------------------------------------
(* Cancellation, expiry, and the supervisor.                               *)

LEMMA GoodNow ==
    ASSUME IInv, NEW j \in Job
    PROVE  /\ GoodJob(j, job[j]) /\ job[j] \in JobRecord /\ job[j].st \in State /\ job[j].creq \in BOOLEAN
           /\ Quiet(job[j], job[j])
BY GoodParts DEF IInv, JobInv, Quiet, Same

LEMMA JobKeeps ==
    ASSUME IInv, NEW j \in Job,
           CancelJob(j) \/ Worker(j) \/ Tick(j) \/ Refresh(j) \/ Authorize(j) \/ Claim(j) \/ Settle(j)
    PROVE  IInv' /\ Steps
<1>. DEFINE r == job[j]
<1>1. r \in JobRecord /\ r.st \in State /\ Quiet(r, r)
  BY GoodNow
<1>2. OwnTypes
  BY DEF IInv, BarrierTypeOK, OwnTypes
<1>3. IsActive(r) => Quiet(r, CancelGrant(r))
  BY <1>1, GrantFields DEF Quiet, IsActive
<1>4. IsActive(r) => Quiet(r, Close(r, "FAILED"))
  BY <1>1, CloseFields DEF Quiet, IsActive, State, Terminal
<1>5. ASSUME HookPart, OwnTypes', UNCHANGED <<turn, mode, sent, clean, rearmed, unlinked>>,
             NEW q, Quiet(r, q), UpdateJob(j, q)
      PROVE  IInv' /\ Steps
  BY <1>5, QuietPart, QuietStep
<1>6. hooks' = hooks => HookPart
  BY DEF HookPart
<1>7. CASE CancelJob(j)
  <2>1. /\ HookPart /\ OwnTypes' /\ UNCHANGED <<turn, mode, sent, clean, rearmed, unlinked>> /\ IsActive(r)
        /\ (UpdateJob(j, RequestCancel(r)) /\ Unresolved(r)) \/ UpdateJob(j, CancelGrant(r))
    BY <1>2, <1>6, <1>7 DEF CancelJob, OwnTypes, hostVars
  <2>2. Unresolved(r) => Quiet(r, RequestCancel(r))
    BY <1>1, RequestFields DEF Quiet, Unresolved
  <2>. QED
    BY <1>3, <1>5, <2>1, <2>2
<1>8. CASE Worker(j)
  <2>1. HookPart /\ UNCHANGED <<turn, mode, sent, clean, rearmed, unlinked>> /\ OwnTypes'
    BY <1>2, <1>6, <1>8 DEF Worker, OwnTypes, hostVars
  <2>2. CASE IsActive(r)
    BY <1>3, <1>5, <1>8, <2>1, <2>2 DEF Worker
  <2>3. CASE ~IsActive(r)
    <3>1. JobPart({})
      BY <1>8, <2>3 DEF Worker, JobPart, storeVars
    <3>. QED
      BY <2>1, <3>1, QuietStep
  <2>. QED
    BY <2>2, <2>3
<1>9. CASE Tick(j)
  <2>1. JobPart({}) /\ HookPart /\ UNCHANGED <<turn, mode, sent, clean, rearmed, unlinked>> /\ OwnTypes'
    BY <1>2, <1>6, <1>9 DEF Tick, OwnTypes, hostVars, storeVars, JobPart
  <2>. QED
    BY <2>1, QuietStep
<1>10. CASE Refresh(j)
  BY <1>2, <1>4, <1>5, <1>6, <1>10 DEF Refresh, OwnTypes, hostVars
<1>11. CASE Authorize(j)
  <2>1. /\ HookPart /\ OwnTypes' /\ UNCHANGED <<turn, mode, sent, clean, rearmed, unlinked>> /\ r.st = "STOP_OBSERVED"
        /\ UpdateJob(j, [r EXCEPT !.fresh = TRUE]) \/ UpdateJob(j, Close(r, "FAILED"))
    BY <1>2, <1>6, <1>11 DEF Authorize, OwnTypes, hostVars
  <2>2. Quiet(r, [r EXCEPT !.fresh = TRUE])
    BY <1>1 DEF Quiet, Same, JobRecord
  <2>. QED
    BY <1>4, <1>5, <2>1, <2>2 DEF IsActive, Terminal
<1>12. CASE Claim(j)
  <2>1. /\ HookPart /\ OwnTypes' /\ UNCHANGED <<turn, mode, sent, clean, rearmed, unlinked>> /\ r.st = "STOP_OBSERVED"
        /\ UpdateJob(j, [r EXCEPT !.st = "ACTION"])
    BY <1>2, <1>6, <1>12 DEF Claim, OwnTypes, hostVars
  <2>2. Quiet(r, [r EXCEPT !.st = "ACTION"])
    BY <1>1, <2>1 DEF Quiet, Same, JobRecord, State
  <2>. QED
    BY <1>5, <2>1, <2>2
<1>13. CASE Settle(j)
  <2>1. /\ HookPart /\ OwnTypes' /\ UNCHANGED <<turn, mode, sent, clean, rearmed, unlinked>> /\ r.st = "ACTION"
        /\ UpdateJob(j, Close(r, "COMPLETE")) \/ UpdateJob(j, CancelGrant(r))
    BY <1>2, <1>6, <1>13 DEF Settle, OwnTypes, hostVars, CancelGrant
  <2>2. Quiet(r, Close(r, "COMPLETE"))
    BY <1>1, <2>1, CloseFields DEF Quiet, State, Terminal
  <2>. QED
    BY <1>3, <1>5, <2>1, <2>2 DEF IsActive, Terminal
<1>. QED
  BY <1>7, <1>8, <1>9, <1>10, <1>11, <1>12, <1>13

-----------------------------------------------------------------------------
(* The host.                                                               *)

\* A hook begins for an event; the events of a clean session come one at a time.
LEMMA HostKeeps ==
    ASSUME IInv, UNCHANGED <<job, index, marks, worker, late, rearmed, unlinked>>, clean' \subseteq clean,
           NEW s \in Session, NEW e \in Event, e.s = s, e.kind # "Arm", GoodEvent(e)',
           turn' \in [Session -> Turn], \A u \in Session : turn'[u] >= turn[u],
           mode' \in [Session -> {"idle", "run", "rerun", "rested", "ended"}],
           \A u \in Session : u # s => mode'[u] = mode[u],
           hooks' = hooks \cup {Process("capture", e, NoJob)}, sent' \subseteq sent \cup {e},
           s \in clean' => /\ ~Busy(s)
                           /\ mode'[s] = "run" => e.kind = "Prompt"
                           /\ e.kind = "Prompt" => e.t > turn[s]
    PROVE  IInv' /\ Steps
<1>. DEFINE x == Process("capture", e, NoJob)
<1>1. x \in HookProcess /\ x.e = e /\ x.pc = "capture" /\ x.job = NoJob /\ x.mark = NoJob /\ ~x.err
  BY DEF HookProcess, Process
<1>2. hooks' = hooks \cup {x}
  OBVIOUS
<1>. HIDE DEF x
<1>3. JobPart({})
  BY DEF JobPart
<1>4. JobInv' /\ IndexInv' /\ OwnInv' /\ Steps
  BY <1>3, JobPartKeeps
<1>5. BarrierTypeOK'
  BY <1>1, <1>2 DEF IInv, BarrierTypeOK
<1>6. \A f \in Event : GoodEvent(f) => GoodEvent(f)'
  <2>1. ASSUME NEW f \in Event, GoodEvent(f)  PROVE GoodEvent(f)'
    <3>1. f.s \in Session /\ f.t \in Nat /\ turn[f.s] \in Nat /\ turn'[f.s] \in Nat
      BY EventFields, BlankTyped DEF IInv, BarrierTypeOK
    <3>2. turn'[f.s] >= turn[f.s]
      BY <3>1
    <3>. QED
      BY <2>1, <3>1, <3>2 DEF GoodEvent
  <2>. QED
    BY <2>1
<1>7. HookInv'
  <2>1. \A u \in Session : turn'[u] # 0
    <3>1. ASSUME NEW u \in Session  PROVE turn'[u] # 0
      <4>1. turn[u] \in Nat /\ turn'[u] \in Nat /\ turn[u] # 0 /\ turn'[u] >= turn[u]
        BY BlankTyped DEF IInv, BarrierTypeOK, HookInv
      <4>. QED
        BY <4>1
    <3>. QED
      BY <3>1
  <2>2. \A f \in sent' : GoodEvent(f)'
    BY <1>6 DEF IInv, BarrierTypeOK, HookInv
  <2>3. \A y \in hooks' : GoodHook(y)'
    <3>1. \A y \in hooks : y.e \in Event
      BY DEF IInv, BarrierTypeOK, HookProcess
    <3>. QED
      BY <1>1, <1>2, <1>6, <3>1 DEF IInv, HookInv, GoodHook
  <2>4. ASSUME NEW j \in Job, NEW f \in job'[j].keys  PROVE f.t <= turn'[f.s]
    <3>1. f \in Event /\ f.t <= turn[f.s]
      BY GoodNow, RecordFields DEF IInv, HookInv
    <3>2. f.s \in Session /\ f.t \in Nat /\ turn[f.s] \in Nat /\ turn'[f.s] \in Nat /\ turn'[f.s] >= turn[f.s]
      BY <3>1, EventFields, BlankTyped DEF IInv, BarrierTypeOK
    <3>. QED
      BY <3>1, <3>2
  <2>. QED
    BY <2>1, <2>2, <2>3, <2>4 DEF HookInv
<1>8. RearmInv'
  BY <1>1, <1>2 DEF IInv, RearmInv
<1>9. CleanInv'
  <2>1. ASSUME NEW u \in clean', u # s, NEW y \in hooks', y.e.s = u  PROVE y \in hooks
    BY <1>1, <1>2, <2>1
  <2>2. ASSUME s \in clean', NEW y \in hooks', y.e.s = s  PROVE y = x
    BY <1>2, <2>2 DEF Busy
  <2>3. ASSUME e.kind = "Prompt", s \in clean', NEW j \in Job  PROVE e \notin job[j].keys
    <3>1. e.t > turn[s] /\ turn[s] \in Nat /\ e.t \in Nat
      BY <2>3, EventFields, BlankTyped DEF IInv, BarrierTypeOK
    <3>. QED
      BY <3>1 DEF IInv, HookInv
  <2>4. ASSUME NEW u \in clean'
        PROVE  /\ Alone(u)'
               /\ \A y \in hooks' : y.e.s = u =>
                    /\ mode'[u] = "run" => y.e.kind \in {"Arm", "Prompt"}
                    /\ y.e.kind = "Prompt" /\ y.pc \in Pending => \A j \in Job : y.e \notin job'[j].keys
                    /\ \A b \in Barrier : Missed(y, b) /\ IsActive(job'[b]) => ~Stopped(job'[b].target[u])
    <3>1. u \in clean /\ u \in Session
      BY DEF IInv, BarrierTypeOK
    <3>2. CASE u # s
      BY <2>1, <3>1, <3>2 DEF IInv, CleanInv, Alone
    <3>3. CASE u = s
      BY <1>1, <2>2, <2>3, <3>1, <3>3 DEF Alone, Missed
    <3>. QED
      BY <3>2, <3>3
  <2>. QED
    BY <2>4 DEF CleanInv
<1>10. IdleInv'
  <2>1. ASSUME NEW b \in Barrier, NEW u \in Targets[b] \cap clean',
               IsActive(job'[b]), ~job'[b].creq, Stopped(job'[b].target[u]), mode'[u] = "run"
        PROVE  Reporting(u)'
    <3>1. u \in Targets[b] \cap clean /\ u \in Session
      BY <2>1, BarrierAssumption
    <3>2. CASE u # s
      BY <1>2, <2>1, <3>1, <3>2 DEF IInv, IdleInv, Reporting
    <3>3. CASE u = s
      BY <1>1, <1>2, <2>1, <3>3 DEF Reporting, Pending
    <3>. QED
      BY <3>2, <3>3
  <2>. QED
    BY <2>1 DEF IdleInv
<1>11. DeafInv'
  <2>1. LeavesDeaf
    BY <1>1, <1>2 DEF LeavesDeaf
  <2>. QED
    BY <1>5, <2>1, DeafKeeps DEF BarrierTypeOK
<1>. QED
  BY <1>4, <1>5, <1>7, <1>8, <1>9, <1>10, <1>11 DEF IInv

LEMMA TurnTyped ==
    ASSUME IInv, NEW s \in Session
    PROVE  /\ turn[s] \in Turn /\ turn[s] \in Nat /\ turn[s] # 0 /\ s \in DOMAIN turn
           /\ turn \in [Session -> Turn] /\ \A t \in Nat : t <= MaxTurn[s] => t \in Turn
<1>1. turn \in [Session -> Turn] /\ turn[s] # 0
  BY DEF IInv, BarrierTypeOK, HookInv
<1>2. MaxTurn[s] \in Nat
  BY BarrierAssumption
<1>. QED
  BY <1>1, <1>2, BlankTyped DEF Turn

\* What Start leaves of the bookkeeping of a clean session.
LEMMA StartClean ==
    ASSUME IInv, NEW pc, NEW e \in Event, NEW j, Start(pc, e, j)
    PROVE  /\ clean' \subseteq clean /\ (e.s \in clean' => ~Busy(e.s))
           /\ sent' \subseteq sent \cup {e} /\ hooks' = hooks \cup {Process(pc, e, j)}
BY DEF Start, Disturb

LEMMA EvTyped ==
    ASSUME NEW k \in {"Arm", "Prompt", "Stop", "SessionEnd"}, NEW s \in Session, NEW t \in Turn,
           NEW again \in BOOLEAN, NEW w \in Workspace[s]
    PROVE  LET e == Ev(k, s, t, again, w)
           IN e \in Event /\ e.kind = k /\ e.s = s /\ e.t = t /\ e.again = again /\ e.ws = w
BY DEF Ev, Event, Directory

LEMMA DeliverKeeps ==
    ASSUME IInv, NEW s \in Session, NEW e \in Event, e.s = s, e.kind # "Arm", GoodEvent(e)', Deliver(e),
           turn' \in [Session -> Turn], \A u \in Session : turn'[u] >= turn[u],
           mode' \in [Session -> {"idle", "run", "rerun", "rested", "ended"}],
           \A u \in Session : u # s => mode'[u] = mode[u],
           mode'[s] = "run" => e.kind = "Prompt", e.kind = "Prompt" => e.t > turn[s]
    PROVE  IInv' /\ Steps
BY StartClean, HostKeeps DEF Deliver, storeVars

LEMMA PromptKeeps == ASSUME IInv, NEW s \in Session, Prompt(s)  PROVE IInv' /\ Steps
<1>1. PICK w \in Workspace[s] : Deliver(Ev("Prompt", s, turn[s] + 1, FALSE, w))
  BY DEF Prompt
<1>2. turn[s] + 1 \in Turn /\ turn' = [turn EXCEPT ![s] = @ + 1] /\ mode' = [mode EXCEPT ![s] = "run"]
  <2>1. turn[s] < MaxTurn[s] /\ MaxTurn[s] \in Nat /\ turn[s] \in Nat
    BY TurnTyped, BarrierAssumption DEF Prompt
  <2>. QED
    BY <2>1, TurnTyped DEF Prompt
<1>3. PICK e \in Event : /\ e = Ev("Prompt", s, turn[s] + 1, FALSE, w)
                         /\ e.kind = "Prompt" /\ e.s = s /\ e.t = turn[s] + 1 /\ ~e.again
  <2>1. Ev("Prompt", s, turn[s] + 1, FALSE, w) \in Event
    BY <1>2, EvTyped
  <2>. QED
    BY <2>1 DEF Ev
<1>4. /\ turn' \in [Session -> Turn] /\ turn'[s] = turn[s] + 1
      /\ \A u \in Session : turn[u] \in Nat /\ (u # s => turn'[u] = turn[u])
  BY <1>2, BlankTyped DEF IInv, BarrierTypeOK
<1>5. /\ mode' \in [Session -> {"idle", "run", "rerun", "rested", "ended"}]
      /\ \A u \in Session : u # s => mode'[u] = mode[u]
  BY <1>2 DEF IInv, BarrierTypeOK
<1>6. GoodEvent(e)' /\ e.t > turn[s] /\ \A u \in Session : turn'[u] >= turn[u]
  <2>1. turn[s] \in Nat /\ turn'[e.s] = e.t /\ e.t = turn[s] + 1
    BY <1>3, <1>4
  <2>2. e.t # 0 /\ e.t <= e.t /\ e.t > turn[s]
    BY <2>1
  <2>3. \A u \in Session : turn'[u] >= turn[u]
    BY <1>4, <2>1
  <2>. QED
    BY <1>3, <2>1, <2>2, <2>3 DEF GoodEvent
<1>. QED
  BY <1>1, <1>3, <1>4, <1>5, <1>6, DeliverKeeps

\* An event about the turn a session is in.
LEMMA CurrentKeeps ==
    ASSUME IInv, NEW s \in Session, NEW k \in {"Stop", "SessionEnd"}, NEW again \in BOOLEAN,
           NEW w \in Workspace[s], Deliver(Ev(k, s, turn[s], again, w)), UNCHANGED turn,
           NEW m \in {"idle", "rested", "ended"}, mode' = [mode EXCEPT ![s] = m]
    PROVE  IInv' /\ Steps
<1>1. PICK e \in Event : e = Ev(k, s, turn[s], again, w) /\ e.kind = k /\ e.s = s /\ e.t = turn[s]
  <2>1. Ev(k, s, turn[s], again, w) \in Event
    BY TurnTyped, EvTyped
  <2>. QED
    BY <2>1 DEF Ev
<1>2. turn \in [Session -> Turn] /\ turn[s] # 0 /\ \A u \in Session : turn[u] \in Nat
  BY TurnTyped
<1>3. /\ mode' \in [Session -> {"idle", "run", "rerun", "rested", "ended"}] /\ mode'[s] = m
      /\ \A u \in Session : u # s => mode'[u] = mode[u]
  BY DEF IInv, BarrierTypeOK
<1>4. GoodEvent(e)' /\ \A u \in Session : turn'[u] >= turn[u]
  BY <1>1, <1>2 DEF GoodEvent
<1>5. Deliver(e)
  BY <1>1
<1>. QED
  BY <1>1, <1>2, <1>3, <1>4, <1>5, DeliverKeeps

LEMMA HostNextKeeps == ASSUME IInv, HostNext  PROVE IInv' /\ Steps
<1>1. PICK s \in Session : Prompt(s) \/ Stop(s) \/ SessionEnd(s) \/ Continue(s)
  BY DEF HostNext
<1>2. mode \in [Session -> {"idle", "run", "rerun", "rested", "ended"}]
  BY DEF IInv, BarrierTypeOK
<1>3. CASE Stop(s)
  <2>1. PICK w \in Workspace[s] : \E again \in BOOLEAN : Deliver(Ev("Stop", s, turn[s], again, w))
    BY <1>3 DEF Stop
  <2>2. PICK m \in {"idle", "rested", "ended"} : mode' = [mode EXCEPT ![s] = m]
    BY <1>2, <1>3 DEF Stop
  <2>3. UNCHANGED turn
    BY <1>3 DEF Stop
  <2>. QED
    BY <2>1, <2>2, <2>3, CurrentKeeps
<1>4. CASE SessionEnd(s)
  <2>1. PICK w \in Workspace[s] : Deliver(Ev("SessionEnd", s, turn[s], FALSE, w))
    BY <1>4 DEF SessionEnd
  <2>2. UNCHANGED turn /\ mode' = [mode EXCEPT ![s] = "ended"]
    BY <1>4 DEF SessionEnd
  <2>. QED
    BY <2>1, <2>2, CurrentKeeps
<1>5. CASE Continue(s)
  <2>1. UNCHANGED <<job, index, marks, worker, late, hooks, turn, sent, clean, rearmed, unlinked>>
    BY <1>5 DEF Continue, storeVars
  <2>2. mode' = [mode EXCEPT ![s] = "rerun"]
    BY <1>5 DEF Continue
  <2>3. /\ mode' \in [Session -> {"idle", "run", "rerun", "rested", "ended"}]
        /\ \A u \in Session : mode'[u] = "run" => mode[u] = "run"
    BY <1>2, <2>2
  <2>4. BarrierTypeOK'
    BY <2>1, <2>3 DEF IInv, BarrierTypeOK
  <2>5. JobPart({})
    BY <2>1 DEF JobPart
  <2>6. JobInv' /\ IndexInv' /\ OwnInv' /\ Steps
    BY <2>1, <2>5, JobPartKeeps
  <2>7. HookInv' /\ RearmInv'
    BY <2>1 DEF IInv, HookInv, RearmInv, GoodHook, GoodEvent
  <2>8. clean \subseteq Session /\ \A b \in Barrier : Targets[b] \subseteq Session
    BY BarrierAssumption DEF IInv, BarrierTypeOK
  <2>9. CleanInv' /\ IdleInv'
    BY <2>1, <2>3, <2>8 DEF IInv, CleanInv, IdleInv, Alone, Missed, Reporting
  <2>10. LeavesDeaf
    BY <2>1 DEF LeavesDeaf
  <2>11. DeafInv'
    BY <2>4, <2>10, DeafKeeps DEF BarrierTypeOK
  <2>. QED
    BY <2>4, <2>6, <2>7, <2>9, <2>11 DEF IInv
<1>. QED
  BY <1>1, <1>3, <1>4, <1>5, PromptKeeps

LEMMA RedeliverKeeps == ASSUME IInv, NEW e \in sent, Redeliver(e)  PROVE IInv' /\ Steps
<1>1. e \in Event /\ e.kind # "Arm" /\ GoodEvent(e)
  BY DEF IInv, BarrierTypeOK, HookInv, Redeliver
<1>2. e.s \in Session /\ \A u \in Session : turn[u] \in Nat
  BY <1>1, EventFields, TurnTyped
<1>3. /\ UNCHANGED <<job, index, marks, worker, late, turn, mode, sent, rearmed, unlinked>>
      /\ clean' = clean \ {e.s} /\ hooks' = hooks \cup {Process("capture", e, NoJob)}
  BY DEF Redeliver, Again, Disturb, storeVars, hostVars
<1>4. GoodEvent(e)' /\ \A u \in Session : turn'[u] >= turn[u]
  BY <1>1, <1>2, <1>3 DEF GoodEvent
<1>5. turn \in [Session -> Turn] /\ mode \in [Session -> {"idle", "run", "rerun", "rested", "ended"}]
  BY DEF IInv, BarrierTypeOK
<1>. QED
  BY <1>1, <1>2, <1>3, <1>4, <1>5, HostKeeps

-----------------------------------------------------------------------------
(* A lifecycle hook's own progress.                                        *)

LEMMA HookTyped ==
    ASSUME IInv, NEW x \in hooks
    PROVE  /\ x \in HookProcess /\ GoodHook(x) /\ x.e \in Event /\ x.e.s \in Session
           /\ x.job \in Job \cup {NoJob} /\ x.mark \in Job \cup {NoJob} /\ x.err \in BOOLEAN
           /\ x.pc \in {"bind", "capture", "mark", "update", "launch", "cleanup"}
BY EventFields DEF IInv, BarrierTypeOK, HookInv, HookProcess

\* A hook that goes on differs in where it is and what it has found.
LEMMA NextHook ==
    ASSUME IInv, NEW x \in hooks, NEW y \in HookProcess, y.e = x.e, x.pc # "bind", y.pc # "bind",
           y.pc = "mark" => y.mark = NoJob /\ ~y.err, y.pc # "capture",
           y.pc \in {"launch", "cleanup"} => y.mark # NoJob
    PROVE  GoodHook(y)
BY HookTyped DEF GoodHook

LEMMA IndexTyped == ASSUME IInv, NEW s \in Session  PROVE index[s] \in Job \cup {NoJob} /\ Lookup(s) \in Job \cup {NoJob}
BY DEF IInv, BarrierTypeOK, Lookup

LEMMA JobNotNone == NoJob \notin Job
BY BarrierAssumption DEF Job

\* A barrier that is bound and not closed is found under its clean sessions.
LEMMA ActiveVisible ==
    ASSUME IInv, NEW b \in Barrier, NEW s \in Targets[b] \cap clean, IsActive(job[b]), Stopped(job[b].target[s])
    PROVE  index[s] = b /\ Visible(b) /\ Lookup(s) = b
<1>1. GoodBarrier(b, job[b]) /\ job[b].st \in State /\ b \in Job
  BY GoodNow DEF GoodJob, Job
<1>2. job[b].st \notin {"NONE", "ARM_PENDING_BIND"}
  BY <1>1, BlankTyped DEF GoodBarrier
<1>3. job[b].ready /\ job[b].committed
  BY <1>1, <1>2 DEF GoodBarrier, ValidBarrier, IsActive, State
<1>4. s \in Owned(b) /\ s \notin rearmed
  BY <1>3 DEF IInv, OwnInv, RearmInv
<1>. QED
  BY <1>1, <1>3, <1>4, JobNotNone DEF Owned, Visible, Lookup

LEMMA CaptureKeeps == ASSUME IInv, NEW x \in hooks, Capture(x)  PROVE IInv' /\ Steps
<1>. DEFINE j == Lookup(x.e.s)
            pc == IF Revoking(x.e, j) THEN "mark" ELSE "update"
            y == [x EXCEPT !.job = j, !.pc = pc]
<1>1. x.pc = "capture" /\ hooks' = (hooks \ {x}) \cup {y}
  BY DEF Capture, Advance
<1>2. UNCHANGED <<job, index, marks, worker, late, turn, mode, sent, clean, rearmed, unlinked>>
  BY DEF Capture, storeVars, hostVars
<1>3. /\ x \in HookProcess /\ x.e \in Event /\ x.e.s \in Session /\ x.mark = NoJob /\ ~x.err
      /\ j \in Job \cup {NoJob} /\ pc \in {"mark", "update"}
  BY <1>1, HookTyped, IndexTyped DEF GoodHook
<1>. HIDE DEF j, pc
<1>4. y \in HookProcess /\ y.e = x.e /\ y.pc = pc /\ y.job = j /\ y.mark = NoJob /\ ~y.err
  BY <1>3 DEF HookProcess
<1>. HIDE DEF y
<1>5. GoodHook(y)
  BY <1>1, <1>3, <1>4, NextHook
<1>6. ASSUME NEW b \in Barrier, Missed(y, b), x.e.s \in clean, IsActive(job[b]), Stopped(job[b].target[x.e.s])
      PROVE  FALSE
  BY <1>3, <1>4, <1>6, ActiveVisible DEF Missed, j
<1>7. Follows(x, y)
  BY <1>1, <1>3, <1>4, <1>5, <1>6 DEF Follows, Pending, Lookup, j
<1>8. HookPart /\ JobPart({}) /\ OwnTypes'
  BY <1>1, <1>2, <1>7 DEF HookPart, JobPart, OwnTypes, IInv, BarrierTypeOK
<1>. QED
  BY <1>2, <1>8, QuietStep

LEMMA MarkKeeps == ASSUME IInv, NEW x \in hooks, Mark(x)  PROVE IInv' /\ Steps
<1>. DEFINE now == Lookup(x.e.s)
            j == IF now # NoJob THEN now ELSE x.job
<1>1. /\ x.pc = "mark" /\ x \in HookProcess /\ x.e \in Event /\ x.e.s \in Session /\ x.mark = NoJob /\ ~x.err
      /\ j \in Job \cup {NoJob} /\ x.job \in Job \cup {NoJob}
  BY HookTyped, IndexTyped DEF GoodHook, Mark
<1>2. UNCHANGED <<job, index, worker, late, turn, mode, sent, rearmed, unlinked>> /\ clean' \subseteq clean
  BY DEF Mark, Disturb, storeVars, hostVars
<1>3. JobPart({})
  BY <1>2 DEF JobPart
<1>4. ASSUME NEW m \in Job \cup {NoJob}, NEW f \in BOOLEAN,
             hooks' = (hooks \ {x}) \cup {[x EXCEPT !.pc = "update", !.mark = m, !.err = f]}
      PROVE  HookPart
  <2>. DEFINE y == [x EXCEPT !.pc = "update", !.mark = m, !.err = f]
  <2>1. y \in HookProcess /\ y.e = x.e /\ y.pc = "update" /\ y.job = x.job
    BY <1>1 DEF HookProcess
  <2>2. hooks' = (hooks \ {x}) \cup {y}
    BY <1>4
  <2>. HIDE DEF y
  <2>3. Follows(x, y)
    BY <1>1, <2>1, NextHook DEF Follows, Pending, Missed
  <2>. QED
    BY <2>2, <2>3 DEF HookPart
<1>5. HookPart /\ OwnTypes'
  <2>1. OwnTypes
    BY DEF IInv, BarrierTypeOK, OwnTypes
  <2>2. CASE Advance(x, [x EXCEPT !.pc = "update"]) /\ UNCHANGED marks
    <3>1. [x EXCEPT !.pc = "update"] = [x EXCEPT !.pc = "update", !.mark = NoJob, !.err = FALSE]
      BY <1>1 DEF HookProcess
    <3>. QED
      BY <1>2, <1>4, <2>1, <2>2, <3>1 DEF Advance, OwnTypes
  <2>3. CASE /\ Advance(x, [x EXCEPT !.pc = "update", !.mark = j]) /\ j # NoJob
             /\ marks' = [marks EXCEPT ![j] = @ \cup {[e |-> x.e, by |-> x.job]}]
    <3>1. [x EXCEPT !.pc = "update", !.mark = j] = [x EXCEPT !.pc = "update", !.mark = j, !.err = FALSE]
      BY <1>1 DEF HookProcess
    <3>2. [e |-> x.e, by |-> x.job] \in [e : Event, by : Job \cup {NoJob}]
      BY <1>1
    <3>3. marks' \in [Job -> SUBSET [e : Event, by : Job \cup {NoJob}]]
      BY <1>1, <2>1, <2>3, <3>2 DEF OwnTypes
    <3>. QED
      BY <1>1, <1>2, <1>4, <2>1, <2>3, <3>1, <3>3 DEF Advance, OwnTypes
  <2>4. CASE Advance(x, [x EXCEPT !.pc = "update", !.mark = j, !.err = TRUE]) /\ UNCHANGED marks
    BY <1>1, <1>2, <1>4, <2>1, <2>4 DEF Advance, OwnTypes
  <2>5. (now = NoJob /\ x.job = NoJob) \/ j # NoJob
    OBVIOUS
  <2>. QED
    BY <2>2, <2>3, <2>4, <2>5 DEF Mark
<1>. QED
  BY <1>2, <1>3, <1>5, QuietStep

LEMMA EndsHook ==
    ASSUME IInv, NEW x \in hooks, hooks' = hooks \ {x}, x.e.s \in clean' => x.pc \notin Pending
    PROVE  HookPart
BY DEF HookPart

LEMMA RestKeeps ==
    ASSUME IInv, NEW x \in hooks, Launch(x) \/ Cleanup(x) \/ HookCrash(x)
    PROVE  IInv' /\ Steps
<1>1. x \in HookProcess /\ GoodHook(x) /\ x.e \in Event /\ x.mark \in Job \cup {NoJob}
  BY HookTyped
<1>2. OwnTypes
  BY DEF IInv, BarrierTypeOK, OwnTypes
<1>3. CASE Launch(x)
  <2>1. /\ x.pc = "launch" /\ hooks' = hooks \ {x} /\ UNCHANGED <<marks, late, turn, mode, sent, clean, rearmed, unlinked>>
    BY <1>3 DEF Launch, hostVars
  <2>2. x.mark \in Job
    BY <1>1, <2>1 DEF GoodHook
  <2>3. HookPart
    BY <2>1, EndsHook DEF Pending
  <2>4. CASE worker' = worker \cup {x.mark} /\ UNCHANGED storeVars
    <3>1. OwnTypes' /\ JobPart({})
      BY <1>2, <2>1, <2>2, <2>4 DEF OwnTypes, JobPart, storeVars
    <3>. QED
      BY <2>1, <2>3, <3>1, QuietStep
  <2>5. CASE /\ UNCHANGED worker
             /\ UpdateJob(x.mark, IF IsActive(job[x.mark]) THEN FailOrCancel(job[x.mark]) ELSE job[x.mark])
    <3>1. OwnTypes'
      BY <1>2, <2>1, <2>5 DEF OwnTypes
    <3>2. Quiet(job[x.mark], job[x.mark]) /\ job[x.mark] \in JobRecord
      BY <2>2, GoodNow
    <3>3. IsActive(job[x.mark]) => Quiet(job[x.mark], FailOrCancel(job[x.mark]))
      BY <3>2, FailOrCancelQuiet DEF IsActive
    <3>4. JobPart({})
      BY <2>2, <2>5, <3>2, <3>3, QuietPart
    <3>. QED
      BY <2>1, <2>3, <3>1, <3>4, QuietStep
  <2>. QED
    BY <1>3, <2>4, <2>5 DEF Launch
<1>4. CASE Cleanup(x)
  <2>1. /\ x.pc = "cleanup" /\ hooks' = hooks \ {x}
        /\ UNCHANGED <<job, index, worker, late, turn, mode, sent, clean, rearmed, unlinked>>
        /\ marks' = [marks EXCEPT ![x.mark] = @ \ {[e |-> x.e, by |-> x.job]}]
    BY <1>4 DEF Cleanup, hostVars, storeVars
  <2>2. OwnTypes' /\ JobPart({})
    BY <1>2, <2>1 DEF OwnTypes, JobPart
  <2>3. HookPart
    BY <2>1, EndsHook DEF Pending
  <2>. QED
    BY <2>1, <2>2, <2>3, QuietStep
<1>5. CASE HookCrash(x)
  <2>1. /\ hooks' = hooks \ {x} /\ clean' = clean \ {x.e.s}
        /\ UNCHANGED <<job, index, marks, worker, late, turn, mode, sent, rearmed, unlinked>>
    BY <1>5 DEF HookCrash, Disturb, hostVars, storeVars
  <2>2. OwnTypes' /\ JobPart({})
    BY <1>2, <2>1 DEF OwnTypes, JobPart
  <2>3. HookPart
    BY <2>1, EndsHook
  <2>. QED
    BY <2>1, <2>2, <2>3, QuietStep
<1>. QED
  BY <1>3, <1>4, <1>5

\* What becomes of a hook that has done its update.
LEMMA LeaveHooks ==
    ASSUME IInv, NEW x \in hooks, x.pc = "update", NEW applied, NEW err, NEW r, Leave(x, applied, err, r)
    PROVE  \E H \in SUBSET HookProcess :
             /\ hooks' = (hooks \ {x}) \cup H
             /\ \A y \in H : GoodHook(y) /\ y.e = x.e /\ y.job = x.job /\ y.pc \in {"launch", "cleanup"}
             /\ \A y, z \in H : y = z
<1>1. x \in HookProcess /\ x.e \in Event
  BY HookTyped
<1>2. CASE x.mark = NoJob
  <2>1. hooks' = (hooks \ {x}) \cup {}
    BY <1>2 DEF Leave
  <2>2. {} \in SUBSET HookProcess
    OBVIOUS
  <2>. QED
    BY <2>1, <2>2
<1>3. CASE x.mark # NoJob
  <2>. DEFINE pc == IF x.err \/ err \/ ~applied \/ Unresolved(r) THEN "launch" ELSE "cleanup"
              y == [x EXCEPT !.pc = pc]
  <2>1. hooks' = (hooks \ {x}) \cup {y}
    BY <1>3 DEF Leave, Advance
  <2>2. pc \in {"launch", "cleanup"}
    OBVIOUS
  <2>. HIDE DEF pc
  <2>3. y \in HookProcess /\ y.e = x.e /\ y.job = x.job /\ y.pc = pc /\ y.mark = x.mark
    BY <1>1, <2>2 DEF HookProcess
  <2>. HIDE DEF y
  <2>4. GoodHook(y)
    BY <1>3, <2>2, <2>3, NextHook
  <2>5. {y} \in SUBSET HookProcess /\ \A z \in {y} : GoodHook(z) /\ z.e = x.e /\ z.job = x.job /\ z.pc \in {"launch", "cleanup"}
    BY <2>2, <2>3, <2>4
  <2>. QED
    BY <2>1, <2>5
<1>. QED
  BY <1>2, <1>3

\* A job a hook may apply its event to.
LEMMA AppliesWhere ==
    ASSUME IInv, NEW x \in hooks, Applies(x)
    PROVE  /\ (x.job \in Job /\ job[x.job].st # "NONE") \/ x.job \in Single
           /\ x.job \in Barrier => job[x.job].ready /\ x.e.s \in Targets[x.job] /\ job[x.job].st # "NONE"
           /\ x.job \in Single => x.e.s = Home[x.job]
<1>1. x.job \in Job /\ x.e.s \in Session /\ index[x.e.s] = x.job /\ Visible(x.job)
  BY HookTyped DEF Applies
<1>2. x.job \in Barrier => GoodBarrier(x.job, job[x.job]) /\ x.job \notin Single
  BY GoodNow, BarrierAssumption DEF GoodJob, Job
<1>. QED
  BY <1>1, <1>2 DEF IInv, IndexInv, Visible, GoodBarrier, Job

\* What the update of a hook does to its job's file.
Reported(x) ==
    \/ UNCHANGED <<job, index>> /\ (x.e.s \in clean' => ~Applies(x))
    \/ \E q \in JobRecord, S \in SUBSET Session :
         /\ Applies(x) /\ x.job \in Job
         /\ EventMoves(x.job, job[x.job], q, x.e)
         /\ S \subseteq Owned(x.job) /\ (S = {} \/ ~IsActive(q))
         /\ Save(x.job, q, S)

LEMMA UpdateGoes ==
    ASSUME IInv, NEW x \in hooks, Update(x)
    PROVE  /\ x.pc = "update" /\ Reported(x) /\ clean' \subseteq clean
           /\ UNCHANGED <<marks, worker, late, turn, mode, sent, rearmed, unlinked>>
           /\ \E applied, err, r : Leave(x, applied, err, r)
<1>. DEFINE j == x.job
            r == job[j]
            full == Fault("capacity") /\ j \in Barrier /\ Cardinality(r.keys) >= EventCap
            p == Remember(ApplyTo(j, r, x.e, j \in late), x.e)
            q == IF full THEN FailOrCancel(r) ELSE p
            unlogged == IF j \in Barrier THEN FailOrCancel(q) ELSE q
<1>1. /\ x.pc = "update" /\ UNCHANGED <<marks, worker, late, turn, mode, sent, rearmed, unlinked>>
      /\ x.e \in Event /\ x.e.t # 0 /\ x.e.kind # "Arm"
  BY HookTyped DEF Update, GoodHook, GoodEvent, hostVars
<1>2. ASSUME Applies(x)
      PROVE  /\ j \in Job /\ EventMoves(j, r, q, x.e) /\ EventMoves(j, r, unlogged, x.e)
             /\ q \in JobRecord /\ unlogged \in JobRecord
  <2>1. /\ j \in Job /\ GoodJob(j, r) /\ r \in JobRecord
        /\ j \in Barrier => r.ready /\ x.e.s \in Targets[j] /\ r.st # "NONE"
        /\ j \in Single => x.e.s = Home[j]
    BY <1>2, AppliesWhere, GoodNow, HookTyped DEF Applies
  <2>2. EventMoves(j, r, p, x.e)
    <3>1. (j \in late) \in BOOLEAN
      OBVIOUS
    <3>2. EventMoves(j, r, ApplyTo(j, r, x.e, j \in late), x.e)
      BY <1>1, <2>1, <3>1, AppliedMoves
    <3>. QED
      BY <1>1, <2>1, <3>2, RememberMoves
  <2>3. j \in Barrier => EventMoves(j, r, FailOrCancel(r), x.e)
    <3>1. ASSUME j \in Barrier  PROVE EventMoves(j, r, FailOrCancel(r), x.e)
      <4>1. Quiet(r, FailOrCancel(r)) /\ (IsActive(FailOrCancel(r)) => FailOrCancel(r).creq)
        BY <2>1, <3>1, FailOrCancelQuiet
      <4>2. FailOrCancel(r).creq \in BOOLEAN
        BY <4>1, RecordFields DEF Quiet
      <4>3. FailOrCancel(r).st = "ACTION" => r.st = "ACTION"
        BY <2>1, CloseFields DEF FailOrCancel, Unresolved, State, Terminal
      <4>. QED
        BY <1>1, <2>1, <4>1, <4>2, <4>3, QuietEvent DEF Heard
    <3>. QED
      BY <3>1
  <2>4. EventMoves(j, r, q, x.e)
    BY <2>2, <2>3
  <2>. HIDE DEF q
  <2>5. j \in Barrier => EventMoves(j, r, FailOrCancel(q), x.e)
    <3>1. ASSUME j \in Barrier  PROVE EventMoves(j, r, FailOrCancel(q), x.e)
      <4>1. q \in JobRecord /\ GoodBarrier(j, q) /\ q.ready = r.ready
        BY <2>4, <3>1 DEF EventMoves, Moves, GoodJob
      <4>2. q.st # "NONE"
        BY <2>1, <3>1, <4>1 DEF GoodBarrier
      <4>3. Quiet(q, FailOrCancel(q)) /\ (IsActive(FailOrCancel(q)) => FailOrCancel(q).creq)
        BY <4>1, <4>2, FailOrCancelQuiet
      <4>4. FailOrCancel(q).creq \in BOOLEAN
        BY <4>3, RecordFields DEF Quiet
      <4>5. IsActive(FailOrCancel(q)) => FailOrCancel(q).st = q.st
        BY <4>1, CloseFields, RequestFields DEF FailOrCancel, IsActive, State, Terminal
      <4>. QED
        BY <1>1, <2>1, <2>4, <4>3, <4>4, <4>5, EventThenQuiet
    <3>. QED
      BY <3>1
  <2>6. EventMoves(j, r, unlogged, x.e)
    BY <2>4, <2>5
  <2>. HIDE DEF unlogged
  <2>. QED
    BY <2>1, <2>4, <2>6 DEF EventMoves, Moves, GoodJob
<1>. HIDE DEF q, unlogged, full
<1>3. CASE ~Applies(x) /\ Leave(x, FALSE, FALSE, NewJob) /\ UNCHANGED <<storeVars, clean>>
  BY <1>1, <1>3 DEF Reported, storeVars
<1>4. CASE /\ Applies(x) /\ UNCHANGED clean
           /\ \E gone \in Gone(j, q) : Save(j, q, gone) /\ Leave(x, TRUE, ~full /\ Short(j, q, gone), q)
  <2>1. PICK gone \in Gone(j, q) : Save(j, q, gone) /\ Leave(x, TRUE, ~full /\ Short(j, q, gone), q)
    BY <1>4
  <2>2. gone \in SUBSET Session /\ gone \subseteq Owned(j) /\ (gone = {} \/ ~IsActive(q))
    BY <1>2, <1>4, GoneWhat DEF IInv
  <2>3. Reported(x)
    BY <1>2, <1>4, <2>1, <2>2 DEF Reported
  <2>. QED
    BY <1>1, <1>4, <2>1, <2>3
<1>5. CASE /\ Applies(x) /\ UpdateJob(j, unlogged) /\ Leave(x, TRUE, TRUE, unlogged) /\ Disturb(x.e.s)
  <2>1. PICK gone \in Gone(j, unlogged) : Save(j, unlogged, gone)
    BY <1>5 DEF UpdateJob
  <2>2. gone \in SUBSET Session /\ gone \subseteq Owned(j) /\ (gone = {} \/ ~IsActive(unlogged))
    BY <1>2, <1>5, GoneWhat DEF IInv
  <2>3. Reported(x)
    BY <1>2, <1>5, <2>1, <2>2 DEF Reported
  <2>. QED
    BY <1>1, <1>5, <2>3 DEF Disturb
<1>6. CASE Leave(x, FALSE, TRUE, NewJob) /\ Disturb(x.e.s) /\ UNCHANGED storeVars
  BY <1>1, <1>6 DEF Reported, Disturb, storeVars
<1>. QED
  BY <1>3, <1>4, <1>5, <1>6 DEF Update, q, unlogged, full

LEMMA UpdateKeeps == ASSUME IInv, NEW x \in hooks, Update(x)  PROVE IInv' /\ Steps
<1>1. /\ x.pc = "update" /\ Reported(x) /\ clean' \subseteq clean
      /\ UNCHANGED <<marks, worker, late, turn, mode, sent, rearmed, unlinked>>
  BY UpdateGoes
<1>2. PICK H \in SUBSET HookProcess :
             /\ hooks' = (hooks \ {x}) \cup H
             /\ \A y \in H : GoodHook(y) /\ y.e = x.e /\ y.job = x.job /\ y.pc \in {"launch", "cleanup"}
             /\ \A y, z \in H : y = z
  BY <1>1, UpdateGoes, LeaveHooks
<1>3. /\ x \in HookProcess /\ x.e \in Event /\ x.e.s \in Session /\ GoodHook(x)
      /\ x.e.kind # "Arm" /\ hooks \subseteq HookProcess
  BY <1>1, HookTyped DEF GoodHook, IInv, BarrierTypeOK
<1>4. JobPart({x.e})
  BY <1>1 DEF Reported, JobPart, EventMoves
<1>5. /\ JobInv' /\ IndexInv' /\ OwnInv' /\ Steps
      /\ \A j \in Job : job'[j] = job[j] \/ Moves(j, job[j], job'[j], {x.e})
      /\ job' \in [Job -> JobRecord] /\ index' \in [Session -> Job \cup {NoJob}]
  BY <1>1, <1>4, JobPartKeeps, JobPartSteps DEF JobSteps
<1>6. /\ \A j \in Job : job'[j].keys \subseteq job[j].keys \cup {x.e}
      /\ \A b \in Barrier : \A s \in Session :
           /\ s # x.e.s => job'[b].target[s] = job[b].target[s]
           /\ IsActive(job'[b]) => IsActive(job[b]) /\ (job[b].creq => job'[b].creq)
  BY <1>5 DEF Moves, Job
<1>7. BarrierTypeOK'
  BY <1>1, <1>2, <1>5 DEF IInv, BarrierTypeOK
<1>8. \A y \in hooks' : y \in hooks \/ (y.e = x.e /\ GoodHook(y) /\ y.pc \in {"launch", "cleanup"})
  BY <1>2
<1>9. HookInv'
  <2>1. x.e.t <= turn[x.e.s]
    BY <1>3 DEF GoodHook, GoodEvent
  <2>2. \A y \in hooks' : GoodHook(y)'
    BY <1>1, <1>8 DEF IInv, HookInv, GoodHook, GoodEvent
  <2>3. \A j \in Job : \A e \in job'[j].keys : e.t <= turn'[e.s]
    BY <1>1, <1>6, <2>1 DEF IInv, HookInv
  <2>. QED
    BY <1>1, <2>2, <2>3 DEF IInv, HookInv, GoodEvent
<1>10. RearmInv'
  <2>1. \A y \in hooks : y.pc = "bind" => y.job \in Job /\ y.e.kind = "Arm"
    BY DEF IInv, HookInv, GoodHook, Job
  <2>. QED
    BY <1>1, <1>3, <1>6, <1>8, <2>1 DEF IInv, RearmInv
<1>11. CleanInv'
  <2>1. ASSUME NEW s \in clean'
        PROVE  /\ Alone(s)'
               /\ \A y \in hooks' : y.e.s = s =>
                    /\ mode'[s] = "run" => y.e.kind \in {"Arm", "Prompt"}
                    /\ y.e.kind = "Prompt" /\ y.pc \in Pending => \A j \in Job : y.e \notin job'[j].keys
                    /\ \A b \in Barrier : Missed(y, b) /\ IsActive(job'[b]) => ~Stopped(job'[b].target[s])
    <3>1. s \in clean /\ s \in Session
      BY <1>1 DEF IInv, BarrierTypeOK
    <3>2. Alone(s) /\ \A y \in hooks : y.e.s = s =>
                    /\ mode[s] = "run" => y.e.kind \in {"Arm", "Prompt"}
                    /\ y.e.kind = "Prompt" /\ y.pc \in Pending => \A j \in Job : y.e \notin job[j].keys
                    /\ \A b \in Barrier : Missed(y, b) /\ IsActive(job[b]) => ~Stopped(job[b].target[s])
      BY <3>1 DEF IInv, CleanInv
    <3>3. CASE s = x.e.s
      <4>1. \A y \in hooks' : y.e.s = s => y \in H
        BY <1>2, <3>2, <3>3 DEF Alone
      <4>2. Alone(s)'
        BY <1>2, <4>1 DEF Alone
      <4>3. \A y \in hooks' : y.e.s = s => y.e = x.e /\ y.pc \notin Pending \cup {"mark", "update"}
        BY <1>2, <4>1 DEF Pending
      <4>. QED
        BY <1>1, <3>2, <3>3, <4>2, <4>3 DEF Missed
    <3>4. CASE s # x.e.s
      <4>1. \A y \in hooks' : y.e.s = s => y \in hooks /\ y.e # x.e
        BY <1>8, <3>4
      <4>. QED
        BY <1>1, <1>6, <3>1, <3>2, <3>4, <4>1 DEF Alone
    <3>. QED
      BY <3>3, <3>4
  <2>. QED
    BY <2>1 DEF CleanInv
<1>12. IdleInv'
  <2>1. ASSUME NEW b \in Barrier, NEW s \in Targets[b] \cap clean',
               IsActive(job'[b]), ~job'[b].creq, Stopped(job'[b].target[s]), mode'[s] = "run"
        PROVE  Reporting(s)'
    <3>1. s \in Targets[b] \cap clean /\ s \in Session /\ b \in Job /\ IsActive(job[b]) /\ ~job[b].creq
      BY <1>1, <1>6, <2>1, BarrierAssumption DEF Job
    <3>2. CASE s # x.e.s
      <4>1. Reporting(s)
        BY <1>1, <1>6, <2>1, <3>1, <3>2 DEF IInv, IdleInv
      <4>2. PICK y \in hooks : y.e.s = s /\ y.e.kind = "Prompt" /\ y.pc \in Pending
        BY <4>1 DEF Reporting
      <4>. QED
        BY <1>2, <3>2, <4>2 DEF Reporting
    <3>3. CASE s = x.e.s
      <4>1. x.e.kind = "Prompt"
        BY <1>1, <1>3, <2>1, <3>1, <3>3 DEF IInv, CleanInv
      <4>2. \A j \in Job : x.e \notin job[j].keys
        BY <1>1, <3>1, <3>3, <4>1 DEF IInv, CleanInv, Pending
      <4>3. CASE job'[b].target[s] = job[b].target[s] /\ ~(Applies(x) /\ x.job = b)
        <5>1. Stopped(job[b].target[s])
          BY <2>1, <4>3
        <5>2. index[s] = b /\ Visible(b)
          BY <3>1, <5>1, ActiveVisible
        <5>3. x.job = b
          BY <1>1, <3>1, <3>3, <5>1 DEF IInv, CleanInv, Missed
        <5>4. Applies(x)
          BY <3>1, <3>3, <4>2, <5>2, <5>3, JobNotNone DEF Applies
        <5>. QED
          BY <4>3, <5>3, <5>4
      <4>4. CASE Applies(x) /\ x.job = b
        <5>1. PICK q \in JobRecord, S \in SUBSET Session : EventMoves(b, job[b], q, x.e) /\ Save(b, q, S)
          BY <1>1, <2>1, <3>3, <4>4 DEF Reported
        <5>2. job'[b] = q
          BY <3>1, <5>1 DEF Save, IInv, BarrierTypeOK
        <5>3. Heard(q, x.e)
          BY <5>1 DEF EventMoves
        <5>. QED
          BY <2>1, <3>3, <4>1, <5>2, <5>3 DEF Heard
      <4>5. x.job # b \/ ~Applies(x) => job'[b].target[s] = job[b].target[s]
        <5>1. CASE UNCHANGED <<job, index>>
          BY <5>1
        <5>2. CASE \E q \in JobRecord, S \in SUBSET Session : Applies(x) /\ x.job \in Job /\ Save(x.job, q, S)
          BY <3>1, <5>2 DEF Save, IInv, BarrierTypeOK
        <5>. QED
          BY <1>1, <5>1, <5>2 DEF Reported
      <4>. QED
        BY <4>3, <4>4, <4>5
    <3>. QED
      BY <3>2, <3>3
  <2>. QED
    BY <2>1 DEF IdleInv
<1>13. LeavesDeaf
  <2>1. ASSUME NEW j \in Single
        PROVE  /\ job'[j].target[Home[j]].cur = job[j].target[Home[j]].cur
               /\ job'[j].st = "NONE" => job[j].st = "NONE"
               /\ Deaf(j) => job'[j] = job[j]
               /\ index'[Home[j]] = j => index[Home[j]] = j
    <3>1. j \in Job /\ j # NoJob /\ Home[j] \in Session
      BY BarrierAssumption DEF Job
    <3>2. index'[Home[j]] = index[Home[j]] \/ index'[Home[j]] = NoJob
      BY <1>4, <3>1, JobPartSteps
    <3>3. /\ job'[j].target[Home[j]].cur = job[j].target[Home[j]].cur
          /\ job'[j].st = "NONE" => job[j].st = "NONE"
      BY <1>5, <3>1 DEF Moves
    <3>4. Deaf(j) => x.job # j
      BY <1>1 DEF IInv, DeafInv
    <3>5. x.job # j => job'[j] = job[j]
      BY <1>1, <3>1 DEF Reported, Save, IInv, BarrierTypeOK
    <3>. QED
      BY <3>1, <3>2, <3>3, <3>4, <3>5
  <2>2. \A y \in hooks' : y \in hooks \/ y.job = x.job
    BY <1>2
  <2>. QED
    BY <1>1, <2>1, <2>2 DEF LeavesDeaf
<1>14. DeafInv'
  BY <1>7, <1>13, DeafKeeps DEF BarrierTypeOK
<1>. QED
  BY <1>5, <1>7, <1>9, <1>10, <1>11, <1>12, <1>14 DEF IInv

-----------------------------------------------------------------------------
(* Reserving and binding a barrier.                                        *)

\* An index another job may take over.
Free(b, s) == index[s] \in {NoJob, b} \/ Stale(index[s]) \/ ~IsActive(job[index[s]])

\* A barrier that has seen nothing yet gets a new record, and indexes that
\* nobody else depends on.
LEMMA FileKeeps ==
    ASSUME IInv, NEW b \in Barrier, NEW q, GoodJob(b, q), RuleMove(b, job[b], q),
           job[b].st \notin Terminal, q.keys \subseteq job[b].keys,
           \A s \in Targets[b] : ~Stopped(q.target[s]),
           job' = [job EXCEPT ![b] = q], index' \in [Session -> Job \cup {NoJob}],
           UNCHANGED <<marks, worker, late, hooks, turn, mode, sent, clean, rearmed, unlinked>>,
           \A s \in Session : index'[s] = index[s] \/ (s \in Targets[b] /\ index'[s] \in {b, NoJob} /\ Free(b, s)),
           IsActive(q) /\ q.ready => \A s \in Targets[b] : index'[s] = b
    PROVE  IInv' /\ Steps
<1>1. /\ b \in Job /\ b \notin Single /\ q \in JobRecord /\ job \in [Job -> JobRecord]
      /\ job'[b] = q /\ \A k \in Job : k # b => job'[k] = job[k]
      /\ job' \in [Job -> JobRecord]
  BY BarrierAssumption DEF Job, GoodJob, IInv, BarrierTypeOK
<1>2. BarrierTypeOK'
  BY <1>1 DEF IInv, BarrierTypeOK
<1>3. JobInv'
  BY <1>1 DEF IInv, JobInv
<1>4. IndexInv'
  BY <1>1, JobNotNone DEF IInv, IndexInv, Job
<1>5. \A k \in Job : job'[k].keys \subseteq job[k].keys
  BY <1>1
<1>6. HookInv'
  BY <1>5 DEF IInv, HookInv, GoodHook, GoodEvent
<1>7. RearmInv'
  <2>1. \A x \in hooks : x.pc = "bind" => x.job \in Job
    BY DEF IInv, HookInv, GoodHook, Job
  <2>. QED
    BY <1>5, <2>1 DEF IInv, RearmInv
<1>8. OwnInv'
  <2>1. ASSUME NEW k \in Job, k # b, IsActive(job[k]), k \in Barrier => job[k].ready,
               NEW s \in Session, index[s] = k
        PROVE  index'[s] = k
    <3>1. ~Stale(k)
      <4>1. CASE k \in Barrier
        BY <2>1, <4>1, GoodNow DEF Stale, GoodJob, GoodBarrier, ValidBarrier
      <4>2. CASE k \notin Barrier
        BY <4>2 DEF Stale
      <4>. QED
        BY <4>1, <4>2
    <3>. QED
      BY <2>1, <3>1, JobNotNone DEF Free
  <2>2. ASSUME NEW c \in Barrier, IsActive(job'[c]), job'[c].ready, NEW s \in Targets[c]
        PROVE  index'[s] = c \/ s \in rearmed'
    <3>1. s \in Session /\ c \in Job
      BY BarrierAssumption DEF Job
    <3>2. CASE c = b
      BY <1>1, <2>2, <3>2
    <3>3. CASE c # b
      <4>1. index[s] = c \/ s \in rearmed
        BY <1>1, <2>2, <3>1, <3>3 DEF IInv, OwnInv, Owned
      <4>. QED
        BY <1>1, <2>1, <2>2, <3>1, <3>3, <4>1
    <3>. QED
      BY <3>2, <3>3
  <2>3. ASSUME NEW j \in Single, IsActive(job'[j]), job'[j].target[Home[j]].cur # 0
        PROVE  index'[Home[j]] = j \/ Home[j] \in rearmed' \/ j \in unlinked'
    <3>1. j \in Job /\ j # b /\ j \notin Barrier /\ Home[j] \in Session /\ job'[j] = job[j]
      BY <1>1, BarrierAssumption DEF Job
    <3>2. index[Home[j]] = j \/ Home[j] \in rearmed \/ j \in unlinked
      BY <2>3, <3>1 DEF IInv, OwnInv, Owned, Bound
    <3>. QED
      BY <2>1, <2>3, <3>1, <3>2
  <2>. QED
    BY <2>2, <2>3, BarrierAssumption DEF OwnInv, Owned, Bound
<1>9. \A c \in Barrier : job'[c] = job[c] \/ \A s \in Targets[c] : ~Stopped(job'[c].target[s])
  BY <1>1 DEF Job
<1>10. CleanInv'
  BY <1>5, <1>9 DEF IInv, CleanInv, Alone, Missed
<1>11. IdleInv'
  BY <1>9 DEF IInv, IdleInv, Reporting
<1>12. Steps
  <2>1. ASSUME NEW j \in Job
        PROVE  /\ j \in Barrier => RuleMove(j, job[j], job'[j])
               /\ job[j].st \in Terminal => job'[j].st \in Terminal
    BY <1>1, GoodNow, SameMoves DEF Moves
  <2>. QED
    BY <2>1 DEF Steps
<1>13. LeavesDeaf
  <2>1. \A j \in Single : j \in Job /\ j # NoJob /\ j # b /\ Home[j] \in Session
    BY BarrierAssumption DEF Job
  <2>. QED
    BY <1>1, <2>1 DEF LeavesDeaf
<1>14. DeafInv'
  BY <1>2, <1>13, DeafKeeps DEF BarrierTypeOK
<1>. QED
  BY <1>2, <1>3, <1>4, <1>6, <1>7, <1>8, <1>10, <1>11, <1>12, <1>14 DEF IInv

\* The records of a reservation.
LEMMA NewFields ==
    ASSUME NEW u \in Session
    PROVE  /\ NewJob \in JobRecord /\ NewJob.st = "ARM_PENDING_BIND" /\ NewJob.ready = FALSE
           /\ NewJob.creq = FALSE /\ NewJob.keys = {} /\ NewJob.target = [s \in Session |-> Blank]
           /\ Blank \in StopTarget
<1>1. 0 \in Turn
  BY BarrierAssumption DEF Turn
<1>2. Blank \in StopTarget
  BY <1>1 DEF Blank, StopTarget
<1>3. [s \in Session |-> Blank] \in [Session -> StopTarget]
  BY <1>2
<1>. QED
  BY <1>2, <1>3 DEF NewJob, JobRecord, State

\* A barrier's record that has counted nobody.
Fresh(b, q) ==
    /\ q \in JobRecord /\ q.creq = FALSE /\ q.keys = {} /\ q.ready = FALSE
    /\ q.st \in {"ARM_PENDING_BIND", "FAILED"} /\ \A s \in Session : q.target[s] = Blank

LEMMA FreshGood ==
    ASSUME IInv, NEW b \in Barrier, job[b].st \in {"NONE", "ARM_PENDING_BIND"}, NEW q, Fresh(b, q)
    PROVE  GoodJob(b, q) /\ RuleMove(b, job[b], q) /\ \A s \in Targets[b] : ~Stopped(q.target[s])
<1>1. /\ b \in Job /\ b \notin Single /\ Targets[b] \subseteq Session /\ q \in JobRecord
      /\ GoodBarrier(b, job[b]) /\ job[b].st \in State /\ job[b].creq \in BOOLEAN
  BY BarrierAssumption, GoodNow DEF Job, GoodJob, Fresh
<1>2. /\ \A s \in Targets[b] : job[b].target[s] = Blank /\ q.target[s] = Blank
      /\ job[b].creq = FALSE
  BY <1>1 DEF GoodBarrier, Fresh, Terminal
<1>3. GoodJob(b, q)
  BY <1>1, <1>2 DEF GoodJob, GoodBarrier, ValidBarrier, Fresh, Terminal, ValidTarget, Blank
<1>4. Counted(b, q) = {} /\ Counted(b, job[b]) = {} /\ \A s \in Targets[b] : ~Stopped(q.target[s])
  BY <1>2, BlankTyped DEF Counted
<1>5. RuleMove(b, job[b], q)
  <2>1. q.st \in State
    BY <1>1, RecordFields
  <2>2. CASE q.st = "ARM_PENDING_BIND"
    BY <1>1, <1>2, <1>4, <2>1, <2>2, PhaseIs DEF RuleMove, Fresh
  <2>3. CASE q.st = "FAILED"
    BY <1>1, <2>1, <2>3, PhaseIs DEF RuleMove, Terminal
  <2>. QED
    BY <2>2, <2>3 DEF Fresh
<1>. QED
  BY <1>3, <1>4, <1>5

LEMMA ReserveKeeps == ASSUME IInv, NEW b \in Barrier, Reserve(b)  PROVE IInv' /\ Steps
<1>. DEFINE T == Targets[b]
            Cleared(S) == [s \in Session |-> IF s \in S THEN NoJob ELSE index[s]]
            Written(S) == [s \in Session |-> IF s \in S THEN b ELSE index[s]]
            stale == {s \in T : index[s] # NoJob /\ Stale(index[s])}
            committed == [NewJob EXCEPT !.committed = TRUE]
<1>1. /\ job[b].st = "NONE" /\ b \in Job /\ T \subseteq Session /\ T # {}
      /\ index \in [Session -> Job \cup {NoJob}]
      /\ UNCHANGED <<marks, worker, late, hooks, turn, mode, sent, clean, rearmed, unlinked>>
  BY BarrierAssumption DEF Reserve, Job, IInv, BarrierTypeOK, hostVars
<1>2. \A s \in T : Free(b, s)
  BY DEF Reserve, Conflict, Free
<1>3. PICK u \in Session : u \in T
  BY <1>1
<1>4. /\ NewJob \in JobRecord /\ NewJob.st = "ARM_PENDING_BIND" /\ NewJob.ready = FALSE
      /\ NewJob.creq = FALSE /\ NewJob.keys = {} /\ \A s \in Session : NewJob.target[s] = Blank
  BY NewFields
<1>5. /\ committed \in JobRecord /\ committed.st = "ARM_PENDING_BIND" /\ committed.ready = FALSE
      /\ committed.creq = FALSE /\ committed.keys = {} /\ \A s \in Session : committed.target[s] = Blank
  BY <1>4 DEF JobRecord
<1>. HIDE DEF committed
<1>6. "FAILED" \in State
  BY DEF State, Terminal
<1>7. Fresh(b, NewJob) /\ Fresh(b, committed)
  BY <1>4, <1>5 DEF Fresh
<1>8. ASSUME NEW r \in {NewJob, committed}  PROVE Fresh(b, Close(r, "FAILED"))
  BY <1>4, <1>5, <1>6, CloseFields DEF Fresh, Same
<1>9. ASSUME NEW q, Fresh(b, q), job' = [job EXCEPT ![b] = q],
             NEW A \in SUBSET T, NEW B \in SUBSET T,
             index' = [s \in Session |-> IF s \in A THEN b ELSE IF s \in B THEN NoJob ELSE index[s]]
      PROVE  IInv' /\ Steps
  <2>1. /\ index' \in [Session -> Job \cup {NoJob}]
        /\ \A s \in Session : index'[s] = index[s] \/ (s \in T /\ index'[s] \in {b, NoJob} /\ Free(b, s))
    BY <1>1, <1>2, <1>9
  <2>2. q.ready = FALSE /\ q.keys \subseteq job[b].keys
    BY <1>9 DEF Fresh
  <2>3. job[b].st \notin Terminal
    BY <1>1 DEF Terminal
  <2>4. GoodJob(b, q) /\ RuleMove(b, job[b], q) /\ \A s \in Targets[b] : ~Stopped(q.target[s])
    BY <1>1, <1>9, FreshGood
  <2>. QED
    BY <1>1, <1>9, <2>1, <2>2, <2>3, <2>4, FileKeeps
<1>10. stale \in SUBSET T
  OBVIOUS
<1>. HIDE DEF stale, T
<1>11. CASE job' = [job EXCEPT ![b] = committed] /\ index' = Written(T)
  <2>1. index' = [s \in Session |-> IF s \in T THEN b ELSE IF s \in {} THEN NoJob ELSE index[s]]
    BY <1>11
  <2>2. {} \in SUBSET T /\ T \in SUBSET T
    OBVIOUS
  <2>. QED
    BY <1>7, <1>9, <1>11, <2>1, <2>2
<1>12. CASE job' = [job EXCEPT ![b] = Close(NewJob, "FAILED")] /\ \E S \in SUBSET T : index' = Cleared(S \cup stale)
  <2>1. PICK S \in SUBSET T : index' = Cleared(S \cup stale)
    BY <1>12
  <2>2. index' = [s \in Session |-> IF s \in {} THEN b ELSE IF s \in S \cup stale THEN NoJob ELSE index[s]]
    BY <2>1
  <2>3. {} \in SUBSET T /\ S \cup stale \in SUBSET T
    BY <1>10
  <2>. QED
    BY <1>8, <1>9, <1>12, <2>2, <2>3
<1>13. CASE /\ job' = [job EXCEPT ![b] = NewJob]
            /\ \E S \in SUBSET T :
                 index' = [s \in Session |-> IF s \in S THEN b ELSE IF s \in stale THEN NoJob ELSE index[s]]
  BY <1>7, <1>9, <1>10, <1>13
<1>14. CASE job' = [job EXCEPT ![b] = Close(committed, "FAILED")] /\ index' = Cleared(T)
  <2>1. index' = [s \in Session |-> IF s \in {} THEN b ELSE IF s \in T THEN NoJob ELSE index[s]]
    BY <1>14
  <2>2. {} \in SUBSET T /\ T \in SUBSET T
    OBVIOUS
  <2>. QED
    BY <1>8, <1>9, <1>14, <2>1, <2>2
<1>. QED
  BY <1>11, <1>12, <1>13, <1>14 DEF Reserve, T, stale, committed

\* A controller's hook on a reservation: its targets have shown nothing yet.
LEMMA BindBarrierKeeps ==
    ASSUME IInv, NEW b \in Barrier, NEW good \in BOOLEAN, BindBarrier(b, good)
    PROVE  IInv' /\ Steps
<1>. DEFINE r == job[b]
            t == IF ~BarrierSatisfied(b, r) THEN "ARMED" ELSE IF b \in DryRun THEN "COMPLETE" ELSE "STOP_OBSERVED"
            q == [r EXCEPT !.ready = TRUE, !.fresh = FALSE, !.st = t]
<1>1. /\ r.st = "ARM_PENDING_BIND" /\ r.committed
      /\ UNCHANGED <<marks, worker, late, hooks, turn, mode, sent, clean, rearmed, unlinked>>
  BY DEF BindBarrier, hostVars
<1>2. /\ b \in Job /\ b \notin Single /\ Targets[b] # {} /\ Targets[b] \subseteq Session
      /\ GoodJob(b, r) /\ GoodBarrier(b, r) /\ r \in JobRecord /\ r.creq \in BOOLEAN
  BY BarrierAssumption, GoodNow DEF Job, GoodJob
<1>3. /\ \A s \in Targets[b] : r.target[s] = Blank
      /\ r.creq = FALSE
  BY <1>1, <1>2 DEF GoodBarrier, Terminal
<1>4. ~BarrierSatisfied(b, r) /\ t = "ARMED"
  BY <1>2, <1>3, BlankTyped DEF BarrierSatisfied
<1>5. /\ q \in JobRecord /\ q.st = "ARMED" /\ q.ready = TRUE /\ q.creq = FALSE
      /\ q.target = r.target /\ q.keys = r.keys /\ q.committed = r.committed
  BY <1>2, <1>3, <1>4 DEF JobRecord, State
<1>. HIDE DEF t, q
<1>6. /\ \A s \in Targets[b] : ValidTarget(q.target[s]) /\ ~Stopped(q.target[s])
      /\ Counted(b, q) = {} /\ Counted(b, r) = {}
  BY <1>3, <1>5, BlankTyped DEF ValidTarget, Counted
<1>7. ASSUME NEW p \in JobRecord, p.st \in {"ARMED", "FAILED"}, p.ready = TRUE, p.creq = FALSE,
             p.target = q.target, p.keys = q.keys, p.committed = q.committed,
             job' = [job EXCEPT ![b] = p], NEW S \in SUBSET Owned(b),
             index' = [s \in Session |-> IF s \in S THEN NoJob ELSE index[s]],
             p.st = "ARMED" => S = {} /\ IndexesMatch(b)
      PROVE  IInv' /\ Steps
  <2>1. GoodJob(b, p)
    BY <1>1, <1>2, <1>5, <1>6, <1>7 DEF GoodJob, GoodBarrier, ValidBarrier, Terminal
  <2>2. Counted(b, p) = {} /\ \A s \in Targets[b] : ~Stopped(p.target[s])
    BY <1>6, <1>7 DEF Counted
  <2>3. p.st \in State /\ r.st \in State
    BY <1>2, <1>7, RecordFields
  <2>4. RuleMove(b, r, p)
    BY <1>1, <1>3, <1>6, <1>7, <2>2, <2>3, PhaseIs DEF RuleMove, Terminal
  <2>5. index \in [Session -> Job \cup {NoJob}]
    BY DEF IInv, BarrierTypeOK
  <2>6. \A s \in S : index[s] = b /\ s \in Targets[b]
    BY <1>7 DEF Owned, IInv, IndexInv
  <2>7. /\ index' \in [Session -> Job \cup {NoJob}]
        /\ \A s \in Session : index'[s] = index[s] \/ (s \in Targets[b] /\ index'[s] \in {b, NoJob} /\ Free(b, s))
    BY <1>7, <2>5, <2>6 DEF Free
  <2>8. IsActive(p) /\ p.ready => \A s \in Targets[b] : index'[s] = b
    BY <1>2, <1>7, <2>5 DEF IsActive, Terminal, IndexesMatch, Owned
  <2>9. r.st \notin Terminal /\ p.keys \subseteq r.keys
    BY <1>1, <1>5, <1>7 DEF Terminal
  <2>. QED
    BY <1>1, <1>7, <2>1, <2>2, <2>4, <2>7, <2>8, <2>9, FileKeeps
<1>8. CASE UpdateJob(b, Close(r, "FAILED"))
  <2>1. Quiet(r, Close(r, "FAILED"))
    BY <1>1, <1>2, CloseFields DEF Quiet, State, Terminal
  <2>2. JobPart({}) /\ HookPart /\ OwnTypes'
    BY <1>1, <1>2, <1>8, <2>1, QuietPart DEF HookPart, OwnTypes, IInv, BarrierTypeOK
  <2>. QED
    BY <1>1, <2>2, QuietStep
<1>9. CASE UpdateJob(b, q) /\ IndexesMatch(b)
  <2>1. Gone(b, q) = {{}}
    BY <1>5 DEF Gone, IsActive, Terminal
  <2>2. Save(b, q, {})
    BY <1>9, <2>1 DEF UpdateJob
  <2>3. {} \in SUBSET Owned(b)
    OBVIOUS
  <2>. QED
    BY <1>5, <1>7, <1>9, <2>2, <2>3 DEF Save
<1>10. CASE UpdateJob(b, FailOrCancel(q))
  <2>. DEFINE p == Close(q, "FAILED")
  <2>1. FailOrCancel(q) = p
    BY <1>5 DEF FailOrCancel, Unresolved
  <2>2. p \in JobRecord /\ p.st = "FAILED" /\ p.creq = FALSE /\ Same(q, p)
    BY <1>5, CloseFields DEF State, Terminal
  <2>. HIDE DEF p
  <2>3. PICK S \in Gone(b, p) : Save(b, p, S)
    BY <1>10, <2>1 DEF UpdateJob
  <2>4. S \in SUBSET Owned(b)
    BY <1>2, <2>3, GoneWhat DEF IInv
  <2>. QED
    BY <1>5, <1>7, <2>2, <2>3, <2>4 DEF Save, Same
<1>. QED
  BY <1>8, <1>9, <1>10 DEF BindBarrier, q, t

-----------------------------------------------------------------------------
(* Arming and binding an after_stop job.                                   *)

\* A step on an after_stop job that may start an arm hook of its session.
LEMMA ArmHookKeeps ==
    ASSUME IInv, NEW j \in Single, NEW e \in Event, e.kind = "Arm", e.s = Home[j], GoodEvent(e),
           NEW H \in SUBSET {Process("bind", e, j)}, hooks' = hooks \cup H,
           NEW q, GoodJob(j, q), job' = [job EXCEPT ![j] = q], q.keys \subseteq job[j].keys,
           q = job[j] \/ (job[j].st = "NONE" /\ q.target[Home[j]].cur = 0),
           UNCHANGED <<index, marks, worker, late, turn, mode>>, sent' \subseteq sent \cup {e},
           rearmed \subseteq rearmed', rearmed' \subseteq Session, rearmed' \cap clean' = {},
           unlinked' = unlinked, clean' \subseteq clean, e.s \in clean' => H = {} \/ ~Busy(e.s),
           e \in q.keys => e.s \in rearmed'
    PROVE  IInv' /\ Steps
<1>. DEFINE h == Process("bind", e, j)
<1>a. /\ h.pc = "bind" /\ h.e = e /\ h.job = j /\ h.mark = NoJob /\ h.err = FALSE /\ h \in HookProcess
      /\ j \in Job /\ j \notin Barrier /\ q \in JobRecord
  BY BarrierAssumption DEF Process, HookProcess, Job, GoodJob
<1>. HIDE DEF h
<1>1. /\ \A x \in H : x \in HookProcess /\ GoodHook(x) /\ x.pc = "bind" /\ x.e = e /\ x.job = j /\ x = h
      /\ j \in Job /\ j \notin Barrier /\ q \in JobRecord
  <2>1. GoodHook(h)
    BY <1>a DEF GoodHook
  <2>2. \A x \in H : x = h
    BY DEF h
  <2>. QED
    BY <1>a, <2>1, <2>2
<1>2. /\ job' \in [Job -> JobRecord] /\ job'[j] = q /\ \A k \in Job : k # j => job'[k] = job[k]
      /\ \A b \in Barrier : job'[b] = job[b] /\ b \in Job
  BY <1>1 DEF IInv, BarrierTypeOK, Job
<1>3. BarrierTypeOK'
  BY <1>1, <1>2 DEF IInv, BarrierTypeOK
<1>4. JobInv' /\ IndexInv'
  BY <1>2 DEF IInv, JobInv, IndexInv
<1>5. \A k \in Job : job'[k].keys \subseteq job[k].keys
  BY <1>2
<1>6. HookInv'
  BY <1>1, <1>5 DEF IInv, HookInv, GoodHook, GoodEvent
<1>7. RearmInv'
  <2>1. \A x \in hooks : x.pc = "bind" => x.job \in Job
    BY DEF IInv, HookInv, GoodHook, Job
  <2>. QED
    BY <1>1, <1>2, <1>5, <2>1 DEF IInv, RearmInv
<1>8. OwnInv'
  <2>1. \A k \in Single : k \in Job
    BY DEF Job
  <2>2. \A k \in Single : IsActive(job'[k]) /\ job'[k].target[Home[k]].cur # 0 => job'[k] = job[k]
    BY <1>2, <2>1
  <2>. QED
    BY <1>2, <2>2 DEF IInv, OwnInv, Owned, Bound
<1>9. CleanInv'
  <2>1. ASSUME NEW s \in clean'
        PROVE  /\ Alone(s)'
               /\ \A y \in hooks' : y.e.s = s =>
                    /\ mode'[s] = "run" => y.e.kind \in {"Arm", "Prompt"}
                    /\ y.e.kind = "Prompt" /\ y.pc \in Pending => \A k \in Job : y.e \notin job'[k].keys
                    /\ \A b \in Barrier : Missed(y, b) /\ IsActive(job'[b]) => ~Stopped(job'[b].target[s])
    <3>1. Alone(s)'
      BY <1>1, <2>1 DEF IInv, CleanInv, Alone, Busy
    <3>2. ASSUME NEW y \in hooks, y.e.s = s
          PROVE  /\ mode'[s] = "run" => y.e.kind \in {"Arm", "Prompt"}
                 /\ y.e.kind = "Prompt" /\ y.pc \in Pending => \A k \in Job : y.e \notin job'[k].keys
                 /\ \A b \in Barrier : Missed(y, b) /\ IsActive(job'[b]) => ~Stopped(job'[b].target[s])
      BY <1>2, <1>5, <3>2 DEF IInv, CleanInv
    <3>. QED
      BY <1>1, <3>1, <3>2 DEF Missed
  <2>. QED
    BY <2>1 DEF CleanInv
<1>10. IdleInv'
  BY <1>2 DEF IInv, IdleInv, Reporting
<1>11. Steps
  <2>1. ASSUME NEW k \in Job
        PROVE  /\ k \in Barrier => RuleMove(k, job[k], job'[k])
               /\ job[k].st \in Terminal => job'[k].st \in Terminal
    <3>1. Moves(k, job[k], job[k], {})
      BY GoodNow, SameMoves
    <3>. QED
      BY <1>1, <1>2, <3>1 DEF Moves, Terminal
  <2>. QED
    BY <2>1 DEF Steps
<1>12. LeavesDeaf
  <2>1. ASSUME NEW k \in Single
        PROVE  /\ job'[k].target[Home[k]].cur = job[k].target[Home[k]].cur
               /\ job'[k].st = "NONE" => job[k].st = "NONE"
               /\ job[k].st \in AtMostArmed => job'[k].st \in AtMostArmed
    <3>1. k \in Job
      BY DEF Job
    <3>2. job[j].st = "NONE" => job[j].target[Home[j]].cur = 0 /\ job[j].st \notin AtMostArmed
      BY DEF IInv, DeafInv, Bound, AtMostArmed, Terminal
    <3>. QED
      BY <1>2, <3>1, <3>2
  <2>2. \A y \in hooks' : y \in hooks \/ y.pc = "bind"
    BY <1>1
  <2>. QED
    BY <2>1, <2>2 DEF LeavesDeaf
<1>13. DeafInv'
  BY <1>3, <1>12, DeafKeeps DEF BarrierTypeOK
<1>. QED
  BY <1>3, <1>4, <1>6, <1>7, <1>8, <1>9, <1>10, <1>11, <1>13 DEF IInv

LEMMA RearmKeeps == ASSUME IInv, NEW j \in Single, NEW e \in sent, Rearm(j, e)  PROVE IInv' /\ Steps
<1>1. /\ e \in Event /\ e.kind = "Arm" /\ e.s = Home[j] /\ GoodEvent(e) /\ e.s \in Session
      /\ j \in Job /\ job \in [Job -> JobRecord]
  BY BarrierAssumption DEF IInv, BarrierTypeOK, HookInv, Rearm, Job
<1>2. /\ UNCHANGED <<job, index, marks, worker, late, turn, mode, sent, unlinked>>
      /\ clean' = clean \ {e.s} /\ rearmed' = rearmed \cup {e.s} /\ hooks' = hooks \cup {Process("bind", e, j)}
  BY DEF Rearm, Again, Disturb, storeVars, hostVars
<1>3. job' = [job EXCEPT ![j] = job[j]] /\ GoodJob(j, job[j])
  BY <1>1, <1>2, GoodNow
<1>4. rearmed' \subseteq Session /\ rearmed' \cap clean' = {}
  BY <1>1, <1>2 DEF IInv, RearmInv, BarrierTypeOK
<1>. QED
  BY <1>1, <1>2, <1>3, <1>4, ArmHookKeeps

LEMMA ArmSingleKeeps == ASSUME IInv, NEW j \in Single, ArmSingle(j)  PROVE IInv' /\ Steps
<1>. DEFINE s == Home[j]
            New(w) == [NewJob EXCEPT !.target[s].ws = w]
<1>1. /\ s \in Session /\ j \in Job /\ j \notin Barrier /\ job[j].st = "NONE"
      /\ UNCHANGED <<index, marks, worker, late, turn, mode, rearmed, unlinked>>
  BY BarrierAssumption DEF Job, ArmSingle, hostVars
<1>2. PICK w \in Workspace[s] :
        LET e == Ev("Arm", s, turn[s], FALSE, w)
        IN \/ /\ job' = [job EXCEPT ![j] = New(w)]
              /\ Start("bind", e, j)
           \/ /\ job' = [job EXCEPT ![j] = Close(New(w), "FAILED")]
              /\ UNCHANGED <<hooks, sent, clean>>
  BY DEF ArmSingle
<1>3. PICK e \in Event : /\ e = Ev("Arm", s, turn[s], FALSE, w)
                         /\ e.kind = "Arm" /\ e.s = s /\ e.t = turn[s] /\ ~e.again
  <2>1. Ev("Arm", s, turn[s], FALSE, w) \in Event
    BY <1>1, TurnTyped, EvTyped
  <2>. QED
    BY <2>1 DEF Ev
<1>4. PICK p \in JobRecord : /\ p = New(w) /\ p.st = "ARM_PENDING_BIND" /\ p.creq = FALSE /\ p.keys = {}
                             /\ p.target[s].cur = 0
  <2>. DEFINE y == [Blank EXCEPT !.ws = w]
              f == [u \in Session |-> IF u = s THEN y ELSE Blank]
  <2>1. NewJob \in JobRecord /\ NewJob.st = "ARM_PENDING_BIND" /\ NewJob.creq = FALSE /\ NewJob.keys = {}
        /\ NewJob.target = [u \in Session |-> Blank] /\ Blank \in StopTarget
    BY <1>1, NewFields
  <2>2. w \in Directory
    BY <1>1 DEF Directory
  <2>3. y \in StopTarget /\ y.cur = 0
    BY <2>1, <2>2 DEF StopTarget, Blank
  <2>. HIDE DEF y
  <2>4. f \in [Session -> StopTarget] /\ f[s] = y
    BY <1>1, <2>1, <2>3
  <2>5. New(w) = [NewJob EXCEPT !.target = f]
    <3>1. [NewJob.target EXCEPT ![s] = [NewJob.target[s] EXCEPT !.ws = w]] = f
      BY <1>1, <2>1 DEF y
    <3>. QED
      BY <3>1
  <2>. HIDE DEF f, New
  <2>6. [NewJob EXCEPT !.target = f] \in JobRecord
    BY <2>1, <2>4 DEF JobRecord
  <2>7. /\ [NewJob EXCEPT !.target = f].st = NewJob.st /\ [NewJob EXCEPT !.target = f].creq = NewJob.creq
        /\ [NewJob EXCEPT !.target = f].keys = NewJob.keys /\ [NewJob EXCEPT !.target = f].target = f
    BY <2>1 DEF JobRecord
  <2>. QED
    BY <2>1, <2>3, <2>4, <2>5, <2>6, <2>7
<1>. HIDE DEF New
<1>5. GoodEvent(e)
  <2>1. turn[s] \in Nat /\ turn[s] # 0 /\ turn[s] <= turn[s]
    BY <1>1, TurnTyped
  <2>2. e.t # 0 /\ e.t <= turn[e.s] /\ e.kind # "Prompt"
    BY <1>3, <2>1
  <2>. QED
    BY <2>2 DEF GoodEvent
<1>6. ASSUME NEW q \in JobRecord, q.st \in {"ARM_PENDING_BIND", "FAILED"}, q.keys = {}, q.target[s].cur = 0
      PROVE  GoodJob(j, q)
  BY <1>1, <1>6 DEF GoodJob, ValidSingle
<1>7. rearmed \subseteq Session /\ rearmed \cap clean = {}
  BY DEF IInv, BarrierTypeOK, RearmInv
<1>8. CASE job' = [job EXCEPT ![j] = p] /\ Start("bind", e, j)
  <2>1. /\ clean' \subseteq clean /\ (e.s \in clean' => ~Busy(e.s))
        /\ sent' \subseteq sent \cup {e} /\ hooks' = hooks \cup {Process("bind", e, j)}
    BY <1>8, StartClean
  <2>2. GoodJob(j, p) /\ p.keys \subseteq job[j].keys /\ e \notin p.keys
    BY <1>4, <1>6
  <2>3. PICK H \in SUBSET {Process("bind", e, j)} : H = {Process("bind", e, j)} /\ hooks' = hooks \cup H
    BY <2>1
  <2>4. rearmed' \subseteq Session /\ rearmed' \cap clean' = {} /\ rearmed \subseteq rearmed'
    BY <1>1, <1>7, <2>1
  <2>. QED
    BY <1>1, <1>3, <1>4, <1>5, <1>8, <2>1, <2>2, <2>3, <2>4, ArmHookKeeps
<1>9. CASE job' = [job EXCEPT ![j] = Close(p, "FAILED")] /\ UNCHANGED <<hooks, sent, clean>>
  <2>1. PICK q \in JobRecord : q = Close(p, "FAILED") /\ q.st = "FAILED" /\ Same(p, q)
    BY CloseFields DEF State, Terminal
  <2>2. GoodJob(j, q) /\ q.keys \subseteq job[j].keys /\ e \notin q.keys /\ q.target[Home[j]].cur = 0
    BY <1>4, <1>6, <2>1 DEF Same
  <2>3. PICK H \in SUBSET {Process("bind", e, j)} : H = {} /\ hooks' = hooks \cup H
    <3>1. {} \in SUBSET {Process("bind", e, j)} /\ hooks' = hooks \cup {}
      BY <1>9
    <3>. QED
      BY <3>1
  <2>4. rearmed' \subseteq Session /\ rearmed' \cap clean' = {} /\ rearmed \subseteq rearmed' /\ sent' \subseteq sent \cup {e}
    BY <1>1, <1>7, <1>9
  <2>. QED
    BY <1>1, <1>3, <1>5, <1>9, <2>1, <2>2, <2>3, <2>4, ArmHookKeeps
<1>. QED
  BY <1>2, <1>3, <1>4, <1>8, <1>9 DEF New

\* The end of an arm hook: its job is good, and it takes no index that an
\* active job depends on, unless it ran twice.
LEMMA BindEnds ==
    ASSUME IInv, NEW x \in hooks, x.pc = "bind", hooks' = hooks \ {x},
           UNCHANGED <<marks, worker, late, turn, mode, sent, rearmed>>, clean' \subseteq clean,
           NEW q, GoodJob(x.job, q), job' = [job EXCEPT ![x.job] = q],
           q.keys \subseteq job[x.job].keys \cup {x.e}, job[x.job].st \in Terminal => q.st \in Terminal,
           index' = index \/ (/\ index' = [index EXCEPT ![x.e.s] = x.job]
                              /\ \/ x.e.s \in rearmed
                                 \/ index[x.e.s] \in {NoJob, x.job}
                                 \/ ~IsActive(job[index[x.e.s]])),
           \/ q = job[x.job] /\ unlinked' = unlinked /\ (index' = index \/ (x.e.s \in rearmed /\ Bound(x.job)))
           \/ /\ job[x.job].st = "ARM_PENDING_BIND" /\ q.st # "NONE"
              /\ \/ unlinked' = unlinked /\ (index' = index \/ q.target[x.e.s].cur # 0)
                 \/ unlinked' = unlinked \cup {x.job} /\ index' = index /\ q.st = "ARMED",
           IsActive(q) /\ q.target[x.e.s].cur # 0
             => index'[x.e.s] = x.job \/ x.e.s \in rearmed \/ x.job \in unlinked'
    PROVE  IInv' /\ Steps
<1>. DEFINE j == x.job
            s == x.e.s
<1>1. /\ x \in HookProcess /\ GoodHook(x) /\ j \in Single /\ s = Home[j] /\ s \in Session /\ x.e.kind = "Arm"
      /\ j \in Job /\ j \notin Barrier /\ q \in JobRecord /\ rearmed \cap clean = {}
  BY HookTyped, BarrierAssumption DEF GoodHook, Job, GoodJob, IInv, RearmInv
<1>2. /\ job' \in [Job -> JobRecord] /\ job'[j] = q /\ \A k \in Job : k # j => job'[k] = job[k]
      /\ \A b \in Barrier : job'[b] = job[b] /\ b \in Job
  BY <1>1 DEF IInv, BarrierTypeOK, Job
<1>3. /\ index' \in [Session -> Job \cup {NoJob}]
      /\ \A u \in Session : u # s => index'[u] = index[u]
      /\ index'[s] = index[s] \/ (index'[s] = j /\ (s \in rearmed \/ index[s] \in {NoJob, j} \/ ~IsActive(job[index[s]])))
  BY <1>1 DEF IInv, BarrierTypeOK
<1>4. BarrierTypeOK'
  BY <1>1, <1>2, <1>3 DEF IInv, BarrierTypeOK
<1>5. JobInv'
  BY <1>2 DEF IInv, JobInv
<1>6. IndexInv'
  BY <1>1, <1>3 DEF IInv, IndexInv
<1>7. \A k \in Job : job'[k].keys \subseteq job[k].keys \/ (k = j /\ job'[k].keys \subseteq job[k].keys \cup {x.e})
  BY <1>2
<1>8. HookInv'
  <2>1. x.e.t <= turn[x.e.s]
    BY <1>1 DEF GoodHook, GoodEvent
  <2>2. \A k \in Job : \A e \in job'[k].keys : e.t <= turn'[e.s]
    BY <1>7, <2>1 DEF IInv, HookInv
  <2>. QED
    BY <2>2 DEF IInv, HookInv, GoodHook, GoodEvent
<1>9. RearmInv'
  <2>1. ASSUME NEW y \in hooks, y.pc = "bind", y.e = x.e, y.job = j  PROVE y = x
    <3>1. y.mark = NoJob /\ x.mark = NoJob /\ y.err = FALSE /\ x.err = FALSE /\ y \in HookProcess
      BY <1>1, <2>1, HookTyped DEF GoodHook
    <3>. QED
      BY <1>1, <2>1, <3>1 DEF HookProcess
  <2>2. \A y \in hooks : y.pc = "bind" => y.job \in Job
    BY DEF IInv, HookInv, GoodHook, Job
  <2>. QED
    BY <1>1, <1>7, <2>1, <2>2 DEF IInv, RearmInv
<1>10. OwnInv'
  <2>1. ASSUME NEW b \in Barrier, IsActive(job'[b]), job'[b].ready, NEW u \in Targets[b]
        PROVE  index'[u] = b \/ u \in rearmed'
    <3>1. u \in Session /\ IsActive(job[b]) /\ job[b].ready
      BY <1>2, <2>1, BarrierAssumption
    <3>2. index[u] = b \/ u \in rearmed
      BY <3>1 DEF IInv, OwnInv, Owned
    <3>. QED
      BY <1>1, <1>2, <1>3, <3>1, <3>2, JobNotNone
  <2>2. ASSUME NEW k \in Single, IsActive(job'[k]), job'[k].target[Home[k]].cur # 0
        PROVE  index'[Home[k]] = k \/ Home[k] \in rearmed' \/ k \in unlinked'
    <3>1. k \in Job /\ Home[k] \in Session
      BY BarrierAssumption DEF Job
    <3>2. CASE k = j
      BY <1>1, <1>2, <2>2, <3>2
    <3>3. CASE k # j
      <4>1. IsActive(job[k]) /\ (index[Home[k]] = k \/ Home[k] \in rearmed \/ k \in unlinked)
        BY <1>2, <2>2, <3>1, <3>3 DEF IInv, OwnInv, Owned, Bound
      <4>. QED
        BY <1>1, <1>3, <3>1, <3>3, <4>1, JobNotNone
    <3>. QED
      BY <3>2, <3>3
  <2>. QED
    BY <2>1, <2>2, BarrierAssumption DEF OwnInv, Owned, Bound
<1>11. CleanInv'
  <2>1. ASSUME NEW u \in clean', NEW y \in hooks', y.e.s = u
        PROVE  /\ mode'[u] = "run" => y.e.kind \in {"Arm", "Prompt"}
               /\ y.e.kind = "Prompt" /\ y.pc \in Pending => \A k \in Job : y.e \notin job'[k].keys
               /\ \A b \in Barrier : Missed(y, b) /\ IsActive(job'[b]) => ~Stopped(job'[b].target[u])
    BY <1>1, <1>2, <1>7, <2>1 DEF IInv, CleanInv
  <2>2. \A u \in clean' : Alone(u)'
    BY DEF IInv, CleanInv, Alone
  <2>. QED
    BY <2>1, <2>2 DEF CleanInv
<1>12. IdleInv'
  <2>1. x.pc \notin Pending
    BY DEF Pending
  <2>2. \A u \in Session : Reporting(u) => Reporting(u)'
    BY <2>1 DEF Reporting
  <2>3. \A b \in Barrier : Targets[b] \subseteq Session
    BY BarrierAssumption
  <2>. QED
    BY <1>2, <2>2, <2>3 DEF IInv, IdleInv
<1>13. Steps
  <2>1. ASSUME NEW k \in Job
        PROVE  /\ k \in Barrier => RuleMove(k, job[k], job'[k])
               /\ job[k].st \in Terminal => job'[k].st \in Terminal
    <3>1. Moves(k, job[k], job[k], {})
      BY GoodNow, SameMoves
    <3>. QED
      BY <1>1, <1>2, <3>1 DEF Moves
  <2>. QED
    BY <2>1 DEF Steps
<1>14. DeafInv'
  <2>1. job[j].st = "ARM_PENDING_BIND" => Deaf(j) /\ (j \in unlinked => s \in rearmed)
    <3>1. ValidSingle(j, job[j])
      BY <1>1, GoodNow DEF GoodJob
    <3>. QED
      BY <1>1, <3>1 DEF ValidSingle, Deaf, Bound, IInv, DeafInv, AtMostArmed, Terminal
  <2>2. ASSUME NEW k \in Single, k # j
        PROVE  /\ job'[k].st = "NONE" => ~Bound(k)'
               /\ Deaf(k)' => index'[Home[k]] # k /\ \A y \in hooks' : y.pc # "bind" => y.job # k
               /\ k \in unlinked' => Home[k] \in rearmed' \/ job'[k].st \in AtMostArmed
    <3>1. k \in Job /\ Home[k] \in Session /\ job'[k] = job[k] /\ (k \in unlinked' <=> k \in unlinked)
      BY <1>2, <2>2, BarrierAssumption DEF Job
    <3>2. (Bound(k)' <=> Bound(k)) /\ (Deaf(k)' <=> Deaf(k))
      BY <3>1 DEF Bound, Deaf
    <3>3. index'[Home[k]] = k => index[Home[k]] = k
      BY <1>3, <2>2, <3>1
    <3>. QED
      BY <2>2, <3>1, <3>2, <3>3 DEF IInv, DeafInv
  <2>3. /\ job'[j].st = "NONE" => ~Bound(j)'
        /\ Deaf(j)' => index'[s] # j /\ \A y \in hooks' : y.pc # "bind" => y.job # j
        /\ j \in unlinked' => s \in rearmed' \/ job'[j].st \in AtMostArmed
    <3>1. Bound(j)' <=> q.target[s].cur # 0
      BY <1>1, <1>2 DEF Bound
    <3>2. Bound(j) <=> job[j].target[s].cur # 0
      BY <1>1 DEF Bound
    <3>3. /\ job[j].st = "NONE" => ~Bound(j)
          /\ Deaf(j) => index[s] # j /\ \A y \in hooks : y.pc # "bind" => y.job # j
          /\ j \in unlinked => s \in rearmed \/ job[j].st \in AtMostArmed
      BY <1>1 DEF IInv, DeafInv
    <3>4. (Deaf(j) <=> ~Bound(j) \/ (j \in unlinked /\ s \notin rearmed))
          /\ (Deaf(j)' <=> ~Bound(j)' \/ (j \in unlinked' /\ s \notin rearmed))
      BY <1>1 DEF Deaf
    <3>5. CASE q = job[j] /\ unlinked' = unlinked /\ (index' = index \/ (s \in rearmed /\ Bound(j)))
      BY <1>2, <3>1, <3>2, <3>3, <3>4, <3>5
    <3>6. CASE /\ job[j].st = "ARM_PENDING_BIND" /\ q.st # "NONE"
               /\ unlinked' = unlinked /\ (index' = index \/ q.target[s].cur # 0)
      BY <1>2, <2>1, <3>1, <3>3, <3>4, <3>6
    <3>7. CASE /\ job[j].st = "ARM_PENDING_BIND" /\ q.st # "NONE"
               /\ unlinked' = unlinked \cup {j} /\ index' = index /\ q.st = "ARMED"
      BY <1>2, <2>1, <3>3, <3>7 DEF AtMostArmed
    <3>. QED
      BY <3>5, <3>6, <3>7
  <2>4. unlinked' \subseteq Single
    BY <1>4 DEF BarrierTypeOK
  <2>. QED
    BY <1>1, <2>2, <2>3, <2>4 DEF DeafInv
<1>. QED
  BY <1>4, <1>5, <1>6, <1>8, <1>9, <1>10, <1>11, <1>12, <1>13, <1>14 DEF IInv

\* What is remembered of an event changes only the keys.
LEMMA RememberFields ==
    ASSUME NEW r \in JobRecord, NEW e \in Event
    PROVE  LET q == Remember(r, e)
           IN /\ q \in JobRecord /\ q.st = r.st /\ q.target = r.target /\ q.keys \subseteq r.keys \cup {e}
<1>1. LET q == [r EXCEPT !.keys = @ \cup {e}]
      IN q \in JobRecord /\ q.st = r.st /\ q.target = r.target /\ q.keys = r.keys \cup {e}
  BY DEF JobRecord
<1>. QED
  BY <1>1 DEF Remember

\* A job that is bound gets its turn and its directory.
BoundTo(p, s, t, w) == [p EXCEPT !.st = "ARMED", !.target[s].cur = t, !.target[s].ws = w]

LEMMA BoundFields ==
    ASSUME NEW p \in JobRecord, NEW s \in Session, NEW t \in Turn, NEW w \in Directory \cup {"none"}
    PROVE  LET q == BoundTo(p, s, t, w)
           IN q \in JobRecord /\ q.st = "ARMED" /\ q.keys = p.keys /\ q.target[s].cur = t
<1>. DEFINE a == [p.target[s] EXCEPT !.cur = t]
            y == [a EXCEPT !.ws = w]
            f == [p.target EXCEPT ![s] = a]
            g == [f EXCEPT ![s] = y]
            q == [p EXCEPT !.st = "ARMED", !.target[s].cur = t, !.target[s].ws = w]
<1>1. p.target \in [Session -> StopTarget] /\ p.target[s] \in StopTarget
  BY DEF JobRecord
<1>2. a \in StopTarget /\ a.cur = t
  BY <1>1 DEF StopTarget
<1>3. y \in StopTarget /\ y.cur = t
  BY <1>2 DEF StopTarget
<1>4. f \in [Session -> StopTarget] /\ f[s] = a
  BY <1>1, <1>2
<1>5. g \in [Session -> StopTarget] /\ g[s] = y
  BY <1>3, <1>4
<1>6. q.target = g
  BY <1>1, <1>4 DEF JobRecord
<1>7. q = [[p EXCEPT !.st = "ARMED"] EXCEPT !.target = q.target]
  BY <1>1 DEF JobRecord
<1>8. q.st = "ARMED" /\ q.keys = p.keys
  BY DEF JobRecord
<1>. HIDE DEF g, q, f, y, a
<1>9. [[p EXCEPT !.st = "ARMED"] EXCEPT !.target = q.target] \in JobRecord
  BY <1>5, <1>6 DEF JobRecord, State
<1>. QED
  BY <1>3, <1>5, <1>6, <1>7, <1>8, <1>9 DEF q, BoundTo

LEMMA BindKeeps == ASSUME IInv, NEW x \in hooks, Bind(x)  PROVE IInv' /\ Steps
<1>. DEFINE j == x.job
            s == x.e.s
            r == job[j]
            p == Remember(r, x.e)
            held == index[s] \notin {NoJob, j} /\ IsActive(job[index[s]])
            bound == [p EXCEPT !.st = "ARMED", !.target[s].cur = x.e.t,
                               !.target[s].ws = IF j \in DryRun THEN @ ELSE x.e.ws]
<1>1. /\ x.pc = "bind" /\ hooks' = hooks \ {x}
      /\ UNCHANGED <<marks, worker, late, turn, mode, sent, rearmed>>
      /\ clean' = clean \/ clean' = clean \ {s}
  BY DEF Bind, hostVars, Disturb
<1>2. /\ x \in HookProcess /\ GoodHook(x) /\ x.e \in Event /\ s \in Session /\ s = Home[j] /\ x.e.t # 0
      /\ j \in Single /\ j \in Job /\ j \notin Barrier /\ r \in JobRecord /\ GoodJob(j, r)
      /\ job \in [Job -> JobRecord] /\ index \in [Session -> Job \cup {NoJob}]
  BY <1>1, HookTyped, GoodNow, BarrierAssumption DEF GoodHook, GoodEvent, Job, IInv, BarrierTypeOK
<1>3. job = [job EXCEPT ![j] = r] /\ [index EXCEPT ![s] = j][s] = j
  BY <1>2
<1>4. ASSUME UNCHANGED <<job, clean, unlinked>>, NEW A \in {index, [index EXCEPT ![s] = j]}, index' = A,
             A # index => Bound(j) /\ s \in rearmed, A = index => x.e \notin r.keys \/ ~Bound(j) \/ s \in rearmed
      PROVE  IInv' /\ Steps
  <2>1. IsActive(r) /\ r.target[s].cur # 0 => index'[s] = j \/ s \in rearmed \/ j \in unlinked'
    BY <1>2, <1>3, <1>4 DEF IInv, OwnInv, Owned, Bound
  <2>. QED
    BY <1>1, <1>2, <1>3, <1>4, <2>1, BindEnds
<1>5. CASE /\ x.e \in r.keys /\ UNCHANGED <<job, clean, unlinked>>
           /\ index' = IF Bound(j) THEN [index EXCEPT ![s] = j] ELSE index
  <2>1. s \in rearmed
    BY <1>1, <1>5 DEF IInv, RearmInv
  <2>. QED
    BY <1>4, <1>5, <2>1
<1>6. CASE UNCHANGED <<job, index, clean, unlinked>> /\ x.e \notin r.keys
  BY <1>4, <1>6
<1>7. CASE /\ r.st = "ARM_PENDING_BIND" /\ job' = [job EXCEPT ![j] = Remember(Close(r, "FAILED"), x.e)]
           /\ UNCHANGED <<index, clean, unlinked>>
  <2>1. PICK c \in JobRecord : c = Close(r, "FAILED") /\ c.st = "FAILED" /\ Same(r, c)
    BY <1>2, CloseFields DEF State, Terminal
  <2>2. PICK q \in JobRecord : q = Remember(c, x.e) /\ q.st = "FAILED" /\ q.keys \subseteq r.keys \cup {x.e}
    BY <1>2, <2>1, RememberFields DEF Same
  <2>3. GoodJob(j, q) /\ ~IsActive(q) /\ r.st \notin Terminal
    BY <1>2, <1>7, <2>2 DEF GoodJob, ValidSingle, IsActive, Terminal
  <2>. QED
    BY <1>1, <1>7, <2>1, <2>2, <2>3, BindEnds
<1>8. CASE /\ r.st = "ARM_PENDING_BIND" /\ job' = [job EXCEPT ![j] = bound] /\ ~held
           /\ \/ index' = [index EXCEPT ![s] = j] /\ UNCHANGED unlinked
              \/ unlinked' = unlinked \cup {j} /\ UNCHANGED index
  <2>1. /\ p \in JobRecord /\ p.st = r.st /\ p.target = r.target /\ p.keys \subseteq r.keys \cup {x.e}
        /\ p.target \in [Session -> StopTarget] /\ p.target[s] \in StopTarget
    BY <1>2, RememberFields, RecordFields
  <2>. HIDE DEF p
  <2>. DEFINE w == IF j \in DryRun THEN p.target[s].ws ELSE x.e.ws
              q == BoundTo(p, s, x.e.t, w)
  <2>2. bound = q
    BY DEF BoundTo
  <2>3. x.e.t \in Turn /\ w \in Directory \cup {"none"}
    BY <1>2, <2>1, EventFields, TargetFields
  <2>. HIDE DEF w
  <2>4. q \in JobRecord /\ q.st = "ARMED" /\ q.keys = p.keys /\ q.target[s].cur = x.e.t
    BY <1>2, <2>1, <2>3, BoundFields
  <2>. HIDE DEF q
  <2>6. GoodJob(j, q) /\ r.st \notin Terminal /\ q.target[s].cur # 0
    BY <1>2, <1>8, <2>4 DEF GoodJob, ValidSingle, Terminal
  <2>7. index' = [index EXCEPT ![s] = j] => index'[s] = j
    BY <1>3
  <2>. QED
    BY <1>1, <1>2, <1>8, <2>1, <2>2, <2>4, <2>6, <2>7, BindEnds
<1>. QED
  BY <1>5, <1>6, <1>7, <1>8 DEF Bind, Disturb, storeVars

-----------------------------------------------------------------------------
(* The invariant of the specification, and what every step does.           *)

LEMMA Initially == Init => IInv
<1>. SUFFICES ASSUME Init  PROVE IInv
  OBVIOUS
<1>. DEFINE none == [NewJob EXCEPT !.st = "NONE"]
<1>1. /\ job = [j \in Job |-> none] /\ index = [s \in Session |-> NoJob] /\ marks = [j \in Job |-> {}]
      /\ worker = {} /\ late = {} /\ hooks = {} /\ sent = {} /\ rearmed = {} /\ unlinked = {} /\ clean = Session
      /\ turn = [s \in Session |-> 1] /\ mode = [s \in Session |-> "run"]
  BY DEF Init
<1>2. ASSUME NEW j \in Job
      PROVE  /\ job[j] = none /\ none \in JobRecord /\ none.st = "NONE" /\ none.ready = FALSE /\ none.creq = FALSE
             /\ none.keys = {} /\ \A s \in Session : none.target[s] = Blank
  <2>1. PICK u \in Session : TRUE
    <3>1. CASE j \in Barrier
      BY <3>1, BarrierAssumption
    <3>2. CASE j \in Single
      BY <3>2, BarrierAssumption
    <3>. QED
      BY <3>1, <3>2 DEF Job
  <2>2. /\ NewJob \in JobRecord /\ NewJob.ready = FALSE /\ NewJob.creq = FALSE /\ NewJob.keys = {}
        /\ \A s \in Session : NewJob.target[s] = Blank
    BY <2>1, NewFields
  <2>. QED
    BY <1>1, <2>2 DEF JobRecord, State
<1>. HIDE DEF none
<1>3. ASSUME NEW j \in Job  PROVE GoodJob(j, job[j])
  <2>1. j \in Barrier => Targets[j] \subseteq Session
    BY BarrierAssumption
  <2>2. ValidTarget(Blank)
    BY BlankTyped DEF ValidTarget
  <2>3. j \in Barrier => GoodBarrier(j, job[j])
    BY <1>2, <2>1, <2>2 DEF GoodBarrier, ValidBarrier, Terminal
  <2>4. ValidSingle(j, job[j])
    BY <1>2 DEF ValidSingle
  <2>. QED
    BY <1>2, <2>3, <2>4 DEF GoodJob
<1>4. BarrierTypeOK
  <2>1. job \in [Job -> JobRecord]
    BY <1>1, <1>2
  <2>2. turn \in [Session -> Turn]
    <3>1. ASSUME NEW s \in Session  PROVE 1 \in Turn
      BY BarrierAssumption DEF Turn
    <3>. QED
      BY <1>1, <3>1
  <2>. QED
    BY <1>1, <2>1, <2>2 DEF BarrierTypeOK
<1>5. IndexInv
  <2>1. \A s \in Session : index[s] = NoJob
    BY <1>1
  <2>. QED
    BY <2>1, JobNotNone DEF IndexInv, Job
<1>6. HookInv
  <2>1. ASSUME NEW s \in Session  PROVE turn[s] # 0
    <3>1. turn[s] = 1
      BY <1>1
    <3>. QED
      BY <3>1
  <2>2. \A j \in Job : job[j].keys = {}
    BY <1>2
  <2>. QED
    BY <1>1, <2>1, <2>2 DEF HookInv
<1>7. OwnInv
  BY <1>2 DEF OwnInv, IsActive, Job
<1>8. RearmInv /\ CleanInv /\ IdleInv
  BY <1>1, <1>2 DEF RearmInv, CleanInv, Alone, IdleInv, IsActive, Job
<1>9. DeafInv
  <2>1. ASSUME NEW j \in Single  PROVE ~Bound(j) /\ index[Home[j]] # j
    <3>1. j \in Job /\ Home[j] \in Session /\ j # NoJob
      BY BarrierAssumption DEF Job
    <3>2. job[j].target[Home[j]].cur = 0
      BY <1>2, <3>1, BlankTyped
    <3>. QED
      BY <1>1, <3>1, <3>2 DEF Bound
  <2>. QED
    BY <1>1, <2>1 DEF DeafInv
<1>. QED
  BY <1>3, <1>4, <1>5, <1>6, <1>7, <1>8, <1>9 DEF IInv, JobInv

LEMMA Inductive == IInv /\ [Next]_vars => IInv' /\ Steps
<1>. SUFFICES ASSUME IInv, [Next]_vars  PROVE IInv' /\ Steps
  OBVIOUS
<1>1. CASE UNCHANGED vars
  <2>1. JobPart({}) /\ HookPart /\ OwnTypes'
    BY <1>1 DEF vars, JobPart, HookPart, OwnTypes, IInv, BarrierTypeOK
  <2>. QED
    BY <1>1, <2>1, QuietStep DEF vars
<1>2. CASE HostNext
  BY <1>2, HostNextKeeps
<1>3. CASE ReplayNext
  BY <1>3, RedeliverKeeps, RearmKeeps DEF ReplayNext
<1>4. CASE ArmNext
  BY <1>4, ArmSingleKeeps, ReserveKeeps, BindBarrierKeeps DEF ArmNext
<1>5. CASE HookNext
  BY <1>5, BindKeeps, CaptureKeeps, MarkKeeps, UpdateKeeps, RestKeeps DEF HookNext, HookStep
<1>6. CASE JobNext
  BY <1>6, JobKeeps DEF JobNext
<1>. QED
  BY <1>1, <1>2, <1>3, <1>4, <1>5, <1>6 DEF Next

LEMMA Invariant == Spec => []IInv
BY Initially, Inductive, PTL DEF Spec

-----------------------------------------------------------------------------
(* The theorems.                                                           *)

\* Every variable has its type, whatever the hooks, faults and cancellations do.
THEOREM BarrierTyped == Spec => []BarrierTypeOK
<1>1. IInv => BarrierTypeOK
  BY DEF IInv
<1>. QED
  BY <1>1, Invariant, PTL

\* Validate and validateStopBarrier accept every record a save may write: no
\* update of a hook, controller, worker or supervisor is refused for its record.
THEOREM JobsStayValid == Spec => []ValidJobs
<1>1. IInv => ValidJobs
  BY DEF IInv, JobInv, GoodJob, GoodBarrier, ValidJobs, ValidJob, Job
<1>. QED
  BY <1>1, Invariant, PTL

\* CreateBarrierReservations, BindSession and releaseBarrierIndexesUnlocked
\* together: a job that is bound and not closed holds the index of each session
\* it watches, for any number of competing jobs.  The exceptions are a session
\* whose arm hook ran twice, and an after_stop job whose arm hook was cut off
\* before the index: that one gets no event, and never gets past ARMED.
THEOREM ReadyOwns == Spec => []ReadyOwnsIndexes
<1>1. IInv => ReadyOwnsIndexes
  <2>. SUFFICES ASSUME IInv  PROVE ReadyOwnsIndexes
    OBVIOUS
  <2>1. ASSUME NEW j \in Single, IsActive(job[j]), Bound(j), ~Hears(j)
        PROVE  j \in unlinked /\ job[j].st = "ARMED"
    <3>1. j \in unlinked /\ Home[j] \notin rearmed
      BY <2>1 DEF IInv, OwnInv, Hears
    <3>. QED
      BY <2>1, <3>1 DEF IInv, DeafInv, AtMostArmed, IsActive
  <2>. QED
    BY <2>1 DEF IInv, OwnInv, ReadyOwnsIndexes
<1>. QED
  BY <1>1, Invariant, PTL

\* applyBarrierPrompt and applyBarrierStop against hooks that look a job up and
\* apply their event later: a barrier that is ready to act, and that nobody has
\* asked to revoke, counts no session that is at work, unless the hook that will
\* report it is under way.
THEOREM CountedIsIdle == Spec => []CountedMeansIdle
<1>1. IInv => CountedMeansIdle
  <2>. SUFFICES ASSUME IInv, NEW b \in Barrier, NEW s \in Session,
                       job[b].st \in {"STOP_OBSERVED", "ACTION"}, ~job[b].creq, s \in Targets[b] \cap clean,
                       mode[s] = "run"
                PROVE  Busy(s)
    BY DEF CountedMeansIdle
  <2>1. GoodBarrier(b, job[b]) /\ IsActive(job[b])
    BY GoodNow DEF GoodJob, Job, IsActive, Terminal
  <2>2. BarrierSatisfied(b, job[b])
    BY <2>1 DEF GoodBarrier, ValidBarrier
  <2>3. Stopped(job[b].target[s])
    BY <2>2 DEF BarrierSatisfied
  <2>4. Reporting(s)
    BY <2>1, <2>3 DEF IInv, IdleInv
  <2>. QED
    BY <2>4 DEF Reporting, Busy
<1>. QED
  BY <1>1, Invariant, PTL

\* The early returns of the hooks, UpdateJob's callers and the supervisor on a
\* closed job: whatever is delivered late, twice or out of order, a job that has
\* ended stays ended.
THEOREM NothingRevives == Spec => NoRevival
<1>1. Steps => \A j \in Job : job[j].st \in Terminal => job'[j].st \in Terminal
  BY DEF Steps
<1>. QED
  BY <1>1, Invariant, Inductive, PTL DEF Spec, NoRevival

LEMMA RuleStep ==
    ASSUME IInv', Steps, NEW b \in Barrier
    PROVE  [Rule(b)!Next]_(Rule(b)!vars)
<1>. DEFINE r == job[b]
            q == job'[b]
<1>1. b \in Job /\ RuleMove(b, r, q)
  BY DEF Steps, Job
<1>2. q.creq \in BOOLEAN
  BY <1>1, RecordFields DEF IInv, BarrierTypeOK
<1>3. Counted(b, q) \in SUBSET Targets[b]
  BY DEF Counted
<1>. QED
  BY <1>1, <1>2, <1>3 DEF RuleMove, Rule!Next, Rule!vars, Rule!Count, Rule!Resume, Rule!Claim, Rule!Revoke, Rule!Close

LEMMA RuleInit == ASSUME Init, NEW b \in Barrier  PROVE Rule(b)!Init
<1>1. IInv /\ b \in Job /\ job[b].st = "NONE"
  <2>1. b \in Job
    BY DEF Job
  <2>2. NewJob \in JobRecord
    BY BarrierAssumption, NewFields
  <2>3. job[b] = [NewJob EXCEPT !.st = "NONE"]
    BY <2>1 DEF Init
  <2>. QED
    BY <2>1, <2>2, <2>3, Initially DEF JobRecord
<1>2. GoodBarrier(b, job[b]) /\ job[b].creq \in BOOLEAN /\ job[b].st \in State
  BY <1>1, GoodNow DEF GoodJob
<1>3. job[b].creq = FALSE /\ Counted(b, job[b]) = {}
  BY <1>1, <1>2, BlankTyped DEF GoodBarrier, Counted, Terminal
<1>4. Phase(job[b]) = "waiting"
  BY <1>1, <1>2, PhaseIs
<1>. QED
  BY <1>3, <1>4 DEF Rule!Init

\* The files, indexes, hooks and workers implement BarrierRule, for every
\* barrier at once: each of their steps is one the rule allows, or none.
THEOREM BarrierFollowsRule == Spec => ImplementsRule
<1>1. Init => \A b \in Barrier : Rule(b)!Init
  BY RuleInit
<1>2. IInv' /\ Steps => \A b \in Barrier : [Rule(b)!Next]_(Rule(b)!vars)
  BY RuleStep
<1>. QED
  BY <1>1, <1>2, Invariant, Inductive, PTL DEF Spec, ImplementsRule
====
