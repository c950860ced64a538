----------------------- MODULE VerifiedSuccessProofs -----------------------
(***************************************************************************)
(* What holds of VerifiedSuccess for any number of turns, any hook         *)
(* configurations and any disturbances.                                    *)
(***************************************************************************)
EXTENDS VerifiedSuccess, TLAPS

-----------------------------------------------------------------------------
(* The invariant.                                                          *)

\* What VerifiedTypeOK leaves out: the host and the supervisor.
HostRecord == [ turn : 1..MaxTurn, st : {"active", "closing", "idle", "interrupted", "ended"}, again : BOOLEAN,
                others : BOOLEAN, inst : {1, 2}, told : SUBSET Turn, conf : Config, loss : BOOLEAN,
                failed : BOOLEAN, live : BOOLEAN, may : SUBSET Disturbance ]
ShotRecord == [ idle : BOOLEAN, last : Turn, quiet : BOOLEAN, conf : Print0, inst : Instance, ready : BOOLEAN ]
SupPc == { "off", "run", "done", "fail", "cancel", "threads", "children", "inventory", "save", "lock", "quiet",
           "intent", "recheck", "call", "monitor" }
Goal == {"h1", "h2", "h3", "final", "watch"}
SupRecord == [ pc : SupPc, goal : Goal, base : JobRecord, shot : ShotRecord ]

TypeInv ==
    /\ late \in BOOLEAN /\ worker \in BOOLEAN /\ proved \in Turn
    /\ hooks \subseteq HookRecord /\ tool \in [Caller -> ToolRecord]
    /\ marks \subseteq {"Prompt", "Stop", "SessionEnd"} \X Turn
    /\ host \in HostRecord /\ sup \in SupRecord

\* What Validate keeps: no evidence without its report, no fingerprint without
\* its host, no cancellation request without an action to cancel.
GoodJob(r) ==
    /\ r \in JobRecord /\ (r.st = "NONE" => r.gen = 1)
    /\ r.h1 # 0 <=> r.inst # 0
    /\ r.h2 # 0 => r.h1 = r.h2
    /\ r.h3 # 0 => r.st \notin Working \cup {"WAITING", "ARM_PENDING_BIND"}
    /\ r.st \in {"STOP_OBSERVED"} \cup Acting => r.stop = r.ready /\ r.stop # 0 /\ r.fin
    /\ r.st = "VERIFYING" => ~r.fin
    /\ r.st \notin Acting \cup Terminal => ~r.creq

\* A supervisor has a job, and what a snapshot about to be saved holds.
SaveKnown(s) ==
    s.pc = "save" =>
        /\ s.goal \in {"h1", "h2", "h3"} /\ s.shot.conf # 0 /\ s.shot.inst # 0
        /\ s.goal = "h2" => s.shot.conf = s.base.h1
SupInv == (sup.pc # "off" => job.st # "NONE") /\ SaveKnown(sup)

\* Evidence that counts is about the turn that reported.
ProvedInv ==
    /\ job.st = "READY_PENDING_STOP" /\ job.fin => proved = job.ready
    /\ job.st \in {"STOP_OBSERVED"} \cup Acting => proved = job.stop

\* While its answer is outstanding in the turn that asked, a finish call is
\* the last word on the job.
Past == {"READY_PENDING_STOP", "WAITING"} \cup Terminal
Asked == tool["own"].pc \in {"verify", "reply"}
Calling == Asked /\ host.st = "active" /\ host.turn = tool["own"].t
ToolInv ==
    /\ \A c \in Caller : tool[c].gen <= job.gen
    /\ tool["own"].pc = "verify" /\ tool["other"].pc = "verify" => tool["own"].gen # tool["other"].gen
    /\ Asked => tool["own"].t <= host.turn
    /\ host.st = "closing" => tool["own"].pc = "none"
    /\ Calling =>
         /\ ~Busy /\ job.st \in Past \cup {"VERIFYING"}
         /\ job.st = "VERIFYING" => tool["own"].pc = "verify" /\ tool["own"].gen = job.gen
         /\ job.st = "READY_PENDING_STOP" => tool["own"].pc = "reply" /\ proved = tool["own"].t

\* ... and so is the hook of its answer.
HookInv ==
    /\ \A x, y \in hooks : Own(x) /\ Own(y) => x = y
    /\ \A x \in hooks :
         /\ x.t # 0
         /\ x.mark => x.kind \in {"Prompt", "Stop", "SessionEnd"}
         /\ x.kind = "Finish" =>
              job.st \in Past /\ (job.st = "READY_PENDING_STOP" => proved = x.t)

IInv == TypeInv /\ GoodJob(job) /\ SupInv /\ ProvedInv /\ ToolInv /\ HookInv
-----------------------------------------------------------------------------
(* Job records: what the transactions do to one.                           *)

\* A step of anybody on an open job is one of these.
Kept(r, q) == q.ready = r.ready /\ q.stop = r.stop /\ q.fin = r.fin
Notes(r, q) ==
    /\ q.st = r.st \/ (r.st = "ARMED" /\ q.st = "HOST_MONITORING")
    /\ Kept(r, q) /\ q.creq = r.creq /\ q.gen = r.gen
Ends(r, q) == IsActive(r) /\ q.st \in Terminal /\ q.gen \in Nat /\ q.gen >= r.gen
Claims(r, q) ==
    /\ \/ r.st = "STOP_OBSERVED" /\ q.st = "ACTION_INTENT"
       \/ r.st = "ACTION_INTENT" /\ q.st = "ACTION_SCHEDULED"
    /\ Kept(r, q) /\ q.creq = r.creq /\ q.gen = r.gen
Revokes(r, q) ==
    /\ Unresolved(r) /\ q.st = r.st /\ q.creq = TRUE
    /\ Kept(r, q) /\ q.gen = r.gen + 1
Reopens(r, q) ==
    /\ IsActive(r) /\ ~Unresolved(r) /\ q.st = "ARMED" /\ q.creq = FALSE
    /\ q.gen \in Nat /\ q.gen >= r.gen /\ (r.st = "ARM_PENDING_BIND" \/ q.gen > r.gen)
Waits(r, q) ==
    /\ IsActive(r) /\ ~Unresolved(r) /\ q.st = "WAITING" /\ q.creq = FALSE
    /\ q.gen \in Nat /\ q.gen > r.gen
Stops(r, q) ==
    /\ r.st = "READY_PENDING_STOP" /\ r.fin /\ q.st = "STOP_OBSERVED"
    /\ q.stop = r.ready /\ q.creq = r.creq /\ q.gen = r.gen
Sees(r, q, t) ==
    /\ r.st = "READY_PENDING_STOP" /\ q.st = r.st /\ r.ready = t
    /\ q.ready = r.ready /\ q.creq = r.creq /\ q.gen = r.gen

\* Invalidate keeps the turn and clears evidence, host and cancellation request.
LEMMA ClearFields ==
    ASSUME NEW r \in JobRecord, NEW s \in State
    PROVE  LET q == Invalidate(r, s)
           IN /\ q \in JobRecord
              /\ q.st = s /\ q.gen = r.gen + 1 /\ q.cur = r.cur
              /\ q.ready = 0 /\ q.stop = 0 /\ q.fin = FALSE /\ q.creq = FALSE
              /\ q.h1 = 0 /\ q.h2 = 0 /\ q.h3 = 0 /\ q.inst = 0
<1>. DEFINE b == Bump(r)
            c == ClearCompletion(b)
<1>1. b \in JobRecord /\ b.gen = r.gen + 1 /\ b.cur = r.cur
  BY DEF JobRecord, Bump
<1>2. /\ c \in JobRecord /\ c.gen = b.gen /\ c.cur = b.cur
      /\ c.ready = 0 /\ c.stop = 0 /\ c.fin = FALSE /\ c.creq = FALSE
      /\ c.h1 = 0 /\ c.h2 = 0 /\ c.h3 = 0 /\ c.inst = 0
  <2>. HIDE DEF b
  <2>1. 0 \in Turn /\ 0 \in Print0 /\ 0 \in Instance
    BY VerifiedAssumption DEF Turn, Print0, Instance
  <2>. QED
    BY <1>1, <2>1 DEF JobRecord, ClearCompletion
<1>. HIDE DEF c
<1>. QED
  BY <1>1, <1>2 DEF JobRecord, Invalidate, b, c

\* An open job that is reopened or put to wait, in whatever turn, and one that ends.
LEMMA ResetGood ==
    ASSUME NEW r, GoodJob(r), NEW s \in {"ARMED", "WAITING"} \cup Terminal
    PROVE  /\ GoodJob(Invalidate(r, s))
           /\ \A t \in Turn : GoodJob([Invalidate(r, s) EXCEPT !.cur = t])
<1>. DEFINE q == Invalidate(r, s)
<1>1. r \in JobRecord /\ s \in State
  BY DEF GoodJob, State, Working
<1>2. /\ q \in JobRecord /\ q.st = s /\ q.fin = FALSE /\ q.creq = FALSE
      /\ q.h1 = 0 /\ q.h2 = 0 /\ q.h3 = 0 /\ q.inst = 0
  BY <1>1, ClearFields
<1>. HIDE DEF q
<1>3. GoodJob(q)
  BY <1>2 DEF GoodJob, Terminal, Acting, Working
<1>4. ASSUME NEW t \in Turn  PROVE GoodJob([q EXCEPT !.cur = t])
  BY <1>2 DEF GoodJob, Terminal, Acting, Working, JobRecord
<1>. QED
  BY <1>3, <1>4 DEF q

\* A new generation changes nothing else.
LEMMA BumpFields ==
    ASSUME NEW r \in JobRecord
    PROVE  LET q == Bump(r)
           IN /\ q \in JobRecord
              /\ q.st = r.st /\ q.gen = r.gen + 1 /\ q.cur = r.cur /\ q.creq = r.creq
              /\ Kept(r, q) /\ q.pass = r.pass
              /\ q.h1 = r.h1 /\ q.h2 = r.h2 /\ q.h3 = r.h3 /\ q.inst = r.inst
BY DEF JobRecord, Bump, Kept

\* A cancellation request of an unresolved action revokes it.
LEMMA RevokeGood ==
    ASSUME NEW r, GoodJob(r)
    PROVE  /\ RequestCancel(r) \in JobRecord /\ RequestCancel(r).gen = r.gen + 1
           /\ Unresolved(r) => GoodJob(RequestCancel(r)) /\ Revokes(r, RequestCancel(r))
<1>. DEFINE b == Bump(r)
            q == [b EXCEPT !.creq = TRUE]
<1>1. r \in JobRecord /\ RequestCancel(r) = q
  BY DEF GoodJob, RequestCancel
<1>2. /\ b \in JobRecord /\ b.st = r.st /\ b.gen = r.gen + 1 /\ Kept(r, b)
      /\ b.h1 = r.h1 /\ b.h2 = r.h2 /\ b.h3 = r.h3 /\ b.inst = r.inst
  BY <1>1, BumpFields
<1>. HIDE DEF b
<1>3. /\ q \in JobRecord /\ q.st = r.st /\ q.gen = r.gen + 1 /\ q.creq = TRUE
      /\ q.ready = b.ready /\ q.stop = b.stop /\ q.fin = b.fin
      /\ q.h1 = r.h1 /\ q.h2 = r.h2 /\ q.h3 = r.h3 /\ q.inst = r.inst
  BY <1>2 DEF JobRecord
<1>4. Kept(r, q)
  BY <1>2, <1>3 DEF Kept
<1>. HIDE DEF q
<1>5. ASSUME Unresolved(r)  PROVE GoodJob(q) /\ Revokes(r, q)
  <2>1. Revokes(r, q)
    BY <1>3, <1>4, <1>5 DEF Revokes
  <2>2. r.st \in Acting /\ r.stop = r.ready /\ r.stop # 0 /\ r.fin
    BY <1>5 DEF Unresolved, GoodJob
  <2>3. q.stop = q.ready /\ q.stop # 0 /\ q.fin
    BY <1>4, <2>2 DEF Kept
  <2>4. q.st \in Acting
    BY <1>3, <2>2
  <2>5. /\ q.h1 # 0 <=> q.inst # 0
        /\ q.h2 # 0 => q.h1 = q.h2
    BY <1>3 DEF GoodJob
  <2>. QED
    BY <1>3, <2>1, <2>3, <2>4, <2>5 DEF GoodJob, Acting, Working, Terminal
<1>. QED
  BY <1>1, <1>3, <1>5

\* A record whose state is all that matters in the end.
LEMMA ClosedGood ==
    ASSUME NEW r, GoodJob(r), NEW q \in JobRecord, q.st \in Terminal, q.gen >= r.gen,
           q.h1 = r.h1, q.h2 = r.h2, q.h3 = r.h3, q.inst = r.inst
    PROVE  GoodJob(q) /\ (IsActive(r) => Ends(r, q))
<1>1. q.gen \in Nat
  BY DEF JobRecord
<1>. QED
  BY <1>1 DEF GoodJob, Ends, Terminal, Acting, Working

\* Closing a job in place, with a new generation or a cancellation, or both.
LEMMA EndGood ==
    ASSUME NEW r, GoodJob(r), NEW s \in Terminal, NEW c \in BOOLEAN
    PROVE  /\ GoodJob([r EXCEPT !.st = s]) /\ (IsActive(r) => Ends(r, [r EXCEPT !.st = s]))
           /\ GoodJob([r EXCEPT !.st = s, !.creq = c])
           /\ IsActive(r) => Ends(r, [r EXCEPT !.st = s, !.creq = c])
           /\ GoodJob([Bump(r) EXCEPT !.st = s])
           /\ IsActive(r) => Ends(r, [Bump(r) EXCEPT !.st = s])
           /\ GoodJob([Bump(r) EXCEPT !.st = s, !.creq = c])
           /\ IsActive(r) => Ends(r, [Bump(r) EXCEPT !.st = s, !.creq = c])
<1>. DEFINE b == Bump(r)
<1>1. r \in JobRecord /\ s \in State /\ r.gen \in Nat
  BY DEF GoodJob, State, JobRecord
<1>2. /\ b \in JobRecord /\ b.gen = r.gen + 1
      /\ b.h1 = r.h1 /\ b.h2 = r.h2 /\ b.h3 = r.h3 /\ b.inst = r.inst
  BY <1>1, BumpFields
<1>. HIDE DEF b
<1>3. ASSUME NEW a \in JobRecord, a.gen >= r.gen, a.h1 = r.h1, a.h2 = r.h2, a.h3 = r.h3, a.inst = r.inst,
             NEW q, q \in {[a EXCEPT !.st = s], [a EXCEPT !.st = s, !.creq = c]}
      PROVE  GoodJob(q) /\ (IsActive(r) => Ends(r, q))
  <2>1. /\ q \in JobRecord /\ q.st = s /\ q.gen = a.gen
        /\ q.h1 = a.h1 /\ q.h2 = a.h2 /\ q.h3 = a.h3 /\ q.inst = a.inst
    BY <1>1, <1>3 DEF JobRecord
  <2>. QED
    BY <1>3, <2>1, ClosedGood
<1>4. b.gen >= r.gen /\ r.gen >= r.gen
  BY <1>1, <1>2
<1>. QED
  BY <1>1, <1>2, <1>3, <1>4 DEF b

\* Expiry, pause and reopening, as moves.
LEMMA ExpireGood ==
    ASSUME NEW r, GoodJob(r)
    PROVE  /\ GoodJob(Expire(r)) /\ (IsActive(r) => Ends(r, Expire(r)))
           /\ \A s \in Terminal : IsActive(r) => Ends(r, Invalidate(r, s))
           /\ IsActive(r) /\ ~Unresolved(r) => Waits(r, Invalidate(r, "WAITING"))
           /\ \A t \in Turn :
                IsActive(r) /\ ~Unresolved(r) => Reopens(r, [Invalidate(r, "ARMED") EXCEPT !.cur = t])
<1>1. r \in JobRecord /\ Terminal \cup {"ARMED", "WAITING"} \subseteq State /\ r.gen \in Nat
  BY DEF GoodJob, State, Working, JobRecord
<1>2. \A s \in Terminal \cup {"ARMED", "WAITING"} :
        LET q == Invalidate(r, s)
        IN q \in JobRecord /\ q.st = s /\ q.gen = r.gen + 1 /\ q.creq = FALSE
  BY <1>1, ClearFields
<1>3. GoodJob(Expire(r))
  BY ResetGood DEF Expire, Terminal
<1>4. \A s \in Terminal : IsActive(r) => Ends(r, Invalidate(r, s))
  BY <1>1, <1>2 DEF Ends
<1>5. IsActive(r) => Ends(r, Expire(r))
  BY <1>4 DEF Expire, Terminal
<1>6. IsActive(r) /\ ~Unresolved(r) => Waits(r, Invalidate(r, "WAITING"))
  BY <1>1, <1>2 DEF Waits
<1>7. ASSUME NEW t \in Turn, IsActive(r), ~Unresolved(r)
      PROVE  Reopens(r, [Invalidate(r, "ARMED") EXCEPT !.cur = t])
  <2>. DEFINE q == Invalidate(r, "ARMED")
  <2>1. q \in JobRecord /\ q.st = "ARMED" /\ q.gen = r.gen + 1 /\ q.creq = FALSE
    BY <1>2
  <2>. HIDE DEF q
  <2>2. Reopens(r, [q EXCEPT !.cur = t])
    BY <1>1, <1>7, <2>1 DEF Reopens, JobRecord
  <2>. QED
    BY <2>2 DEF q
<1>. QED
  BY <1>3, <1>4, <1>5, <1>6, <1>7

-----------------------------------------------------------------------------
(* What a hook makes of the job.                                           *)

\* The turn and the mark of a hook.
LEMMA TurnTyped == ASSUME NEW x \in HookRecord  PROVE x.t \in Turn /\ x.mark \in BOOLEAN
BY DEF HookRecord

\* The arm hook binds the job to its turn.
LEMMA BindGood ==
    ASSUME NEW r, GoodJob(r), NEW t \in Turn, r.st = "ARM_PENDING_BIND"
    PROVE  LET q == [r EXCEPT !.st = "ARMED", !.cur = t] IN GoodJob(q) /\ Reopens(r, q)
<1>. DEFINE q == [r EXCEPT !.st = "ARMED", !.cur = t]
<1>1. r \in JobRecord /\ "ARMED" \in State /\ r.gen \in Nat
  BY DEF GoodJob, State, Working, JobRecord
<1>2. /\ q \in JobRecord /\ q.st = "ARMED" /\ q.gen = r.gen /\ q.creq = r.creq
      /\ q.h1 = r.h1 /\ q.h2 = r.h2 /\ q.h3 = r.h3 /\ q.inst = r.inst
  BY <1>1 DEF JobRecord
<1>. HIDE DEF q
<1>3. GoodJob(q)
  BY <1>2 DEF GoodJob, Terminal, Acting, Working
<1>4. q.creq = FALSE
  BY <1>2 DEF GoodJob, Terminal, Acting, JobRecord
<1>5. Reopens(r, q)
  BY <1>1, <1>2, <1>4 DEF Reopens, IsActive, Unresolved, Acting, Terminal
<1>. QED
  BY <1>3, <1>5 DEF q

\* The Stop of the turn that reported.
LEMMA StopGood ==
    ASSUME NEW r, GoodJob(r), NEW t \in Turn, t # 0, r.st = "READY_PENDING_STOP", r.fin, r.ready = t
    PROVE  LET q == [r EXCEPT !.st = "STOP_OBSERVED", !.stop = t] IN GoodJob(q) /\ Stops(r, q)
<1>. DEFINE q == [r EXCEPT !.st = "STOP_OBSERVED", !.stop = t]
<1>1. r \in JobRecord /\ "STOP_OBSERVED" \in State
  BY DEF GoodJob, State, Reported
<1>2. /\ q \in JobRecord /\ q.st = "STOP_OBSERVED" /\ q.gen = r.gen /\ q.creq = r.creq
      /\ q.stop = t /\ q.ready = r.ready /\ q.fin = r.fin
      /\ q.h1 = r.h1 /\ q.h2 = r.h2 /\ q.h3 = r.h3 /\ q.inst = r.inst
  BY <1>1 DEF JobRecord
<1>. HIDE DEF q
<1>3. GoodJob(q)
  BY <1>2 DEF GoodJob, Terminal, Acting, Working
<1>4. Stops(r, q)
  BY <1>2 DEF Stops
<1>. QED
  BY <1>3, <1>4 DEF q

\* The hook of the answer completes the report.
LEMMA SeenGood ==
    ASSUME NEW r, GoodJob(r), r.st = "READY_PENDING_STOP"
    PROVE  LET q == [r EXCEPT !.fin = TRUE] IN GoodJob(q) /\ Sees(r, q, r.ready)
<1>. DEFINE q == [r EXCEPT !.fin = TRUE]
<1>1. r \in JobRecord
  BY DEF GoodJob
<1>2. /\ q \in JobRecord /\ q.st = r.st /\ q.gen = r.gen /\ q.creq = r.creq /\ q.ready = r.ready
      /\ q.h1 = r.h1 /\ q.h2 = r.h2 /\ q.h3 = r.h3 /\ q.inst = r.inst
  BY <1>1 DEF JobRecord
<1>. HIDE DEF q
<1>3. GoodJob(q)
  BY <1>2 DEF GoodJob, Terminal, Acting, Working
<1>4. Sees(r, q, r.ready)
  BY <1>2 DEF Sees
<1>. QED
  BY <1>3, <1>4 DEF q

\* What a hook can do to a job, whichever it is: only one of the armed session
\* reopens it, and only that of an answer completes a report.
HookMoves(x, r, q) ==
    \/ q = r \/ Ends(r, q) \/ Revokes(r, q)
    \/ Own(x) /\ (Stops(r, q) \/ Reopens(r, q))
    \/ x.kind = "Finish" /\ Sees(r, q, x.t)

\* Every hook keeps the job valid and makes one of these moves.
LEMMA AfterStep ==
    ASSUME NEW r, GoodJob(r), NEW x \in HookRecord, x.t # 0
    PROVE  GoodJob(After(x, r)) /\ HookMoves(x, r, After(x, r))
<1>. DEFINE Fine(q) == GoodJob(q) /\ HookMoves(x, r, q)
<1>1. Fine(r)
  BY DEF HookMoves
<1>. SUFFICES ASSUME IsActive(r)  PROVE Fine(After(x, r))
  BY <1>1 DEF After
<1>2. x.t \in Turn
  BY TurnTyped
<1>3. Fine(Expire(r))
  BY ExpireGood DEF HookMoves
<1>4. Unresolved(r) => Fine(RequestCancel(r))
  BY RevokeGood DEF HookMoves
<1>5. Own(x) /\ ~Unresolved(r) => Fine([Invalidate(r, "ARMED") EXCEPT !.cur = x.t])
  <2>1. GoodJob([Invalidate(r, "ARMED") EXCEPT !.cur = x.t])
    BY <1>2, ResetGood
  <2>2. ~Unresolved(r) => Reopens(r, [Invalidate(r, "ARMED") EXCEPT !.cur = x.t])
    BY <1>2, ExpireGood
  <2>. QED
    BY <2>1, <2>2 DEF HookMoves
<1>6. Fine(Invalidate(r, "FAILED"))
  <2>1. "FAILED" \in Terminal
    BY DEF Terminal
  <2>. QED
    BY <2>1, ResetGood, ExpireGood DEF HookMoves
<1>. HIDE DEF Fine
<1>a. CASE x.kind = "Prompt"
  <2>1. After(x, r) = AfterPrompt(r, x.t) /\ Own(x)
    BY <1>a DEF After, Own
  <2>. QED
    BY <2>1, <1>3, <1>4, <1>5 DEF AfterPrompt
<1>b. CASE x.kind = "Stop"
  <2>1. After(x, r) = AfterStop(r, x.t) /\ Own(x)
    BY <1>b DEF After, Own
  <2>2. ASSUME r.st = "READY_PENDING_STOP", r.fin, r.ready = x.t
        PROVE  Fine([r EXCEPT !.st = "STOP_OBSERVED", !.stop = x.t])
    BY <2>1, <2>2, <1>2, StopGood DEF HookMoves, Fine
  <2>. QED
    BY <2>1, <2>2, <1>1, <1>3, <1>4, <1>5 DEF AfterStop
<1>c. CASE x.kind = "SessionEnd"
  <2>1. After(x, r) = AfterSessionEnd(r)
    BY <1>c DEF After
  <2>. QED
    BY <2>1, <1>3, <1>4 DEF AfterSessionEnd
<1>d. CASE x.kind = "Arm"
  <2>1. After(x, r) = AfterArm(r, x.t) /\ Own(x)
    BY <1>d DEF After, Own
  <2>2. r.st = "ARM_PENDING_BIND" => Fine([r EXCEPT !.st = "ARMED", !.cur = x.t])
    BY <1>2, <2>1, BindGood DEF HookMoves, Fine
  <2>. QED
    BY <2>1, <2>2, <1>1, <1>3 DEF AfterArm
<1>e. CASE x.kind = "Finish"
  <2>1. After(x, r) = AfterFinish(r, x.t) /\ Own(x)
    BY <1>e DEF After, Own
  <2>2. r.st = "READY_PENDING_STOP" /\ r.ready = x.t => Fine([r EXCEPT !.fin = TRUE])
    BY <1>e, SeenGood DEF HookMoves, Fine
  <2>3. r.st = "READY_PENDING_STOP" => ~Unresolved(r)
    BY DEF Unresolved, Acting
  <2>. QED
    BY <2>1, <2>2, <2>3, <1>1, <1>3, <1>5 DEF AfterFinish
<1>f. CASE x.kind = "Pause"
  <2>1. After(x, r) = IF late THEN Expire(r) ELSE r
    BY <1>f DEF After
  <2>. QED
    BY <2>1, <1>1, <1>3
<1>g. CASE x.kind = "Stranger"
  <2>1. After(x, r) = AfterStranger(r)
    BY <1>g DEF After
  <2>. QED
    BY <2>1, <1>4, <1>6 DEF AfterStranger
<1>. QED
  BY <1>a, <1>b, <1>c, <1>d, <1>e, <1>f, <1>g DEF HookRecord

-----------------------------------------------------------------------------
(* The supervisor.                                                         *)

SupMoves(r, q) == q = r \/ Notes(r, q) \/ Ends(r, q) \/ Claims(r, q)

\* A step that changes nothing but where the supervisor is.
LEMMA GotoType ==
    ASSUME sup \in SupRecord, NEW pc \in SupPc, pc # "save", Goto(pc)
    PROVE  sup' \in SupRecord /\ SaveKnown(sup')
BY DEF SupRecord, Goto, SaveKnown

\* A new look at the host starts from the job as it is.
LEMMA LookType ==
    ASSUME sup \in SupRecord, job \in JobRecord, NEW goal \in Goal, Look(goal)
    PROVE  sup' \in SupRecord /\ SaveKnown(sup')
<1>1. Nothing \in ShotRecord
  BY VerifiedAssumption DEF Nothing, ShotRecord, Turn, Print0, Instance
<1>2. "threads" \in SupPc
  BY DEF SupPc
<1>. HIDE DEF Nothing
<1>. QED
  BY <1>1, <1>2 DEF SupRecord, Look, SaveKnown

\* Where the supervisor goes next, and what it holds when it is about to save.
LEMMA SupGoes ==
    ASSUME TypeInv, job \in JobRecord, SupStep
    PROVE  sup' \in SupRecord /\ SaveKnown(sup')
<1>. DEFINE Fine == sup' \in SupRecord /\ SaveKnown(sup')
<1>0. sup \in SupRecord /\ host \in HostRecord
  BY DEF TypeInv
<1>a. ASSUME NEW pc \in {"run", "done", "fail", "cancel", "lock", "recheck", "call", "monitor"}, Goto(pc)
      PROVE  Fine
  <2>1. pc \in SupPc /\ pc # "save"
    BY DEF SupPc
  <2>. QED
    BY <1>0, <1>a, <2>1, GotoType
<1>b. ASSUME NEW goal \in Goal, Look(goal)  PROVE Fine
  BY <1>0, <1>b, LookType
<1>c. Refused \in {"cancel", "fail"}
  BY DEF Refused
<1>. SUFFICES Fine
  OBVIOUS
<1>. HIDE DEF Fine
<1>1. CASE SupRun
  BY <1>1, <1>a, <1>b DEF SupRun, Goal
<1>2. CASE LookThreads
  <2>1. CASE sup' = [sup EXCEPT !.pc = Refused]
    <3>1. Goto(Refused)
      BY <2>1 DEF Goto
    <3>. QED
      BY <3>1, <1>a, <1>c
  <2>2. CASE sup' = [sup EXCEPT !.pc = "children", !.shot.idle = host.st \in {"idle", "interrupted"},
                                !.shot.last = IF host.st = "idle" THEN host.turn ELSE 0,
                                !.shot.quiet = ~host.others]
    <3>. DEFINE last == IF host.st = "idle" THEN host.turn ELSE 0
                idle == host.st \in {"idle", "interrupted"}
                quiet == ~host.others
                shot == [sup.shot EXCEPT !.idle = idle, !.last = last, !.quiet = quiet]
    <3>1. last \in Turn /\ idle \in BOOLEAN /\ quiet \in BOOLEAN
      BY <1>0, VerifiedAssumption DEF HostRecord, Turn
    <3>2. sup' = [sup EXCEPT !.pc = "children", !.shot = shot]
      BY <1>0, <2>2 DEF SupRecord, ShotRecord
    <3>. HIDE DEF last, idle, quiet
    <3>3. shot \in ShotRecord
      BY <1>0, <3>1 DEF SupRecord, ShotRecord
    <3>. HIDE DEF shot
    <3>. QED
      BY <1>0, <3>2, <3>3 DEF Fine, SupRecord, SupPc, SaveKnown
  <2>. QED
    BY <1>2, <2>1, <2>2 DEF LookThreads
<1>3. CASE LookChildren
  <2>1. sup' = [sup EXCEPT !.pc = "inventory",
                           !.shot = [sup.shot EXCEPT !.quiet = @ /\ ~host.others]]
    BY <1>0, <1>3 DEF LookChildren, SupRecord, ShotRecord
  <2>2. [sup.shot EXCEPT !.quiet = @ /\ ~host.others] \in ShotRecord
    BY <1>0 DEF SupRecord, ShotRecord
  <2>. QED
    BY <1>0, <2>1, <2>2 DEF Fine, SupRecord, SupPc, SaveKnown
<1>4. CASE LookInventory
  <2>. DEFINE ready == ReadyForFinalGate(sup.base.stop)
              shot == [sup.shot EXCEPT !.conf = host.conf, !.inst = host.inst, !.ready = ready]
              seen == [sup EXCEPT !.shot.conf = host.conf, !.shot.inst = host.inst, !.shot.ready = ready]
  <2>1. /\ host.conf \in Print0 /\ host.conf # 0
        /\ host.inst \in Instance /\ host.inst # 0
    BY <1>0, VerifiedAssumption DEF HostRecord, Print0, Instance
  <2>2. ready \in BOOLEAN
    BY DEF ReadyForFinalGate
  <2>. HIDE DEF ready
  <2>3. shot \in ShotRecord /\ shot.conf = host.conf /\ shot.inst = host.inst
    BY <1>0, <2>1, <2>2 DEF SupRecord, ShotRecord
  <2>4. \A pc : [seen EXCEPT !.pc = pc] = [sup EXCEPT !.pc = pc, !.shot = shot]
    BY <1>0 DEF SupRecord, ShotRecord
  <2>. HIDE DEF shot, seen
  <2>5. ASSUME NEW pc \in {"save", "run", "intent", "fail", "monitor", "cancel"},
               sup' = [seen EXCEPT !.pc = pc],
               pc = "save" => sup.goal \in {"h1", "h2", "h3"} /\ (sup.goal = "h2" => host.conf = sup.base.h1)
        PROVE  Fine
    <3>1. sup' = [sup EXCEPT !.pc = pc, !.shot = shot]
      BY <2>4, <2>5
    <3>2. /\ sup' \in SupRecord
          /\ sup'.pc = pc /\ sup'.shot = shot /\ sup'.goal = sup.goal /\ sup'.base = sup.base
      BY <1>0, <2>3, <3>1 DEF SupRecord, SupPc
    <3>. QED
      BY <2>1, <2>3, <2>5, <3>2 DEF Fine, SaveKnown
  <2>6. \/ Goto("run") \/ Goto(Refused)
        \/ \E pc \in {"save", "run", "intent", "fail", "monitor", "cancel"} :
             /\ sup' = [seen EXCEPT !.pc = pc]
             /\ pc = "save" => sup.goal \in {"h1", "h2", "h3"}
                                 /\ (sup.goal = "h2" => host.conf = sup.base.h1)
    BY <1>4 DEF LookInventory, seen, ready
  <2>. QED
    BY <2>5, <2>6, <1>a, <1>c
<1>5. CASE SupSave
  BY <1>5, <1>a DEF SupSave
<1>6. CASE SupFail
  BY <1>6, <1>a DEF SupFail
<1>7. CASE SupGate
  <2>1. CASE sup' = [sup EXCEPT !.pc = "quiet", !.base = job]
    BY <1>0, <2>1 DEF Fine, SupRecord, SupPc, SaveKnown
  <2>. QED
    BY <1>7, <2>1, <1>a DEF SupGate
<1>8. CASE SupRecheck
  BY <1>8, <1>a, <1>b DEF SupRecheck, Goal
<1>9. CASE SupIntent
  BY <1>9, <1>a DEF SupIntent
<1>10. CASE SupLastLook
  BY <1>10, <1>a DEF SupLastLook
<1>11. CASE SupCall
  BY <1>11, <1>a DEF SupCall
<1>12. CASE SupMonitor
  BY <1>12, <1>a, <1>b DEF SupMonitor, Goal
<1>13. CASE SupCancel
  BY <1>13, <1>a DEF SupCancel
<1>. QED
  BY <1>1, <1>2, <1>3, <1>4, <1>5, <1>6, <1>7, <1>8, <1>9, <1>10, <1>11, <1>12, <1>13 DEF SupStep

\* Saving a snapshot keeps the job valid, and only notes what was seen.
LEMMA SaveGood ==
    ASSUME NEW r, GoodJob(r), NEW s \in SupRecord, SaveKnown(s), s.pc = "save",
           s.goal = "h1" => r.h1 = 0,
           s.goal = "h2" => r.h2 = 0 /\ r.h1 = s.base.h1,
           s.goal = "h3" => r.st = "STOP_OBSERVED"
    PROVE  LET q == CASE s.goal = "h1" -> [r EXCEPT !.h1 = s.shot.conf, !.inst = s.shot.inst,
                                                    !.st = IF @ = "ARMED" THEN "HOST_MONITORING" ELSE @]
                      [] s.goal = "h2" -> [r EXCEPT !.h2 = s.shot.conf]
                      [] s.goal = "h3" -> [r EXCEPT !.h3 = s.shot.conf]
           IN GoodJob(q) /\ Notes(r, q)
<1>1. r \in JobRecord /\ "HOST_MONITORING" \in State
  BY DEF GoodJob, State, Working
<1>2. s.shot.conf \in Print0 /\ s.shot.inst \in Instance /\ s.shot.conf # 0 /\ s.shot.inst # 0
  BY DEF SupRecord, ShotRecord, SaveKnown
<1>3. s.goal \in {"h1", "h2", "h3"} /\ (s.goal = "h2" => s.shot.conf = s.base.h1)
  BY DEF SaveKnown
<1>. DEFINE c == s.shot.conf
            i == s.shot.inst
<1>. HIDE DEF c, i
<1>4. CASE s.goal = "h1"
  <2>. DEFINE st == IF r.st = "ARMED" THEN "HOST_MONITORING" ELSE r.st
              q == [r EXCEPT !.h1 = c, !.inst = i, !.st = st]
  <2>1. st \in State
    BY <1>1 DEF JobRecord
  <2>2. /\ q \in JobRecord /\ q.st = st /\ q.gen = r.gen /\ Kept(r, q) /\ q.creq = r.creq
        /\ q.h1 = c /\ q.h2 = r.h2 /\ q.h3 = r.h3 /\ q.inst = i
    <3>. HIDE DEF st
    <3>. QED
      BY <1>1, <1>2, <2>1 DEF JobRecord, Kept, c, i
  <2>3. r.h1 = 0 /\ r.h2 = 0
    BY <1>4 DEF GoodJob
  <2>. HIDE DEF q
  <2>4. GoodJob(q)
    BY <1>2, <2>2, <2>3 DEF GoodJob, Kept, Terminal, Acting, Working, c, i
  <2>5. Notes(r, q)
    BY <2>2 DEF Notes
  <2>. QED
    BY <1>4, <2>4, <2>5 DEF q, c, i
<1>5. CASE s.goal = "h2"
  <2>. DEFINE q == [r EXCEPT !.h2 = c]
  <2>1. /\ q \in JobRecord /\ q.st = r.st /\ q.gen = r.gen /\ Kept(r, q) /\ q.creq = r.creq
        /\ q.h1 = r.h1 /\ q.h2 = c /\ q.h3 = r.h3 /\ q.inst = r.inst
    BY <1>1, <1>2 DEF JobRecord, Kept, c
  <2>. HIDE DEF q
  <2>2. GoodJob(q)
    BY <1>3, <1>5, <2>1 DEF GoodJob, Kept, c
  <2>3. Notes(r, q)
    BY <2>1 DEF Notes
  <2>. QED
    BY <1>5, <2>2, <2>3 DEF q, c
<1>6. CASE s.goal = "h3"
  <2>. DEFINE q == [r EXCEPT !.h3 = c]
  <2>1. /\ q \in JobRecord /\ q.st = r.st /\ q.gen = r.gen /\ Kept(r, q) /\ q.creq = r.creq
        /\ q.h1 = r.h1 /\ q.h2 = r.h2 /\ q.inst = r.inst
    BY <1>1, <1>2 DEF JobRecord, Kept, c
  <2>. HIDE DEF q
  <2>2. GoodJob(q)
    BY <1>6, <2>1 DEF GoodJob, Kept, Working
  <2>3. Notes(r, q)
    BY <2>1 DEF Notes
  <2>. QED
    BY <1>6, <2>2, <2>3 DEF q, c
<1>. QED
  BY <1>3, <1>4, <1>5, <1>6

\* An intent or its commitment keeps the evidence.
LEMMA ClaimGood ==
    ASSUME NEW r, GoodJob(r)
    PROVE  /\ r.st = "STOP_OBSERVED" =>
                LET q == [r EXCEPT !.st = "ACTION_INTENT"] IN GoodJob(q) /\ Claims(r, q)
           /\ r.st = "ACTION_INTENT" =>
                LET q == [r EXCEPT !.st = "ACTION_SCHEDULED"] IN GoodJob(q) /\ Claims(r, q)
<1>1. r \in JobRecord /\ {"ACTION_INTENT", "ACTION_SCHEDULED"} \subseteq State
  BY DEF GoodJob, State, Acting
<1>2. ASSUME NEW s \in Acting,
             \/ r.st = "STOP_OBSERVED" /\ s = "ACTION_INTENT"
             \/ r.st = "ACTION_INTENT" /\ s = "ACTION_SCHEDULED"
      PROVE  GoodJob([r EXCEPT !.st = s]) /\ Claims(r, [r EXCEPT !.st = s])
  <2>. DEFINE q == [r EXCEPT !.st = s]
  <2>1. /\ q \in JobRecord /\ q.st = s /\ q.gen = r.gen /\ Kept(r, q) /\ q.creq = r.creq
        /\ q.h1 = r.h1 /\ q.h2 = r.h2 /\ q.h3 = r.h3 /\ q.inst = r.inst
    BY <1>1, <1>2 DEF JobRecord, Kept
  <2>. HIDE DEF q
  <2>2. GoodJob(q)
    BY <1>2, <2>1 DEF GoodJob, Kept, Acting, Working, Terminal
  <2>3. Claims(r, q)
    BY <1>2, <2>1 DEF Claims
  <2>. QED
    BY <2>2, <2>3 DEF q
<1>3. "ACTION_INTENT" \in Acting /\ "ACTION_SCHEDULED" \in Acting
  BY DEF Acting
<1>4. r.st = "STOP_OBSERVED" =>
        GoodJob([r EXCEPT !.st = "ACTION_INTENT"]) /\ Claims(r, [r EXCEPT !.st = "ACTION_INTENT"])
  BY <1>2, <1>3
<1>5. r.st = "ACTION_INTENT" =>
        GoodJob([r EXCEPT !.st = "ACTION_SCHEDULED"]) /\ Claims(r, [r EXCEPT !.st = "ACTION_SCHEDULED"])
  BY <1>2, <1>3
<1>. QED
  BY <1>4, <1>5

\* What the supervisor makes of the job.
LEMMA SupJob ==
    ASSUME TypeInv, GoodJob(job), SupInv, SupStep
    PROVE  /\ GoodJob(job') /\ SupMoves(job, job')
           /\ UNCHANGED <<late, marks, worker, hooks, tool, host, proved>>
<1>1. UNCHANGED <<late, marks, worker, hooks, tool, host, proved>>
  <2>1. SupUnchanged
    BY DEF SupStep, SupRun, LookThreads, LookChildren, LookInventory, SupSave, SupFail, SupGate, SupRecheck,
           SupIntent, SupLastLook, SupCall, SupMonitor, SupCancel
  <2>. QED
    BY <2>1 DEF SupUnchanged
<1>. DEFINE Fine == GoodJob(job') /\ SupMoves(job, job')
<1>2. UNCHANGED job => Fine
  BY DEF SupMoves
<1>. SUFFICES Fine
  BY <1>1
<1>3. sup \in SupRecord /\ SaveKnown(sup) /\ (sup.pc # "off" => job.st # "NONE")
  BY DEF TypeInv, SupInv, SaveKnown
<1>4. CASE SupRun \/ LookThreads \/ LookChildren \/ LookInventory \/ SupGate \/ SupRecheck \/ SupMonitor
  <2>1. UNCHANGED job
    BY <1>4 DEF SupRun, LookThreads, LookChildren, LookInventory, SupGate, SupRecheck, SupMonitor
  <2>. QED
    BY <1>2, <2>1
<1>5. CASE SupSave
  <2>. DEFINE q == CASE sup.goal = "h1" -> [job EXCEPT !.h1 = sup.shot.conf, !.inst = sup.shot.inst,
                                                       !.st = IF @ = "ARMED" THEN "HOST_MONITORING" ELSE @]
                     [] sup.goal = "h2" -> [job EXCEPT !.h2 = sup.shot.conf]
                     [] sup.goal = "h3" -> [job EXCEPT !.h3 = sup.shot.conf]
  <2>1. sup.goal \in {"h1", "h2", "h3"} /\ sup.pc = "save"
    BY <1>3, <1>5 DEF SaveKnown, SupSave
  <2>2. CASE UNCHANGED job
    BY <1>2, <2>2
  <2>3. CASE /\ job' = q
             /\ CASE sup.goal = "h1" -> job.h1 = 0
                  [] sup.goal = "h2" -> job.h2 = 0 /\ job.h1 = sup.base.h1
                  [] sup.goal = "h3" -> job.st = "STOP_OBSERVED" /\ job.h1 = sup.base.h1
                                          /\ job.h2 = sup.base.h2
    <3>1. /\ sup.goal = "h1" => job.h1 = 0
          /\ sup.goal = "h2" => job.h2 = 0 /\ job.h1 = sup.base.h1
          /\ sup.goal = "h3" => job.st = "STOP_OBSERVED"
      BY <2>1, <2>3
    <3>2. GoodJob(q) /\ Notes(job, q)
      BY <1>3, <2>1, <3>1, SaveGood
    <3>. QED
      BY <2>3, <3>2 DEF SupMoves
  <2>. QED
    BY <1>5, <2>2, <2>3 DEF SupSave
<1>6. ASSUME NEW s \in Terminal, NEW c \in BOOLEAN, IsActive(job),
             job' = [job EXCEPT !.st = s] \/ job' = [job EXCEPT !.st = s, !.creq = c]
      PROVE  Fine
  <2>1. /\ GoodJob([job EXCEPT !.st = s]) /\ Ends(job, [job EXCEPT !.st = s])
        /\ GoodJob([job EXCEPT !.st = s, !.creq = c]) /\ Ends(job, [job EXCEPT !.st = s, !.creq = c])
    BY <1>6, EndGood
  <2>. QED
    BY <1>6, <2>1 DEF SupMoves
<1>7. CASE SupFail
  <2>1. job.st \notin Terminal => IsActive(job)
    BY <1>3, <1>7 DEF SupFail, IsActive
  <2>. QED
    BY <1>2, <1>6, <1>7, <2>1 DEF SupFail, Terminal
<1>8. Unresolved(job) => IsActive(job)
  BY DEF Unresolved, IsActive, Acting, Terminal
<1>9. CASE SupIntent
  <2>1. CASE UNCHANGED job
    BY <1>2, <2>1
  <2>2. CASE job.st = "STOP_OBSERVED" /\ job' = [job EXCEPT !.st = "ACTION_INTENT"]
    BY <2>2, ClaimGood DEF SupMoves
  <2>. QED
    BY <1>9, <2>1, <2>2 DEF SupIntent
<1>10. CASE SupLastLook
  <2>1. job.st = "ACTION_INTENT" => Unresolved(job)
    BY DEF Unresolved, Acting
  <2>. QED
    BY <1>2, <1>6, <1>8, <1>10, <2>1 DEF SupLastLook, Terminal
<1>11. CASE SupCall
  <2>1. CASE UNCHANGED job
    BY <1>2, <2>1
  <2>2. CASE job.st = "ACTION_INTENT" /\ job' = [job EXCEPT !.st = "ACTION_SCHEDULED"]
    BY <2>2, ClaimGood DEF SupMoves
  <2>. QED
    BY <1>11, <2>1, <2>2 DEF SupCall
<1>12. CASE SupCancel
  BY <1>2, <1>6, <1>8, <1>12 DEF SupCancel, Terminal
<1>. QED
  BY <1>4, <1>5, <1>7, <1>9, <1>10, <1>11, <1>12 DEF SupStep

-----------------------------------------------------------------------------
(* What the other parts keep while the job moves.                          *)

\* What anybody but the armed session's own hooks and calls can do.
QuietMoves(r, q) == q = r \/ Notes(r, q) \/ Ends(r, q) \/ Claims(r, q) \/ Revokes(r, q)

\* None of these moves makes a report, or takes a job out of Past.
LEMMA QuietFacts ==
    ASSUME NEW r, GoodJob(r), NEW q, GoodJob(q), QuietMoves(r, q)
    PROVE  /\ r.gen \in Nat /\ q.gen \in Nat /\ q.gen >= r.gen
           /\ q.st \in Past => r.st = q.st \/ q.st \in Terminal
           /\ r.st \in Past => q.st \in Past
           /\ q.st = "VERIFYING" => r.st = "VERIFYING" /\ q.gen = r.gen
           /\ r.st = "VERIFYING" => q.st \in Past \cup {"VERIFYING"}
           /\ q.st = "READY_PENDING_STOP" => r.st = "READY_PENDING_STOP" /\ q.fin = r.fin /\ q.ready = r.ready
           /\ q.st \in {"STOP_OBSERVED"} \cup Acting =>
                r.st \in {"STOP_OBSERVED"} \cup Acting /\ q.stop = r.stop
           /\ q.st = "NONE" => r.st = "NONE"
<1>1. r.gen \in Nat /\ q.gen \in Nat /\ r.st \in State
  BY DEF GoodJob, JobRecord
<1>2. CASE q = r
  BY <1>1, <1>2
<1>3. CASE Notes(r, q)
  BY <1>1, <1>3 DEF Notes, Kept, Past, Terminal, Acting
<1>4. CASE Ends(r, q)
  BY <1>1, <1>4 DEF Ends, Past, Terminal, Acting
<1>5. CASE Claims(r, q)
  BY <1>1, <1>5 DEF Claims, Kept, Past, Terminal, Acting
<1>6. CASE Revokes(r, q)
  BY <1>1, <1>6 DEF Revokes, Kept, Past, Terminal, Acting, Unresolved
<1>. QED
  BY <1>2, <1>3, <1>4, <1>5, <1>6 DEF QuietMoves

\* Neither the evidence nor an outstanding answer is touched by them.
Fresh == \A y \in hooks' : y.kind = "Finish" => \E x \in hooks : x.kind = "Finish" /\ x.t = y.t
FinishInv ==
    \A x \in hooks : x.kind = "Finish" => job.st \in Past /\ (job.st = "READY_PENDING_STOP" => proved = x.t)
ShapeInv ==
    /\ \A x, y \in hooks : Own(x) /\ Own(y) => x = y
    /\ \A x \in hooks : x.t # 0 /\ (x.mark => x.kind \in {"Prompt", "Stop", "SessionEnd"})

\* The two halves of HookInv.
LEMMA HookParts == /\ HookInv <=> FinishInv /\ ShapeInv
                   /\ HookInv' <=> FinishInv' /\ ShapeInv'
BY DEF HookInv, FinishInv, ShapeInv

\* Evidence and outstanding answers survive the quiet moves.
LEMMA QuietKeeps ==
    ASSUME IInv, GoodJob(job'), QuietMoves(job, job'),
           UNCHANGED <<tool, proved>>, host'.st = host.st, host'.turn = host.turn,
           Busy' => Busy, Fresh
    PROVE  ProvedInv' /\ ToolInv' /\ FinishInv'
<1>. USE DEF IInv
<1>1. /\ job.gen \in Nat /\ job'.gen \in Nat /\ job'.gen >= job.gen
      /\ job'.st \in Past => job.st = job'.st \/ job'.st \in Terminal
      /\ job.st \in Past => job'.st \in Past
      /\ job'.st = "VERIFYING" => job.st = "VERIFYING" /\ job'.gen = job.gen
      /\ job.st = "VERIFYING" => job'.st \in Past \cup {"VERIFYING"}
      /\ job'.st = "READY_PENDING_STOP" =>
           job.st = "READY_PENDING_STOP" /\ job'.fin = job.fin /\ job'.ready = job.ready
      /\ job'.st \in {"STOP_OBSERVED"} \cup Acting =>
           job.st \in {"STOP_OBSERVED"} \cup Acting /\ job'.stop = job.stop
  BY QuietFacts
<1>2. ProvedInv'
  BY <1>1 DEF ProvedInv
<1>3. FinishInv'
  BY <1>1 DEF HookInv, FinishInv, Fresh
<1>4. \A c \in Caller : tool[c].gen \in Nat /\ tool[c].gen <= job.gen
  BY DEF TypeInv, ToolRecord, ToolInv
<1>5. \A c \in Caller : tool'[c].gen <= job'.gen
  BY <1>1, <1>4
<1>6. /\ tool'["own"].pc = "verify" /\ tool'["other"].pc = "verify" => tool'["own"].gen # tool'["other"].gen
      /\ Asked' => tool'["own"].t <= host'.turn
      /\ host'.st = "closing" => tool'["own"].pc = "none"
  BY DEF ToolInv, Asked
<1>7. ASSUME Calling'
      PROVE  /\ ~Busy' /\ job'.st \in Past \cup {"VERIFYING"}
             /\ job'.st = "VERIFYING" => tool'["own"].pc = "verify" /\ tool'["own"].gen = job'.gen
             /\ job'.st = "READY_PENDING_STOP" => tool'["own"].pc = "reply" /\ proved' = tool'["own"].t
  <2>1. Calling
    BY <1>7 DEF Calling, Asked
  <2>2. /\ ~Busy /\ job.st \in Past \cup {"VERIFYING"}
        /\ job.st = "VERIFYING" => tool["own"].pc = "verify" /\ tool["own"].gen = job.gen
        /\ job.st = "READY_PENDING_STOP" => tool["own"].pc = "reply" /\ proved = tool["own"].t
    BY <2>1 DEF ToolInv
  <2>. QED
    BY <1>1, <2>2
<1>8. ToolInv'
  BY <1>5, <1>6, <1>7 DEF ToolInv
<1>. QED
  BY <1>2, <1>3, <1>8

-----------------------------------------------------------------------------
(* The steps that leave the job alone.                                     *)

\* A hook about the running turn.
LEMMA HookTyped ==
    ASSUME TypeInv, NEW k \in {"Prompt", "Stop", "SessionEnd", "Arm", "Finish", "Pause", "Stranger"},
           NEW again \in BOOLEAN
    PROVE  /\ Hook(k, again) \in HookRecord /\ Hook(k, again).t = host.turn /\ host.turn # 0
           /\ ~Hook(k, again).mark /\ Hook(k, again).kind = k
<1>1. host.turn \in 1..MaxTurn
  BY DEF TypeInv, HostRecord
<1>2. host.turn \in Turn /\ host.turn # 0
  BY <1>1, VerifiedAssumption DEF Turn
<1>. QED
  BY <1>2 DEF Hook, HookRecord

PromptHook(t) == [Hook("Prompt", FALSE) EXCEPT !.t = t]

\* The hook of a prompt is about the turn it begins.
LEMMA PromptTyped ==
    ASSUME TypeInv, NEW t \in 1..MaxTurn
    PROVE  /\ PromptHook(t) \in HookRecord /\ PromptHook(t).t # 0 /\ ~PromptHook(t).mark
           /\ PromptHook(t).kind = "Prompt"
<1>. DEFINE h == Hook("Prompt", FALSE)
<1>1. t \in Turn /\ t # 0
  BY VerifiedAssumption DEF Turn
<1>2. h \in HookRecord /\ ~h.mark /\ h.kind = "Prompt"
  BY HookTyped
<1>3. PromptHook(t) = [h EXCEPT !.t = t]
  BY DEF PromptHook
<1>. HIDE DEF h
<1>. QED
  BY <1>1, <1>2, <1>3 DEF HookRecord

\* A hook that starts while none of its host's is running.
LEMMA StartShape ==
    ASSUME ShapeInv, hooks \subseteq HookRecord, NEW x \in HookRecord, x.t # 0, ~x.mark,
           Own(x) => ~Busy, hooks' = hooks \cup {x}
    PROVE  ShapeInv' /\ hooks' \subseteq HookRecord
<1>1. \A y, z \in hooks' : Own(y) /\ Own(z) => y = z
  BY DEF ShapeInv, Busy
<1>2. \A y \in hooks' : y.t # 0 /\ (y.mark => y.kind \in {"Prompt", "Stop", "SessionEnd"})
  BY DEF ShapeInv
<1>. QED
  BY <1>1, <1>2 DEF ShapeInv

\* The host and its hooks keep their types.
LEMMA HostTyped ==
    ASSUME TypeInv, HostStep
    PROVE  host' \in HostRecord /\ hooks' \subseteq HookRecord
<1>. USE DEF TypeInv
<1>1. CASE UserPromptSubmit
  <2>1. host.turn + 1 \in 1..MaxTurn
    BY <1>1, VerifiedAssumption DEF UserPromptSubmit, HostRecord
  <2>2. host' \in HostRecord
    BY <1>1, <2>1 DEF UserPromptSubmit, Tell, HostRecord
  <2>3. PromptHook(host.turn + 1) \in HookRecord
    BY <2>1, PromptTyped
  <2>. QED
    BY <1>1, <2>2, <2>3 DEF UserPromptSubmit, PromptHook
<1>2. CASE StopEvent
  <2>1. Hook("Stop", host.again) \in HookRecord
    BY HookTyped DEF HostRecord
  <2>. QED
    BY <1>2, <2>1 DEF StopEvent, StartHook, Tell, HostRecord
<1>3. CASE TurnCompleted
  <2>1. hooks' = hooks /\ host.turn \in Turn
    BY <1>3, VerifiedAssumption DEF TurnCompleted, HostRecord, Turn
  <2>2. CASE host' = [Tell(host) EXCEPT !.st = "idle", !.told = @ \cup {host.turn}]
    <3>1. host.told \cup {host.turn} \in SUBSET Turn
      BY <2>1 DEF HostRecord
    <3>. QED
      BY <2>1, <2>2, <3>1 DEF Tell, HostRecord
  <2>3. CASE host' = [Tell(host) EXCEPT !.st = "active", !.again = TRUE]
    BY <2>1, <2>3 DEF Tell, HostRecord
  <2>. QED
    BY <1>3, <2>2, <2>3 DEF TurnCompleted
<1>4. CASE Interrupt
  BY <1>4 DEF Interrupt, Tell, HostRecord
<1>5. CASE SessionEnd
  <2>1. Hook("SessionEnd", FALSE) \in HookRecord
    BY HookTyped
  <2>. QED
    BY <1>5, <2>1 DEF SessionEnd, StartHook, Tell, HostRecord
<1>6. CASE Elsewhere
  BY <1>6 DEF Elsewhere, HostRecord
<1>. QED
  BY <1>1, <1>2, <1>3, <1>4, <1>5, <1>6 DEF HostStep

\* No step of the host breaks the invariant.
LEMMA HostKeeps ==
    ASSUME IInv, HostStep
    PROVE  IInv' /\ UNCHANGED job
<1>. USE DEF IInv
<1>1. UNCHANGED <<job, late, marks, worker, tool, sup, proved>>
  BY DEF HostStep, UserPromptSubmit, StopEvent, TurnCompleted, Interrupt, SessionEnd, Elsewhere
<1>2. host' \in HostRecord /\ hooks' \subseteq HookRecord
  BY HostTyped
<1>3. TypeInv' /\ GoodJob(job') /\ SupInv' /\ ProvedInv'
  <2>1. TypeInv'
    BY <1>1, <1>2 DEF TypeInv
  <2>2. SupInv' /\ ProvedInv'
    BY <1>1 DEF SupInv, SaveKnown, ProvedInv
  <2>. QED
    BY <1>1, <2>1, <2>2
<1>4. \/ host'.turn = host.turn
      \/ host'.turn = host.turn + 1 /\ ~Busy /\ host.st # "active"
  BY DEF TypeInv, HostRecord, HostStep, UserPromptSubmit, StopEvent, TurnCompleted, Interrupt, SessionEnd,
         Elsewhere, Tell
<1>5. \/ host'.st = host.st /\ host'.turn = host.turn /\ hooks' = hooks
      \/ host'.st = "active" /\ tool["own"].pc = "none" /\ host'.turn = host.turn
      \/ host'.st = "active" /\ host'.turn = host.turn + 1
      \/ host'.st = "closing" /\ tool["own"].pc = "none"
      \/ host'.st \notin {"active", "closing"}
  BY DEF TypeInv, ToolInv, HostRecord, HostStep, UserPromptSubmit, StopEvent, TurnCompleted, Interrupt,
         SessionEnd, Elsewhere, Tell
<1>6. host.turn \in Nat /\ tool["own"].t \in Nat
  BY VerifiedAssumption DEF TypeInv, HostRecord, ToolRecord, Caller, Turn
<1>7. ToolInv'
  <2>1. ASSUME Calling'
        PROVE  Calling /\ hooks' = hooks
    BY <1>1, <1>5, <1>6, <2>1 DEF Calling, Asked, ToolInv
  <2>2. Calling' =>
          /\ ~Busy' /\ job'.st \in Past \cup {"VERIFYING"}
          /\ job'.st = "VERIFYING" => tool'["own"].pc = "verify" /\ tool'["own"].gen = job'.gen
          /\ job'.st = "READY_PENDING_STOP" => tool'["own"].pc = "reply" /\ proved' = tool'["own"].t
    BY <1>1, <2>1 DEF ToolInv, Busy
  <2>3. /\ \A c \in Caller : tool'[c].gen <= job'.gen
        /\ tool'["own"].pc = "verify" /\ tool'["other"].pc = "verify" => tool'["own"].gen # tool'["other"].gen
    BY <1>1 DEF ToolInv
  <2>4. Asked' => tool'["own"].t <= host'.turn
    BY <1>1, <1>4, <1>6 DEF ToolInv, Asked
  <2>5. host'.st = "closing" => tool'["own"].pc = "none"
    BY <1>1, <1>5 DEF ToolInv
  <2>. QED
    BY <2>2, <2>3, <2>4, <2>5 DEF ToolInv
<1>8. HookInv'
  <2>1. CASE hooks' = hooks
    BY <1>1, <2>1 DEF HookInv
  <2>2. ASSUME NEW x \in HookRecord, hooks' = hooks \cup {x}, x.t # 0, ~x.mark, ~Busy, x.kind # "Finish"
        PROVE  HookInv'
    <3>1. ShapeInv'
      BY <2>2, StartShape, HookParts DEF TypeInv
    <3>2. FinishInv'
      BY <1>1, <2>2, HookParts DEF FinishInv
    <3>. QED
      BY <3>1, <3>2, HookParts
  <2>3. CASE UserPromptSubmit
    <3>1. host.turn + 1 \in 1..MaxTurn
      BY <2>3, <1>6, VerifiedAssumption DEF UserPromptSubmit
    <3>2. hooks' = hooks \cup {PromptHook(host.turn + 1)} /\ ~Busy
      BY <2>3 DEF UserPromptSubmit, PromptHook
    <3>. QED
      BY <2>2, <3>1, <3>2, PromptTyped
  <2>4. CASE StopEvent
    BY <2>2, <2>4, HookTyped DEF StopEvent, StartHook, TypeInv, HostRecord
  <2>5. CASE SessionEnd
    BY <2>2, <2>5, HookTyped DEF SessionEnd, StartHook
  <2>. QED
    BY <2>1, <2>3, <2>4, <2>5 DEF HostStep, TurnCompleted, Interrupt, Elsewhere
<1>. QED
  BY <1>1, <1>3, <1>7, <1>8

-----------------------------------------------------------------------------
(* The steps that close or revoke the job, whoever takes them.             *)

\* A cancelled job keeps the request.
LEMMA CancelGood ==
    ASSUME NEW r, GoodJob(r), IsActive(r)
    PROVE  LET q == [Invalidate(r, "CANCELLED") EXCEPT !.creq = TRUE]
           IN GoodJob(q) /\ Ends(r, q)
<1>. DEFINE b == Invalidate(r, "CANCELLED")
<1>1. r \in JobRecord /\ r.gen \in Nat /\ "CANCELLED" \in Terminal /\ "CANCELLED" \in State
  BY DEF GoodJob, JobRecord, Terminal, State
<1>2. GoodJob(b)
  BY <1>1, ResetGood
<1>3. b.st = "CANCELLED" /\ b.gen = r.gen + 1
  BY <1>1, ClearFields
<1>. HIDE DEF b
<1>4. [b EXCEPT !.st = "CANCELLED", !.creq = TRUE] = [b EXCEPT !.creq = TRUE]
  BY <1>2, <1>3 DEF GoodJob, JobRecord
<1>5. GoodJob([b EXCEPT !.creq = TRUE])
  BY <1>1, <1>2, <1>4, EndGood
<1>6. Ends(r, [b EXCEPT !.creq = TRUE])
  <2>. DEFINE q == [b EXCEPT !.creq = TRUE]
  <2>1. q.st = "CANCELLED" /\ q.gen = r.gen + 1
    BY <1>2, <1>3 DEF GoodJob, JobRecord
  <2>. HIDE DEF q
  <2>2. Ends(r, q)
    BY <1>1, <2>1 DEF Ends
  <2>. QED
    BY <2>2 DEF q
<1>. QED
  BY <1>5, <1>6 DEF b

\* A refresh, a request, the worker.
LEMMA CloseJob ==
    ASSUME GoodJob(job), Cancel \/ Refresh \/ Worker \/ Tick
    PROVE  GoodJob(job') /\ QuietMoves(job, job')
<1>. DEFINE Fine == GoodJob(job') /\ QuietMoves(job, job')
<1>1. UNCHANGED job => Fine
  BY DEF QuietMoves
<1>. SUFFICES Fine
  OBVIOUS
<1>2. CASE Cancel
  <2>1. CASE Unresolved(job)
    <3>1. job' = RequestCancel(job)
      BY <1>2, <2>1 DEF Cancel
    <3>. QED
      BY <2>1, <3>1, RevokeGood DEF QuietMoves
  <2>2. CASE ~Unresolved(job)
    <3>1. IsActive(job) /\ job' = [Invalidate(job, "CANCELLED") EXCEPT !.creq = TRUE]
      BY <1>2, <2>2 DEF Cancel
    <3>2. GoodJob([Invalidate(job, "CANCELLED") EXCEPT !.creq = TRUE])
          /\ Ends(job, [Invalidate(job, "CANCELLED") EXCEPT !.creq = TRUE])
      BY <3>1, CancelGood
    <3>. QED
      BY <3>1, <3>2 DEF QuietMoves
  <2>. QED
    BY <2>1, <2>2
<1>3. CASE Refresh
  BY <1>3, ExpireGood DEF Refresh, QuietMoves
<1>4. CASE Worker
  <2>1. CASE IsActive(job)
    <3>. DEFINE q == [Bump(job) EXCEPT !.st = "CANCELLED", !.creq = TRUE]
    <3>1. job' = q
      BY <1>4, <2>1 DEF Worker
    <3>2. "CANCELLED" \in Terminal
      BY DEF Terminal
    <3>3. GoodJob(q) /\ Ends(job, q)
      BY <2>1, <3>2, EndGood
    <3>. QED
      BY <3>1, <3>3 DEF QuietMoves
  <2>. QED
    BY <1>1, <1>4, <2>1 DEF Worker
<1>5. CASE Tick
  BY <1>1, <1>5 DEF Tick
<1>. QED
  BY <1>2, <1>3, <1>4, <1>5

\* A job does not become unarmed.
LEMMA GoodRecord == ASSUME GoodJob(job), GoodJob(job'), QuietMoves(job, job')
                    PROVE  job' \in JobRecord /\ (job'.st = "NONE" => job.st = "NONE")
<1>1. job' \in JobRecord
  BY DEF GoodJob
<1>2. job'.st = "NONE" => job.st = "NONE"
  BY QuietFacts
<1>. QED
  BY <1>1, <1>2

\* No cancellation, expiry or worker breaks the invariant.
LEMMA CloseKeeps ==
    ASSUME IInv, Cancel \/ Refresh \/ Worker \/ Tick
    PROVE  IInv' /\ QuietMoves(job, job')
<1>1. GoodJob(job') /\ QuietMoves(job, job')
  BY CloseJob DEF IInv
<1>2. UNCHANGED <<hooks, tool, host, sup, proved>>
  BY DEF Cancel, Refresh, Worker, Tick
<1>3. TypeInv'
  <2>1. late' \in BOOLEAN /\ worker' \in BOOLEAN /\ marks' \subseteq {"Prompt", "Stop", "SessionEnd"} \X Turn
    BY DEF IInv, TypeInv, Cancel, Refresh, Worker, Tick
  <2>. QED
    BY <1>2, <2>1 DEF IInv, TypeInv
<1>4. SupInv'
  BY <1>1, <1>2, GoodRecord DEF IInv, SupInv, SaveKnown
<1>5. Fresh /\ (Busy' => Busy)
  BY <1>2 DEF Fresh, Busy
<1>6. ProvedInv' /\ ToolInv' /\ FinishInv'
  BY <1>1, <1>2, <1>5, QuietKeeps
<1>7. ShapeInv'
  BY <1>2, HookParts DEF IInv, ShapeInv
<1>. QED
  BY <1>1, <1>3, <1>4, <1>6, <1>7, HookParts DEF IInv

\* No step of the supervisor breaks the invariant.
LEMMA SupKeeps ==
    ASSUME IInv, SupStep
    PROVE  IInv' /\ QuietMoves(job, job')
<1>1. /\ GoodJob(job') /\ SupMoves(job, job')
      /\ UNCHANGED <<late, marks, worker, hooks, tool, host, proved>>
  BY SupJob DEF IInv
<1>2. QuietMoves(job, job')
  BY <1>1 DEF SupMoves, QuietMoves
<1>3. sup' \in SupRecord /\ SaveKnown(sup')
  BY SupGoes DEF IInv, GoodJob
<1>4. TypeInv'
  BY <1>1, <1>3 DEF IInv, TypeInv
<1>5. SupInv'
  <2>1. sup.pc # "off"
    BY DEF SupStep, SupRun, LookThreads, LookChildren, LookInventory, SupSave, SupFail, SupGate, SupRecheck,
           SupIntent, SupLastLook, SupCall, SupMonitor, SupCancel
  <2>2. job'.st # "NONE"
    BY <1>1, <1>2, <2>1, GoodRecord DEF IInv, SupInv
  <2>. QED
    BY <1>3, <2>2 DEF SupInv, SaveKnown
<1>6. Fresh /\ (Busy' => Busy)
  BY <1>1 DEF Fresh, Busy
<1>7. ProvedInv' /\ ToolInv' /\ FinishInv'
  BY <1>1, <1>2, <1>6, QuietKeeps
<1>8. ShapeInv'
  BY <1>1, HookParts DEF IInv, ShapeInv
<1>. QED
  BY <1>1, <1>2, <1>4, <1>5, <1>7, <1>8, HookParts DEF IInv

-----------------------------------------------------------------------------
(* The hooks.                                                              *)

HookGoes(x) ==
    \/ hooks' = hooks \ {x}
    \/ \E y \in HookRecord :
         /\ y.kind = x.kind /\ y.t = x.t /\ (y.mark => x.kind \in {"Prompt", "Stop", "SessionEnd"})
         /\ hooks' = (hooks \ {x}) \cup {y}

\* When a hook goes on or ends, there is still at most one hook of the host.
LEMMA HookShape ==
    ASSUME ShapeInv, hooks \subseteq HookRecord, NEW x \in hooks, HookGoes(x)
    PROVE  ShapeInv' /\ hooks' \subseteq HookRecord /\ Fresh /\ (Busy' => Busy)
<1>1. CASE hooks' = hooks \ {x}
  BY <1>1 DEF ShapeInv, Fresh, Busy
<1>2. ASSUME NEW y \in HookRecord,
             y.kind = x.kind, y.t = x.t, y.mark => x.kind \in {"Prompt", "Stop", "SessionEnd"},
             hooks' = (hooks \ {x}) \cup {y}
      PROVE  ShapeInv' /\ hooks' \subseteq HookRecord /\ Fresh /\ (Busy' => Busy)
  <2>1. Own(y) <=> Own(x)
    BY <1>2 DEF Own
  <2>2. \A u, v \in hooks' : Own(u) /\ Own(v) => u = v
    BY <1>2, <2>1 DEF ShapeInv
  <2>3. \A u \in hooks' : u.t # 0 /\ (u.mark => u.kind \in {"Prompt", "Stop", "SessionEnd"})
    BY <1>2 DEF ShapeInv
  <2>4. Fresh /\ (Busy' => Busy)
    BY <1>2, <2>1 DEF Fresh, Busy
  <2>. QED
    BY <1>2, <2>2, <2>3, <2>4 DEF ShapeInv
<1>. QED
  BY <1>1, <1>2 DEF HookGoes

\* A hook before its update: a marker at most.
LEMMA ObserveGoes ==
    ASSUME TypeInv, NEW x \in hooks, Observe(x)
    PROVE  HookGoes(x) /\ marks' \subseteq {"Prompt", "Stop", "SessionEnd"} \X Turn
<1>1. x \in HookRecord /\ x.t \in Turn
  BY TurnTyped DEF TypeInv
<1>2. CASE x.kind \in {"Prompt", "Stop", "SessionEnd"} /\ ~Bound(job)
  BY <1>2 DEF Observe, HookGoes, TypeInv
<1>3. CASE ~(x.kind \in {"Prompt", "Stop", "SessionEnd"} /\ ~Bound(job))
  <2>. DEFINE m == Revoking(x) /\ IsActive(job)
              y == [x EXCEPT !.pc = "update", !.mark = m]
  <2>1. m \in BOOLEAN /\ (m => x.kind \in {"Prompt", "Stop", "SessionEnd"})
    BY DEF Revoking
  <2>2. hooks' = (hooks \ {x}) \cup {y} /\ marks' = IF m THEN marks \cup {<<x.kind, x.t>>} ELSE marks
    BY <1>3 DEF Observe, Advance
  <2>. HIDE DEF m
  <2>3. y \in HookRecord /\ y.kind = x.kind /\ y.t = x.t /\ y.mark = m
    BY <1>1, <2>1 DEF HookRecord
  <2>. HIDE DEF y
  <2>4. HookGoes(x)
    BY <2>1, <2>2, <2>3 DEF HookGoes
  <2>5. marks' \subseteq {"Prompt", "Stop", "SessionEnd"} \X Turn
    BY <1>1, <2>1, <2>2 DEF TypeInv
  <2>. QED
    BY <2>4, <2>5
<1>. QED
  BY <1>2, <1>3

\* An update; the hook of an answer has no marker and ends.
LEMMA UpdateGoes ==
    ASSUME TypeInv, ShapeInv, NEW x \in hooks, Update(x)
    PROVE  /\ HookGoes(x)
           /\ x.kind = "Finish" => hooks' = hooks \ {x}
<1>1. x \in HookRecord /\ (x.mark => x.kind \in {"Prompt", "Stop", "SessionEnd"})
  BY DEF TypeInv, ShapeInv
<1>2. CASE ~x.mark
  BY <1>2 DEF Update, HookGoes
<1>3. CASE x.mark
  <2>1. PICK pc \in {"launch", "cleanup"} : hooks' = (hooks \ {x}) \cup {[x EXCEPT !.pc = pc]}
    BY <1>3 DEF Update, Advance
  <2>. DEFINE y == [x EXCEPT !.pc = pc]
  <2>2. y \in HookRecord /\ y.kind = x.kind /\ y.t = x.t /\ y.mark = x.mark
    BY <1>1 DEF HookRecord
  <2>3. hooks' = (hooks \ {x}) \cup {y}
    BY <2>1
  <2>. HIDE DEF y
  <2>. QED
    BY <1>1, <1>3, <2>2, <2>3 DEF HookGoes
<1>. QED
  BY <1>2, <1>3

\* After its update a hook can only close or revoke.
LEMMA SettleJob ==
    ASSUME GoodJob(job), NEW x, Settle(x)
    PROVE  GoodJob(job') /\ QuietMoves(job, job')
<1>1. CASE UNCHANGED job
  BY <1>1 DEF QuietMoves
<1>2. CASE Unresolved(job) /\ job' = RequestCancel(job)
  BY <1>2, RevokeGood DEF QuietMoves
<1>3. CASE IsActive(job) /\ job' = [Bump(job) EXCEPT !.st = "FAILED"]
  <2>1. "FAILED" \in Terminal /\ TRUE \in BOOLEAN
    BY DEF Terminal
  <2>. QED
    BY <1>3, <2>1, EndGood DEF QuietMoves
<1>. QED
  BY <1>1, <1>2, <1>3 DEF Settle

\* Everything a hook does, except what it makes of the job.
LEMMA HookTypes ==
    ASSUME IInv, NEW x \in hooks, Observe(x) \/ Update(x) \/ Settle(x) \/ HookCrash(x)
    PROVE  /\ HookGoes(x) /\ TypeInv'
           /\ UNCHANGED <<late, tool, sup, proved>> /\ host'.st = host.st /\ host'.turn = host.turn
<1>. USE DEF IInv
<1>1. HookGoes(x)
  BY ObserveGoes, UpdateGoes, HookParts DEF Settle, HookCrash, HookGoes
<1>2. hooks' \subseteq HookRecord
  BY <1>1, HookShape, HookParts DEF TypeInv
<1>3. UNCHANGED <<late, tool, sup, proved>>
  BY DEF Observe, Update, Settle, HookCrash
<1>4. host' \in HostRecord /\ host'.st = host.st /\ host'.turn = host.turn
  BY DEF TypeInv, Observe, Update, Settle, HookCrash, HostRecord
<1>5. marks' \subseteq {"Prompt", "Stop", "SessionEnd"} \X Turn
  BY ObserveGoes DEF TypeInv, Update, Settle, HookCrash
<1>6. worker' \in BOOLEAN
  BY DEF TypeInv, Observe, Update, Settle, HookCrash
<1>7. TypeInv'
  BY <1>2, <1>3, <1>4, <1>5, <1>6 DEF TypeInv
<1>. QED
  BY <1>1, <1>3, <1>4, <1>7

\* What is left when a hook of the host itself reopens the job, completes its
\* report or stops it: no call of the session is outstanding, and no answer's hook.
LEMMA OwnUpdate ==
    ASSUME IInv, NEW x \in hooks, Update(x), Own(x), GoodJob(job'), job'.st # "NONE",
           job.gen \in Nat, job'.gen \in Nat, job'.gen >= job.gen,
           \/ Reopens(job, job') \/ Stops(job, job')
           \/ x.kind = "Finish" /\ Sees(job, job', x.t)
    PROVE  IInv'
<1>. USE DEF IInv
<1>1. /\ HookGoes(x) /\ TypeInv'
      /\ UNCHANGED <<late, tool, sup, proved>> /\ host'.st = host.st /\ host'.turn = host.turn
  BY HookTypes
<1>2. ShapeInv' /\ Fresh
  BY <1>1, HookShape, HookParts DEF TypeInv
<1>3. SupInv'
  BY <1>1 DEF SupInv, SaveKnown
<1>4. ProvedInv'
  <2>1. CASE Reopens(job, job')
    BY <2>1 DEF Reopens, ProvedInv, Acting
  <2>2. CASE Stops(job, job')
    BY <1>1, <2>2 DEF Stops, ProvedInv, Acting
  <2>3. CASE x.kind = "Finish" /\ Sees(job, job', x.t)
    BY <1>1, <2>3 DEF Sees, ProvedInv, HookInv, Acting
  <2>. QED
    BY <2>1, <2>2, <2>3
<1>5. FinishInv'
  <2>1. CASE x.kind = "Finish"
    <3>1. hooks' = hooks \ {x}
      BY <2>1, UpdateGoes, HookParts
    <3>2. \A y \in hooks' : y.kind # "Finish"
      BY <2>1, <3>1 DEF HookInv, Own
    <3>. QED
      BY <3>2 DEF FinishInv
  <2>2. CASE x.kind # "Finish"
    <3>1. \A y \in hooks : y.kind # "Finish"
      BY <2>2 DEF HookInv, Own
    <3>. QED
      BY <1>2, <3>1 DEF Fresh, FinishInv
  <2>. QED
    BY <2>1, <2>2
<1>6. ToolInv'
  <2>1. ~Calling
    BY DEF ToolInv, Busy
  <2>2. ~Calling'
    BY <1>1, <2>1 DEF Calling, Asked
  <2>3. \A c \in Caller : tool[c].gen \in Nat /\ tool[c].gen <= job.gen
    BY DEF TypeInv, ToolRecord, ToolInv
  <2>4. \A c \in Caller : tool'[c].gen <= job'.gen
    BY <1>1, <2>3
  <2>. QED
    BY <1>1, <2>2, <2>4 DEF ToolInv, Asked
<1>. QED
  BY <1>1, <1>2, <1>3, <1>4, <1>5, <1>6, HookParts

\* No step of a hook breaks the invariant.
LEMMA HookKeeps ==
    ASSUME IInv, NEW x \in hooks, Observe(x) \/ Update(x) \/ Settle(x) \/ HookCrash(x)
    PROVE  IInv' /\ (QuietMoves(job, job') \/ Reopens(job, job') \/ Stops(job, job') \/ Sees(job, job', x.t))
<1>. USE DEF IInv
<1>1. /\ HookGoes(x) /\ TypeInv'
      /\ UNCHANGED <<late, tool, sup, proved>> /\ host'.st = host.st /\ host'.turn = host.turn
  BY HookTypes
<1>2. ShapeInv' /\ Fresh /\ (Busy' => Busy)
  BY <1>1, HookShape, HookParts DEF TypeInv
<1>3. ASSUME GoodJob(job'), QuietMoves(job, job')
      PROVE  IInv'
  <2>1. SupInv'
    BY <1>1, <1>3, GoodRecord DEF SupInv, SaveKnown
  <2>2. ProvedInv' /\ ToolInv' /\ FinishInv'
    BY <1>1, <1>2, <1>3, QuietKeeps
  <2>. QED
    BY <1>1, <1>2, <1>3, <2>1, <2>2, HookParts
<1>4. CASE UNCHANGED job
  BY <1>3, <1>4 DEF QuietMoves
<1>5. CASE Settle(x)
  BY <1>3, <1>5, SettleJob
<1>6. CASE Update(x)
  <2>1. x \in HookRecord /\ x.t # 0 /\ job' = After(x, job)
    BY <1>6 DEF TypeInv, HookInv, Update
  <2>2. GoodJob(job') /\ HookMoves(x, job, job')
    BY <2>1, AfterStep
  <2>3. CASE QuietMoves(job, job')
    BY <1>3, <2>2, <2>3
  <2>4. CASE ~QuietMoves(job, job')
    <3>1. \/ Own(x) /\ Reopens(job, job')
          \/ Own(x) /\ Stops(job, job')
          \/ x.kind = "Finish" /\ Sees(job, job', x.t)
      BY <2>2, <2>4 DEF HookMoves, QuietMoves
    <3>2. Own(x)
      BY <3>1 DEF Own
    <3>3. job.gen \in Nat /\ job'.gen \in Nat /\ job'.gen >= job.gen /\ job'.st # "NONE"
      BY <2>2, <3>1 DEF GoodJob, JobRecord, Reopens, Stops, Sees
    <3>. QED
      BY <1>6, <2>2, <3>1, <3>2, <3>3, OwnUpdate
  <2>. QED
    BY <2>3, <2>4
<1>. QED
  BY <1>4, <1>5, <1>6 DEF Observe, HookCrash

-----------------------------------------------------------------------------
(* The MCP server.                                                         *)

\* A report in preparation, and a job that comes to be.
Reports(r, q) ==
    /\ r.st \in Working \cup {"VERIFYING"} /\ q.st \in {"VERIFYING", "READY_PENDING_STOP"}
    /\ ~q.fin /\ q.creq = r.creq /\ q.gen >= r.gen
Opens(r, q) == r.st = "NONE" /\ q.st \in {"ARM_PENDING_BIND", "FAILED"} /\ q.creq = FALSE

\* A new job, and one whose supervisor could not be launched.
LEMMA NewGood == /\ GoodJob(NewJob) /\ GoodJob([Bump(NewJob) EXCEPT !.st = "FAILED"])
                 /\ NewJob.gen = 1 /\ NewJob.st = "ARM_PENDING_BIND" /\ NewJob.creq = FALSE
                 /\ LET q == [Bump(NewJob) EXCEPT !.st = "FAILED"]
                    IN q.gen = 2 /\ q.st = "FAILED" /\ q.creq = FALSE
<1>1. NewJob \in JobRecord
  BY VerifiedAssumption DEF NewJob, JobRecord, State, Turn, Print0, Instance
<1>2. GoodJob(NewJob)
  BY <1>1 DEF NewJob, GoodJob, Acting, Terminal, Working
<1>3. NewJob.gen = 1 /\ NewJob.st = "ARM_PENDING_BIND" /\ NewJob.creq = FALSE
  BY DEF NewJob
<1>. DEFINE b == Bump(NewJob)
<1>4. b \in JobRecord /\ b.gen = 2 /\ b.creq = FALSE
  BY <1>1, <1>3, BumpFields
<1>5. GoodJob([b EXCEPT !.st = "FAILED"])
  <2>1. "FAILED" \in Terminal
    BY DEF Terminal
  <2>. QED
    BY <1>2, <2>1, EndGood
<1>. HIDE DEF b
<1>6. LET q == [b EXCEPT !.st = "FAILED"] IN q.gen = 2 /\ q.st = "FAILED" /\ q.creq = FALSE
  BY <1>4 DEF JobRecord
<1>. QED
  BY <1>2, <1>3, <1>5, <1>6 DEF b

\* Arming does not break the invariant.
LEMMA ArmKeeps ==
    ASSUME IInv, Arm
    PROVE  IInv' /\ Opens(job, job')
<1>. USE DEF IInv
<1>1. /\ job.st = "NONE" /\ host.st = "active" /\ ~Busy
      /\ UNCHANGED <<late, marks, worker, tool, proved>>
  BY DEF Arm
<1>2. host' \in HostRecord /\ host'.st = host.st /\ host'.turn = host.turn
  <2>1. PICK heard \in BOOLEAN : host' = [host EXCEPT !.live = heard, !.told = {}, !.failed = FALSE]
    BY DEF Arm
  <2>. QED
    BY <2>1 DEF TypeInv, HostRecord
<1>3. job.st \notin Past \cup {"VERIFYING"}
  BY <1>1 DEF Past, Terminal
<1>4. /\ GoodJob(job') /\ job'.gen \in Nat /\ job'.gen >= 1
      /\ Opens(job, job') /\ job'.st # "NONE"
  <2>1. job' = NewJob \/ job' = [Bump(NewJob) EXCEPT !.st = "FAILED"]
    BY DEF Arm
  <2>2. GoodJob(job') /\ job'.gen \in {1, 2} /\ job'.creq = FALSE /\ job'.st \in {"ARM_PENDING_BIND", "FAILED"}
    BY <2>1, NewGood
  <2>. QED
    BY <1>1, <2>2 DEF Opens
<1>5. sup' \in SupRecord /\ SaveKnown(sup')
  <2>1. sup.pc = "off"
    BY <1>1 DEF SupInv
  <2>2. CASE sup' = sup
    BY <2>2 DEF TypeInv, SupInv
  <2>3. CASE sup' = [sup EXCEPT !.pc = "run"]
    BY <2>3 DEF TypeInv, SupRecord, SupPc, SaveKnown
  <2>. QED
    BY <2>2, <2>3 DEF Arm
<1>6. ShapeInv' /\ hooks' \subseteq HookRecord /\ (\A y \in hooks' : y.kind # "Finish")
  <2>1. \A y \in hooks : y.kind # "Finish"
    BY <1>1 DEF Busy, Own
  <2>2. CASE hooks' = hooks
    BY <2>1, <2>2, HookParts DEF ShapeInv, TypeInv
  <2>3. CASE StartHook("Arm", FALSE)
    <3>1. /\ Hook("Arm", FALSE) \in HookRecord /\ Hook("Arm", FALSE).t # 0
          /\ ~Hook("Arm", FALSE).mark /\ Hook("Arm", FALSE).kind = "Arm"
      BY HookTyped
    <3>2. hooks' = hooks \cup {Hook("Arm", FALSE)}
      BY <2>3 DEF StartHook
    <3>. QED
      BY <1>1, <2>1, <3>1, <3>2, StartShape, HookParts DEF TypeInv
  <2>. QED
    BY <2>2, <2>3 DEF Arm
<1>7. TypeInv' /\ SupInv'
  BY <1>1, <1>2, <1>4, <1>5, <1>6 DEF TypeInv, SupInv, SaveKnown
<1>8. ProvedInv'
  BY <1>4 DEF ProvedInv, Opens, Acting
<1>9. FinishInv'
  BY <1>6 DEF FinishInv
<1>10. ToolInv'
  <2>1. ~Calling'
    BY <1>1, <1>2, <1>3 DEF ToolInv, Calling, Asked
  <2>2. job.gen = 1
    BY <1>1 DEF GoodJob
  <2>3. \A c \in Caller : tool[c].gen \in Nat /\ tool[c].gen <= job.gen
    BY DEF TypeInv, ToolRecord, ToolInv
  <2>4. \A c \in Caller : tool'[c].gen <= job'.gen
    BY <1>1, <1>4, <2>2, <2>3
  <2>. QED
    BY <1>1, <1>2, <2>1, <2>4 DEF ToolInv, Asked
<1>. QED
  BY <1>4, <1>6, <1>7, <1>8, <1>9, <1>10, HookParts

\* What a finish call writes: not done, verifying, or ready but unseen.
LEMMA EvidenceGood ==
    ASSUME NEW r, GoodJob(r), NEW s \in {"NOT_DONE", "VERIFYING", "READY_PENDING_STOP"}, r.st \in Working
    PROVE  /\ LET q == [Bump(r) EXCEPT !.st = "NOT_DONE", !.pass = FALSE, !.ready = 0]
              IN GoodJob(q) /\ Ends(r, q)
           /\ LET e == [Bump(r) EXCEPT !.pass = FALSE, !.ready = r.cur, !.stop = 0, !.fin = FALSE,
                                       !.h2 = 0, !.h3 = 0]
                  q == [e EXCEPT !.st = s]
              IN s # "NOT_DONE" => GoodJob(q) /\ Reports(r, q) /\ q.st = s /\ q.gen = r.gen + 1
<1>. DEFINE b == Bump(r)
<1>1. r \in JobRecord /\ r.gen \in Nat /\ r.creq = FALSE
  BY DEF GoodJob, JobRecord, Acting, Terminal, Working
<1>2. /\ b \in JobRecord /\ b.gen = r.gen + 1 /\ b.creq = r.creq
      /\ b.h1 = r.h1 /\ b.inst = r.inst /\ b.h2 = r.h2 /\ b.h3 = r.h3
  BY <1>1, BumpFields
<1>3. 0 \in Turn /\ r.cur \in Turn /\ 0 \in Print0 /\ s \in State /\ "NOT_DONE" \in State
  BY <1>1, VerifiedAssumption DEF Turn, Print0, JobRecord, State, Reported, Terminal
<1>. HIDE DEF b
<1>4. LET q == [b EXCEPT !.st = "NOT_DONE", !.pass = FALSE, !.ready = 0] IN GoodJob(q) /\ Ends(r, q)
  <2>. DEFINE q == [b EXCEPT !.st = "NOT_DONE", !.pass = FALSE, !.ready = 0]
  <2>1. /\ q \in JobRecord /\ q.st = "NOT_DONE" /\ q.gen = r.gen + 1
        /\ q.h1 = r.h1 /\ q.h2 = r.h2 /\ q.h3 = r.h3 /\ q.inst = r.inst
    BY <1>2, <1>3 DEF JobRecord
  <2>2. q.st \in Terminal /\ q.gen >= r.gen /\ IsActive(r)
    BY <1>1, <2>1 DEF Terminal, IsActive, Working
  <2>. HIDE DEF q
  <2>3. GoodJob(q) /\ Ends(r, q)
    BY <2>1, <2>2, ClosedGood
  <2>. QED
    BY <2>3 DEF q
<1>5. ASSUME s # "NOT_DONE"
      PROVE  LET e == [b EXCEPT !.pass = FALSE, !.ready = r.cur, !.stop = 0, !.fin = FALSE, !.h2 = 0, !.h3 = 0]
                 q == [e EXCEPT !.st = s]
             IN GoodJob(q) /\ Reports(r, q) /\ q.st = s /\ q.gen = r.gen + 1
  <2>. DEFINE e == [b EXCEPT !.pass = FALSE, !.ready = r.cur, !.stop = 0, !.fin = FALSE, !.h2 = 0, !.h3 = 0]
              q == [e EXCEPT !.st = s]
  <2>1. /\ e \in JobRecord /\ e.gen = r.gen + 1 /\ e.creq = r.creq /\ e.fin = FALSE
        /\ e.h1 = r.h1 /\ e.h2 = 0 /\ e.h3 = 0 /\ e.inst = r.inst
    BY <1>2, <1>3 DEF JobRecord
  <2>. HIDE DEF e
  <2>2. /\ q \in JobRecord /\ q.st = s /\ q.gen = r.gen + 1 /\ q.creq = r.creq /\ q.fin = FALSE
        /\ q.h1 = r.h1 /\ q.h2 = 0 /\ q.h3 = 0 /\ q.inst = r.inst
    BY <1>3, <2>1 DEF JobRecord
  <2>. HIDE DEF q
  <2>3. GoodJob(q)
    BY <1>1, <1>5, <2>2 DEF GoodJob, Acting, Terminal, Working
  <2>4. Reports(r, q)
    BY <1>1, <1>5, <2>2 DEF Reports
  <2>. QED
    BY <2>2, <2>3, <2>4 DEF q, e
<1>. QED
  BY <1>4, <1>5 DEF b

\* finish: what the call makes of the job, of itself and of the proof.
LEMMA FinishParts ==
    ASSUME GoodJob(job), NEW c \in Caller, Finish(c)
    PROVE  /\ GoodJob(job') /\ job.st \in Working /\ Calls(c)
           /\ UNCHANGED <<late, marks, worker, hooks, host, sup>>
           /\ \/ Ends(job, job') /\ UNCHANGED <<tool, proved>>
              \/ /\ Reports(job, job') /\ job'.gen = job.gen + 1 /\ job'.st = "READY_PENDING_STOP"
                 /\ tool' = [tool EXCEPT ![c] = [pc |-> "reply", t |-> CallTurn(c), gen |-> job.gen + 1]]
                 /\ proved' = CallTurn(c)
              \/ /\ Reports(job, job') /\ job'.gen = job.gen + 1 /\ job'.st = "VERIFYING"
                 /\ tool' = [tool EXCEPT ![c] = [pc |-> "verify", t |-> CallTurn(c), gen |-> job.gen + 1]]
                 /\ UNCHANGED proved
<1>. DEFINE ready == [pc |-> "reply", t |-> CallTurn(c), gen |-> job.gen + 1]
            verify == [pc |-> "verify", t |-> CallTurn(c), gen |-> job.gen + 1]
            evidence == [Bump(job) EXCEPT !.pass = FALSE, !.ready = job.cur, !.stop = 0, !.fin = FALSE,
                                          !.h2 = 0, !.h3 = 0]
            notdone == [Bump(job) EXCEPT !.st = "NOT_DONE", !.pass = FALSE, !.ready = 0]
<1>1. /\ job.st \in Working /\ Calls(c)
      /\ UNCHANGED <<late, marks, worker, hooks, host, sup>>
  BY DEF Finish
<1>2. IsActive(job)
  BY <1>1 DEF IsActive, Working, Terminal
<1>3. GoodJob(Expire(job)) /\ Ends(job, Expire(job))
  BY <1>2, ExpireGood
<1>4. GoodJob(notdone) /\ Ends(job, notdone)
  BY <1>1, EvidenceGood
<1>5. \A s \in {"VERIFYING", "READY_PENDING_STOP"} :
        LET q == [evidence EXCEPT !.st = s]
        IN GoodJob(q) /\ Reports(job, q) /\ q.st = s /\ q.gen = job.gen + 1
  BY <1>1, EvidenceGood
<1>6. \/ job' \in {Expire(job), notdone} /\ UNCHANGED <<tool, proved>>
      \/ /\ job' = [evidence EXCEPT !.st = "READY_PENDING_STOP"]
         /\ tool' = [tool EXCEPT ![c] = ready] /\ proved' = CallTurn(c)
      \/ /\ job' = [evidence EXCEPT !.st = "VERIFYING"]
         /\ tool' = [tool EXCEPT ![c] = verify] /\ UNCHANGED proved
  BY DEF Finish
<1>. HIDE DEF evidence, notdone, ready, verify
<1>7. CASE job' \in {Expire(job), notdone} /\ UNCHANGED <<tool, proved>>
  BY <1>1, <1>3, <1>4, <1>7
<1>8. CASE /\ job' = [evidence EXCEPT !.st = "READY_PENDING_STOP"]
           /\ tool' = [tool EXCEPT ![c] = ready] /\ proved' = CallTurn(c)
  <2>1. GoodJob(job') /\ Reports(job, job') /\ job'.st = "READY_PENDING_STOP" /\ job'.gen = job.gen + 1
    BY <1>5, <1>8
  <2>. QED
    BY <1>1, <1>8, <2>1 DEF ready
<1>9. CASE /\ job' = [evidence EXCEPT !.st = "VERIFYING"]
           /\ tool' = [tool EXCEPT ![c] = verify] /\ UNCHANGED proved
  <2>1. GoodJob(job') /\ Reports(job, job') /\ job'.st = "VERIFYING" /\ job'.gen = job.gen + 1
    BY <1>5, <1>9
  <2>. QED
    BY <1>1, <1>9, <2>1 DEF verify
<1>. QED
  BY <1>6, <1>7, <1>8, <1>9

\* A finish call, of the armed session or of another, keeps the invariant.
LEMMA FinishKeeps ==
    ASSUME IInv, NEW c \in Caller, Finish(c)
    PROVE  IInv' /\ (QuietMoves(job, job') \/ Reports(job, job'))
<1>. USE DEF IInv
<1>. DEFINE answer(pc) == [pc |-> pc, t |-> CallTurn(c), gen |-> job.gen + 1]
<1>1. /\ GoodJob(job') /\ job.st \in Working /\ Calls(c)
      /\ UNCHANGED <<late, marks, worker, hooks, host, sup>>
  BY FinishParts
<1>2. \/ Ends(job, job') /\ UNCHANGED <<tool, proved>>
      \/ \E pc \in {"reply", "verify"} :
           /\ Reports(job, job') /\ job'.gen = job.gen + 1
           /\ tool' = [tool EXCEPT ![c] = answer(pc)]
           /\ pc = "reply" => proved' = CallTurn(c)
           /\ pc = "verify" => job'.st = "VERIFYING" /\ UNCHANGED proved
           /\ job'.st = "VERIFYING" => pc = "verify"
  BY FinishParts
<1>3. CASE Ends(job, job') /\ UNCHANGED <<tool, proved>>
  <2>1. QuietMoves(job, job') /\ Fresh /\ (Busy' => Busy)
    BY <1>1, <1>3 DEF QuietMoves, Fresh, Busy
  <2>2. ProvedInv' /\ ToolInv' /\ FinishInv'
    BY <1>1, <1>3, <2>1, QuietKeeps
  <2>3. TypeInv' /\ ShapeInv'
    BY <1>1, <1>3, HookParts DEF TypeInv, ShapeInv
  <2>4. SupInv'
    BY <1>1, <2>1, GoodRecord DEF SupInv, SaveKnown
  <2>. QED
    BY <1>1, <2>1, <2>2, <2>3, <2>4, HookParts
<1>4. ASSUME NEW pc \in {"reply", "verify"},
             Reports(job, job'), job'.gen = job.gen + 1, tool' = [tool EXCEPT ![c] = answer(pc)],
             pc = "reply" => proved' = CallTurn(c),
             pc = "verify" => job'.st = "VERIFYING" /\ UNCHANGED proved,
             job'.st = "VERIFYING" => pc = "verify"
      PROVE  IInv'
  <2>1. CallTurn(c) \in Turn /\ (c = "own" => CallTurn(c) = host.turn) /\ host.turn \in Nat
    BY VerifiedAssumption DEF CallTurn, TypeInv, HostRecord, Turn
  <2>2. job.gen \in Nat /\ job'.gen \in Nat
    BY <1>1 DEF GoodJob, JobRecord
  <2>3. answer(pc) \in ToolRecord /\ answer(pc).pc = pc /\ answer(pc).t = CallTurn(c) /\ answer(pc).gen = job.gen + 1
    BY <2>1, <2>2 DEF ToolRecord
  <2>. HIDE DEF answer
  <2>4. /\ tool' \in [Caller -> ToolRecord] /\ tool'[c] = answer(pc)
        /\ \A d \in Caller \ {c} : tool'[d] = tool[d]
    BY <1>4, <2>3 DEF TypeInv
  <2>5. proved' \in Turn
    BY <1>4, <2>1 DEF TypeInv
  <2>6. TypeInv'
    BY <1>1, <2>4, <2>5 DEF TypeInv
  <2>7. SupInv' /\ ProvedInv'
    BY <1>1, <1>4 DEF SupInv, SaveKnown, ProvedInv, Reports, Acting
  <2>8. ShapeInv' /\ FinishInv'
    <3>1. job.st \notin Past
      BY <1>1 DEF Past, Working, Terminal
    <3>. QED
      BY <1>1, <3>1, HookParts DEF ShapeInv, FinishInv
  <2>9. ToolInv'
    <3>1. \A d \in Caller : tool[d].gen \in Nat /\ tool[d].gen <= job.gen
      BY DEF TypeInv, ToolRecord, ToolInv
    <3>2. \A d \in Caller : tool'[d].gen <= job'.gen
      BY <1>4, <2>2, <2>3, <2>4, <3>1
    <3>3. tool'["own"].gen # tool'["other"].gen
      BY <2>2, <2>3, <2>4, <3>1 DEF Caller
    <3>4. CASE c = "own"
      <4>1. /\ host.st = "active" /\ ~Busy
            /\ tool'["own"].pc = pc /\ tool'["own"].t = host.turn /\ tool'["own"].gen = job'.gen
        BY <1>1, <1>4, <2>1, <2>3, <2>4, <3>4 DEF Calls
      <4>2. ~Busy'
        BY <1>1, <4>1 DEF Busy
      <4>3. job'.st \in Past \cup {"VERIFYING"}
        BY <1>4 DEF Reports, Past
      <4>4. job'.st = "READY_PENDING_STOP" => pc = "reply" /\ proved' = tool'["own"].t
        BY <1>4, <2>1, <3>4, <4>1
      <4>. QED
        BY <1>1, <1>4, <2>1, <3>2, <3>3, <4>1, <4>2, <4>3, <4>4 DEF ToolInv
    <3>5. CASE c = "other"
      <4>1. tool'["own"] = tool["own"]
        BY <2>4, <3>5 DEF Caller
      <4>2. job.st \notin Past \cup {"VERIFYING"}
        BY <1>1 DEF Past, Working, Terminal
      <4>3. ~Calling'
        BY <1>1, <4>1, <4>2 DEF Calling, Asked, ToolInv
      <4>. QED
        BY <1>1, <3>2, <3>3, <4>1, <4>3 DEF ToolInv, Asked
    <3>. QED
      BY <3>4, <3>5 DEF Caller
  <2>. QED
    BY <1>1, <2>6, <2>7, <2>8, <2>9, HookParts
<1>. QED
  BY <1>2, <1>3, <1>4 DEF QuietMoves

\* A call that is over, whoever asked.
Lasts ==
    /\ job'.gen \in Nat /\ job'.gen >= job.gen
    /\ job.st \in Past \cup {"VERIFYING"} => job'.st \in Past \cup {"VERIFYING"}
    /\ job'.st = "VERIFYING" => job.st = "VERIFYING" /\ job'.gen = job.gen
    /\ job'.st = "READY_PENDING_STOP" => job.st = "READY_PENDING_STOP" /\ proved' = proved

\* The quiet moves last.
LEMMA QuietLasts ==
    ASSUME GoodJob(job), GoodJob(job'), QuietMoves(job, job'), UNCHANGED proved
    PROVE  Lasts
BY QuietFacts DEF Lasts

\* The end of a call leaves the answer another session waits for as it was.
LEMMA OverKeeps ==
    ASSUME IInv, NEW c \in Caller, tool' = [tool EXCEPT ![c] = Over(c)], UNCHANGED host, Lasts,
           c = "other" => (Busy' => Busy)
    PROVE  ToolInv' /\ tool' \in [Caller -> ToolRecord]
<1>. USE DEF IInv
<1>1. /\ Over(c) \in ToolRecord /\ Over(c).gen = 0
      /\ c = "own" => Over(c).pc = "none"
      /\ c = "other" => Over(c).pc = "over"
  BY VerifiedAssumption DEF Over, Quiet, ToolRecord, Turn, Caller
<1>2. /\ tool' \in [Caller -> ToolRecord] /\ tool'[c] = Over(c)
      /\ \A d \in Caller \ {c} : tool'[d] = tool[d]
  BY <1>1 DEF TypeInv
<1>3. \A d \in Caller : tool[d].gen \in Nat /\ tool[d].gen <= job.gen
  BY DEF TypeInv, ToolRecord, ToolInv
<1>4. job.gen \in Nat
  BY DEF GoodJob, JobRecord
<1>5. \A d \in Caller : tool'[d].gen <= job'.gen
  BY <1>1, <1>2, <1>3, <1>4 DEF Lasts
<1>6. CASE c = "own"
  <2>1. tool'["own"].pc = "none"
    BY <1>1, <1>2, <1>6
  <2>. QED
    BY <1>2, <1>5, <2>1 DEF ToolInv, Calling, Asked
<1>7. CASE c = "other"
  <2>1. tool'["own"] = tool["own"] /\ tool'["other"].pc = "over"
    BY <1>1, <1>2, <1>7 DEF Caller
  <2>2. ASSUME Calling'
        PROVE  /\ ~Busy' /\ job'.st \in Past \cup {"VERIFYING"}
               /\ job'.st = "VERIFYING" => tool'["own"].pc = "verify" /\ tool'["own"].gen = job'.gen
               /\ job'.st = "READY_PENDING_STOP" => tool'["own"].pc = "reply" /\ proved' = tool'["own"].t
    <3>1. Calling
      BY <2>1, <2>2 DEF Calling, Asked
    <3>2. /\ ~Busy /\ job.st \in Past \cup {"VERIFYING"}
          /\ job.st = "VERIFYING" => tool["own"].pc = "verify" /\ tool["own"].gen = job.gen
          /\ job.st = "READY_PENDING_STOP" => tool["own"].pc = "reply" /\ proved = tool["own"].t
      BY <3>1 DEF ToolInv
    <3>. QED
      BY <1>7, <2>1, <3>2 DEF Lasts
  <2>. QED
    BY <1>2, <1>5, <2>1, <2>2 DEF ToolInv, Asked
<1>. QED
  BY <1>6, <1>7 DEF Caller

\* The end of the MCP server keeps the invariant.
LEMMA ExitKeeps ==
    ASSUME IInv, NEW c \in Caller, ServerExits(c)
    PROVE  IInv' /\ UNCHANGED job
<1>. USE DEF IInv
<1>1. /\ tool' = [tool EXCEPT ![c] = Over(c)]
      /\ UNCHANGED <<job, late, marks, worker, hooks, host, sup, proved>>
  BY DEF ServerExits
<1>2. Lasts
  BY <1>1, QuietLasts DEF QuietMoves
<1>3. ToolInv' /\ tool' \in [Caller -> ToolRecord]
  BY <1>1, <1>2, OverKeeps DEF Busy
<1>4. TypeInv'
  BY <1>1, <1>3 DEF TypeInv
<1>5. SupInv' /\ ProvedInv' /\ HookInv'
  BY <1>1 DEF SupInv, SaveKnown, ProvedInv, HookInv
<1>. QED
  BY <1>1, <1>3, <1>4, <1>5

\* An answer keeps it: its hook finds the job waiting, over, or with this report.
LEMMA AnswerKeeps ==
    ASSUME IInv, NEW c \in Caller, Answer(c)
    PROVE  IInv' /\ UNCHANGED job
<1>. USE DEF IInv
<1>1. /\ tool' = [tool EXCEPT ![c] = Over(c)] /\ tool[c].pc = "reply"
      /\ UNCHANGED <<job, late, marks, worker, host, sup, proved>>
  BY DEF Answer
<1>2. Lasts
  BY <1>1, QuietLasts DEF QuietMoves
<1>3. ASSUME NEW k \in {"Finish", "Stranger"}, hooks' = hooks \cup {Hook(k, FALSE)}, k = "Finish" => ~Busy
      PROVE  ShapeInv' /\ hooks' \subseteq HookRecord /\ (k = "Stranger" => (Busy' => Busy))
  <2>1. /\ Hook(k, FALSE) \in HookRecord /\ Hook(k, FALSE).t # 0 /\ ~Hook(k, FALSE).mark
        /\ Hook(k, FALSE).kind = k
    BY HookTyped
  <2>2. Own(Hook(k, FALSE)) => ~Busy
    BY <1>3, <2>1 DEF Own
  <2>. QED
    BY <1>3, <2>1, <2>2, StartShape, HookParts DEF TypeInv, Busy, Own
<1>4. CASE c = "own" /\ Calling /\ ~Busy /\ StartHook("Finish", FALSE)
  <2>1. hooks' = hooks \cup {Hook("Finish", FALSE)}
    BY <1>4 DEF StartHook
  <2>2. ShapeInv' /\ hooks' \subseteq HookRecord
    BY <1>3, <1>4, <2>1
  <2>3. job.st \in Past /\ (job.st = "READY_PENDING_STOP" => proved = host.turn)
    BY <1>1, <1>4 DEF ToolInv, Calling
  <2>4. FinishInv'
    BY <1>1, <2>1, <2>3, HookParts, HookTyped DEF FinishInv
  <2>5. ToolInv' /\ tool' \in [Caller -> ToolRecord]
    BY <1>1, <1>2, <1>4, OverKeeps
  <2>6. TypeInv' /\ SupInv' /\ ProvedInv'
    BY <1>1, <2>2, <2>5 DEF TypeInv, SupInv, SaveKnown, ProvedInv
  <2>. QED
    BY <1>1, <2>2, <2>4, <2>5, <2>6, HookParts
<1>5. CASE hooks' = hooks
  <2>1. ToolInv' /\ tool' \in [Caller -> ToolRecord]
    BY <1>1, <1>2, <1>5, OverKeeps DEF Busy
  <2>2. TypeInv' /\ SupInv' /\ ProvedInv' /\ HookInv'
    BY <1>1, <1>5, <2>1 DEF TypeInv, SupInv, SaveKnown, ProvedInv, HookInv
  <2>. QED
    BY <1>1, <2>1, <2>2
<1>6. CASE StartHook("Stranger", FALSE)
  <2>1. hooks' = hooks \cup {Hook("Stranger", FALSE)}
    BY <1>6 DEF StartHook
  <2>2. ShapeInv' /\ hooks' \subseteq HookRecord /\ (Busy' => Busy)
    BY <1>3, <2>1
  <2>3. FinishInv'
    BY <1>1, <2>1, HookParts, HookTyped DEF FinishInv
  <2>4. ToolInv' /\ tool' \in [Caller -> ToolRecord]
    BY <1>1, <1>2, <2>2, OverKeeps
  <2>5. TypeInv' /\ SupInv' /\ ProvedInv'
    BY <1>1, <2>2, <2>4 DEF TypeInv, SupInv, SaveKnown, ProvedInv
  <2>. QED
    BY <1>1, <2>2, <2>3, <2>4, <2>5, HookParts
<1>7. \/ c = "own" /\ Calling /\ ~Busy /\ StartHook("Finish", FALSE)
      \/ hooks' = hooks
      \/ StartHook("Stranger", FALSE)
  BY DEF Answer, Calling, Asked
<1>. QED
  BY <1>4, <1>5, <1>6, <1>7

\* A pause keeps it.
LEMMA PauseKeeps ==
    ASSUME IInv, NEW c \in Caller, Pause(c)
    PROVE  IInv' /\ (QuietMoves(job, job') \/ Waits(job, job'))
<1>. USE DEF IInv
<1>1. /\ tool' = [tool EXCEPT ![c] = Over(c)] /\ job.st \in Working \cup Reported /\ Calls(c)
      /\ UNCHANGED <<late, marks, worker, host, sup>>
  BY DEF Pause
<1>2. IsActive(job) /\ job.st # "NONE" /\ job.gen \in Nat
  BY <1>1 DEF IsActive, Working, Reported, Terminal, GoodJob, JobRecord
<1>3. CASE late
  <2>1. job' = Expire(job) /\ UNCHANGED <<hooks, proved>>
    BY <1>3 DEF Pause
  <2>2. GoodJob(job') /\ QuietMoves(job, job')
    BY <1>2, <2>1, ExpireGood DEF QuietMoves
  <2>3. Lasts
    BY <2>1, <2>2, QuietLasts
  <2>4. ToolInv' /\ tool' \in [Caller -> ToolRecord]
    BY <1>1, <2>1, <2>3, OverKeeps DEF Busy
  <2>5. job'.st \in Terminal
    BY <2>1, <1>2, ExpireGood DEF Ends
  <2>6. ProvedInv' /\ HookInv'
    BY <2>1, <2>5 DEF ProvedInv, HookInv, Past, Terminal, Acting
  <2>7. TypeInv' /\ SupInv'
    BY <1>1, <2>1, <2>4, <2>5 DEF TypeInv, SupInv, SaveKnown, Terminal
  <2>. QED
    BY <2>2, <2>4, <2>6, <2>7
<1>4. CASE ~late
  <2>. DEFINE k == IF c = "own" THEN "Pause" ELSE "Stranger"
  <2>1. /\ job' = Invalidate(job, "WAITING") /\ proved' = 0 /\ hooks' = hooks \cup {Hook(k, FALSE)}
    BY <1>4 DEF Pause, StartHook
  <2>2. ~Unresolved(job)
    BY <1>1 DEF Unresolved, Working, Reported, Acting
  <2>3. GoodJob(job') /\ Waits(job, job')
    BY <1>2, <2>1, <2>2, ResetGood, ExpireGood
  <2>4. job'.st = "WAITING" /\ job'.gen \in Nat /\ job'.gen >= job.gen
    BY <1>2, <2>3 DEF Waits
  <2>5. /\ Hook(k, FALSE) \in HookRecord /\ Hook(k, FALSE).t # 0 /\ ~Hook(k, FALSE).mark
        /\ Hook(k, FALSE).kind = k /\ k # "Finish"
    BY HookTyped
  <2>6. (c = "own" => ~Busy) /\ (c = "other" => ~Own(Hook(k, FALSE)))
    BY <1>1, <2>5 DEF Calls, Own
  <2>. HIDE DEF k
  <2>7. ShapeInv' /\ hooks' \subseteq HookRecord
    BY <2>1, <2>5, <2>6, StartShape, HookParts DEF TypeInv, Caller
  <2>8. FinishInv'
    BY <2>1, <2>4, <2>5, HookParts DEF FinishInv, Past
  <2>9. Lasts
    BY <2>4 DEF Lasts, Past
  <2>10. c = "other" => (Busy' => Busy)
    BY <2>1, <2>6 DEF Busy
  <2>11. ToolInv' /\ tool' \in [Caller -> ToolRecord]
    BY <1>1, <2>9, <2>10, OverKeeps
  <2>12. ProvedInv' /\ SupInv'
    BY <1>1, <2>4 DEF ProvedInv, SupInv, SaveKnown, Acting
  <2>13. TypeInv'
    <3>1. 0 \in Turn
      BY VerifiedAssumption DEF Turn
    <3>. QED
      BY <1>1, <2>1, <2>7, <2>11, <3>1 DEF TypeInv
  <2>. QED
    BY <2>3, <2>7, <2>8, <2>11, <2>12, <2>13, HookParts
<1>. QED
  BY <1>3, <1>4

\* What a verifier makes of the job it was run for.
LEMMA VerifierGood ==
    ASSUME NEW r, GoodJob(r), r.st = "VERIFYING"
    PROVE  /\ LET q == [r EXCEPT !.st = "READY_PENDING_STOP", !.pass = TRUE]
              IN GoodJob(q) /\ Reports(r, q) /\ q.st = "READY_PENDING_STOP" /\ q.gen = r.gen
           /\ LET q == [r EXCEPT !.st = "VERIFICATION_FAILED", !.pass = FALSE, !.ready = 0]
              IN GoodJob(q) /\ Ends(r, q)
<1>1. /\ r \in JobRecord /\ r.gen \in Nat /\ 0 \in Turn
      /\ "READY_PENDING_STOP" \in State /\ "VERIFICATION_FAILED" \in State
  BY VerifiedAssumption DEF GoodJob, JobRecord, Turn, State, Reported, Terminal
<1>. DEFINE p == [r EXCEPT !.st = "READY_PENDING_STOP", !.pass = TRUE]
            f == [r EXCEPT !.st = "VERIFICATION_FAILED", !.pass = FALSE, !.ready = 0]
<1>2. /\ p \in JobRecord /\ p.st = "READY_PENDING_STOP" /\ p.gen = r.gen /\ p.creq = r.creq /\ p.fin = r.fin
      /\ p.h1 = r.h1 /\ p.h2 = r.h2 /\ p.h3 = r.h3 /\ p.inst = r.inst
  BY <1>1 DEF JobRecord
<1>3. /\ f \in JobRecord /\ f.st = "VERIFICATION_FAILED" /\ f.gen = r.gen
      /\ f.h1 = r.h1 /\ f.h2 = r.h2 /\ f.h3 = r.h3 /\ f.inst = r.inst
  BY <1>1 DEF JobRecord
<1>. HIDE DEF p, f
<1>4. GoodJob(p) /\ Reports(r, p)
  BY <1>1, <1>2 DEF GoodJob, Reports, Acting, Terminal, Working
<1>5. GoodJob(f) /\ Ends(r, f)
  <2>1. f.st \in Terminal /\ f.gen >= r.gen /\ IsActive(r)
    BY <1>1, <1>3 DEF Terminal, IsActive
  <2>. QED
    BY <1>3, <2>1, ClosedGood
<1>. QED
  BY <1>2, <1>4, <1>5 DEF p, f

\* The end of a verifier keeps the invariant, even one run for an older report.
LEMMA VerifierKeeps ==
    ASSUME IInv, NEW c \in Caller, FinishVerifier(c)
    PROVE  IInv' /\ (QuietMoves(job, job') \/ Reports(job, job'))
<1>. USE DEF IInv
<1>. DEFINE passed == [job EXCEPT !.st = "READY_PENDING_STOP", !.pass = TRUE]
            failed == [job EXCEPT !.st = "VERIFICATION_FAILED", !.pass = FALSE, !.ready = 0]
            over == [tool EXCEPT ![c] = Over(c)]
<1>1. UNCHANGED <<late, marks, worker, hooks, host, sup>> /\ tool[c].pc = "verify"
  BY DEF FinishVerifier
<1>2. \/ IsActive(job) /\ job' = Expire(job) /\ tool' = over /\ UNCHANGED proved
      \/ job' = job /\ tool' = over /\ UNCHANGED proved
      \/ /\ job.st = "VERIFYING" /\ job.gen = tool[c].gen
         /\ job' = passed /\ tool' = [tool EXCEPT ![c].pc = "reply"] /\ proved' = tool[c].t
      \/ /\ job.st = "VERIFYING"
         /\ job' = failed /\ tool' = over /\ UNCHANGED proved
  BY DEF FinishVerifier
<1>3. /\ job.st = "VERIFYING" => /\ GoodJob(passed) /\ Reports(job, passed)
                                 /\ passed.st = "READY_PENDING_STOP" /\ passed.gen = job.gen
                                 /\ GoodJob(failed) /\ Ends(job, failed)
      /\ GoodJob(Expire(job)) /\ (IsActive(job) => Ends(job, Expire(job)))
  BY VerifierGood, ExpireGood
<1>. HIDE DEF passed, failed
<1>4. CASE tool' = over /\ UNCHANGED proved /\ GoodJob(job') /\ (job' = job \/ Ends(job, job'))
  <2>1. QuietMoves(job, job')
    BY <1>4 DEF QuietMoves
  <2>2. Lasts
    BY <1>4, <2>1, QuietLasts
  <2>3. ToolInv' /\ tool' \in [Caller -> ToolRecord]
    BY <1>1, <1>4, <2>2, OverKeeps DEF Busy
  <2>4. ProvedInv' /\ HookInv'
    BY <1>1, <1>4 DEF ProvedInv, HookInv, Ends, Past, Terminal, Acting
  <2>5. SupInv'
    BY <1>1, <1>4, <2>1, GoodRecord DEF SupInv, SaveKnown
  <2>6. TypeInv'
    BY <1>1, <1>4, <2>3 DEF TypeInv
  <2>. QED
    BY <1>4, <2>1, <2>3, <2>4, <2>5, <2>6
<1>5. CASE /\ job.st = "VERIFYING" /\ job.gen = tool[c].gen
           /\ job' = passed /\ tool' = [tool EXCEPT ![c].pc = "reply"] /\ proved' = tool[c].t
  <2>1. /\ GoodJob(job') /\ Reports(job, job') /\ ~job'.fin
        /\ job'.st = "READY_PENDING_STOP" /\ job'.gen = job.gen
    BY <1>3, <1>5 DEF Reports
  <2>2. tool[c] \in ToolRecord
    BY DEF TypeInv
  <2>3. /\ tool' \in [Caller -> ToolRecord] /\ \A d \in Caller \ {c} : tool'[d] = tool[d]
        /\ tool'[c].pc = "reply" /\ tool'[c].t = tool[c].t /\ tool'[c].gen = tool[c].gen
    BY <1>5, <2>2 DEF TypeInv, ToolRecord
  <2>4. TypeInv'
    BY <1>1, <1>5, <2>2, <2>3 DEF TypeInv, ToolRecord
  <2>5. SupInv' /\ ProvedInv'
    BY <1>1, <2>1 DEF SupInv, SaveKnown, ProvedInv, Acting
  <2>6. HookInv'
    <3>1. job.st \notin Past
      BY <1>5 DEF Past, Terminal
    <3>. QED
      BY <1>1, <3>1 DEF HookInv
  <2>7. ToolInv'
    <3>1. \A d \in Caller : tool'[d].gen <= job'.gen
      BY <2>1, <2>3 DEF ToolInv
    <3>2. CASE c = "own"
      BY <1>1, <1>5, <2>1, <2>3, <3>1, <3>2 DEF ToolInv, Calling, Asked, Busy, Past, Caller
    <3>3. CASE c = "other"
      <4>1. tool'["own"] = tool["own"] /\ tool'["other"].pc = "reply"
        BY <2>3, <3>3 DEF Caller
      <4>2. ~Calling
        BY <1>1, <1>5, <3>3 DEF ToolInv
      <4>3. ~Calling'
        BY <1>1, <4>1, <4>2 DEF Calling, Asked
      <4>. QED
        BY <1>1, <3>1, <4>1, <4>3 DEF ToolInv, Asked
    <3>. QED
      BY <3>2, <3>3 DEF Caller
  <2>. QED
    BY <2>1, <2>4, <2>5, <2>6, <2>7
<1>. QED
  BY <1>2, <1>3, <1>4, <1>5

-----------------------------------------------------------------------------
(* The theorems.                                                           *)

\* The invariant holds at first,
LEMMA InitHolds == Init => IInv
<1>. SUFFICES ASSUME Init  PROVE IInv
  OBVIOUS
<1>. USE DEF Init
<1>. DEFINE first == CHOOSE c \in Compatible : TRUE
<1>1. first \in Config
  BY VerifiedAssumption
<1>2. 0 \in Turn /\ 0 \in Print0 /\ 0 \in Instance /\ 1 \in 1..MaxTurn
  BY VerifiedAssumption DEF Turn, Print0, Instance
<1>3. GoodJob(job) /\ job.st = "NONE"
  <2>1. NewJob \in JobRecord
    BY NewGood DEF GoodJob
  <2>2. job \in JobRecord
    BY <2>1 DEF JobRecord, State
  <2>3. /\ job.st = "NONE" /\ job.gen = 1 /\ job.fin = FALSE /\ job.creq = FALSE
        /\ job.h1 = 0 /\ job.h2 = 0 /\ job.h3 = 0 /\ job.inst = 0
    BY <2>1 DEF NewJob
  <2>. QED
    BY <2>2, <2>3 DEF GoodJob, Acting, Terminal, Working
<1>4. tool \in [Caller -> ToolRecord] /\ (\A c \in Caller : tool[c].gen = 0 /\ tool[c].pc = "none")
  BY <1>2 DEF Quiet, ToolRecord
<1>5. host \in HostRecord /\ host.st = "active" /\ host.turn = 1
  <2>1. PICK may \in Disturbances :
          host = [ turn |-> 1, st |-> "active", again |-> FALSE, others |-> FALSE, inst |-> 1, told |-> {},
                   conf |-> first, loss |-> FALSE, failed |-> FALSE, live |-> FALSE, may |-> may ]
    OBVIOUS
  <2>2. may \in SUBSET Disturbance
    BY VerifiedAssumption
  <2>. HIDE DEF first
  <2>. QED
    BY <1>1, <1>2, <2>1, <2>2 DEF HostRecord
<1>6. sup \in SupRecord /\ sup.pc = "off"
  <2>1. Nothing \in ShotRecord
    BY <1>2 DEF Nothing, ShotRecord
  <2>2. job \in JobRecord /\ sup = [pc |-> "off", goal |-> "h1", base |-> job, shot |-> Nothing]
    BY <1>3 DEF GoodJob
  <2>. HIDE DEF Nothing, Init
  <2>. QED
    BY <2>1, <2>2 DEF SupRecord, SupPc, Goal
<1>7. TypeInv
  BY <1>2, <1>4, <1>5, <1>6 DEF TypeInv
<1>8. SupInv /\ ProvedInv /\ HookInv
  BY <1>3, <1>6 DEF SupInv, SaveKnown, ProvedInv, HookInv, Acting
<1>9. ToolInv
  <2>1. \A c \in Caller : tool[c].gen <= job.gen
    BY <1>3, <1>4 DEF GoodJob
  <2>. QED
    BY <1>4, <1>5, <2>1 DEF ToolInv, Calling, Asked, Caller
<1>. QED
  BY <1>3, <1>7, <1>8, <1>9 DEF IInv

\* What one step of anybody can do to the job.
Moves(r, q) ==
    \/ QuietMoves(r, q) \/ Reopens(r, q) \/ Waits(r, q) \/ Stops(r, q) \/ Reports(r, q) \/ Opens(r, q)
    \/ \E t : Sees(r, q, t)

\* ... every step keeps it and moves the job in one of these ways,
LEMMA StepHolds == IInv /\ [Next]_vars => IInv' /\ Moves(job, job')
<1>. SUFFICES ASSUME IInv, [Next]_vars  PROVE IInv' /\ Moves(job, job')
  OBVIOUS
<1>0. job' = job => Moves(job, job')
  BY DEF Moves, QuietMoves
<1>1. CASE HostStep
  BY <1>0, <1>1, HostKeeps
<1>2. CASE Cancel \/ Refresh \/ Worker \/ Tick
  BY <1>2, CloseKeeps DEF Moves
<1>3. CASE Arm
  BY <1>3, ArmKeeps DEF Moves
<1>4. ASSUME NEW c \in Caller, Finish(c) \/ FinishVerifier(c) \/ Answer(c) \/ ServerExits(c) \/ Pause(c)
      PROVE  IInv' /\ Moves(job, job')
  <2>1. CASE Finish(c)
    BY <2>1, FinishKeeps DEF Moves
  <2>2. CASE FinishVerifier(c)
    BY <2>2, VerifierKeeps DEF Moves
  <2>3. CASE Answer(c)
    BY <1>0, <2>3, AnswerKeeps
  <2>4. CASE ServerExits(c)
    BY <1>0, <2>4, ExitKeeps
  <2>5. CASE Pause(c)
    BY <2>5, PauseKeeps DEF Moves
  <2>. QED
    BY <1>4, <2>1, <2>2, <2>3, <2>4, <2>5
<1>5. ASSUME NEW x \in hooks, Observe(x) \/ Update(x) \/ Settle(x) \/ HookCrash(x)
      PROVE  IInv' /\ Moves(job, job')
  BY <1>5, HookKeeps DEF Moves
<1>6. CASE SupStep
  BY <1>6, SupKeeps DEF Moves
<1>7. CASE UNCHANGED vars
  BY <1>0, <1>7 DEF vars, IInv, TypeInv, SupInv, SaveKnown, ProvedInv, ToolInv, Calling, Asked, Busy, HookInv
<1>. QED
  BY <1>1, <1>2, <1>3, <1>4, <1>5, <1>6, <1>7 DEF Next, ServerStep, HookStep

\* ... and so it always holds.
LEMMA Invariant == Spec => []IInv
<1>1. IInv /\ [Next]_vars => IInv'
  BY StepHolds
<1>. QED
  BY <1>1, InitHolds, PTL DEF Spec

\* Every part of a job keeps to Validate: evidence, fingerprints and the
\* host's identity come and go together, for any number of turns.
THEOREM VerifiedTyped == Spec => []VerifiedTypeOK
<1>1. IInv => VerifiedTypeOK
  BY DEF IInv, TypeInv, GoodJob, VerifiedTypeOK
<1>. QED
  BY <1>1, Invariant, PTL

\* A job is stopped or acted upon only for the turn whose own report was seen
\* and passed, whatever foreign call, late verifier, lost hook or interrupted
\* turn came between (finish and the Stop hook).
THEOREM EvidenceAlwaysStands == Spec => []EvidenceStands
<1>1. IInv => EvidenceStands
  BY DEF IInv, ProvedInv, EvidenceStands
<1>. QED
  BY <1>1, Invariant, PTL

\* The abstract rule, over this job: a claim only after a counted stop, and a
\* resumption revokes a claimed action or reopens an unclaimed one.
LEMMA RuleStep ==
    ASSUME IInv, IInv', Moves(job, job')
    PROVE  Rule!Next \/ UNCHANGED Rule!vars
<1>. DEFINE counted == IF job.st \in {"STOP_OBSERVED"} \cup Acting THEN {1} ELSE {}
<1>1. GoodJob(job) /\ GoodJob(job') /\ job.st \in State /\ job'.st \in State /\ job'.creq \in BOOLEAN
  BY DEF IInv, GoodJob, JobRecord
<1>2. \/ Phase' = Phase /\ counted' = counted /\ job'.creq = job.creq
      \/ Phase # "closed" /\ Phase' = "closed" /\ counted' = {}
      \/ Phase = "ready" /\ Phase' = "claimed" /\ counted = {1} /\ counted' = {1} /\ job'.creq = job.creq
      \/ Phase = "claimed" /\ Phase' = "claimed" /\ counted' = counted /\ job'.creq = TRUE
      \/ Phase = "ready" /\ Phase' = "waiting" /\ counted = {1} /\ counted' = {} /\ job'.creq = job.creq
      \/ Phase = "waiting" /\ Phase' = "ready" /\ counted = {} /\ counted' = {1} /\ job'.creq = job.creq
  <2>1. CASE job' = job
    BY <2>1 DEF Phase
  <2>2. CASE Notes(job, job')
    BY <2>2 DEF Notes, Phase, Acting, Terminal
  <2>3. CASE Ends(job, job')
    BY <2>3 DEF Ends, Phase, Acting, Terminal, IsActive
  <2>4. CASE Claims(job, job')
    BY <2>4 DEF Claims, Phase, Acting, Terminal
  <2>5. CASE Revokes(job, job')
    BY <2>5 DEF Revokes, Unresolved, Phase, Acting, Terminal
  <2>6. CASE Reopens(job, job') \/ Waits(job, job')
    <3>1. job.creq = FALSE /\ job'.creq = FALSE
      BY <1>1, <2>6 DEF Reopens, Waits, GoodJob, JobRecord, IsActive, Unresolved
    <3>. QED
      BY <2>6, <3>1 DEF Reopens, Waits, IsActive, Unresolved, Phase, Acting, Terminal
  <2>7. CASE Stops(job, job')
    BY <2>7 DEF Stops, Phase, Acting, Terminal
  <2>8. CASE Reports(job, job')
    BY <2>8 DEF Reports, Phase, Acting, Terminal, Working
  <2>9. CASE Opens(job, job')
    <3>1. job.creq = FALSE
      BY <1>1, <2>9 DEF Opens, GoodJob, JobRecord, Acting, Terminal
    <3>. QED
      BY <2>9, <3>1 DEF Opens, Phase, Acting, Terminal
  <2>10. CASE \E t : Sees(job, job', t)
    BY <2>10 DEF Sees, Phase, Acting, Terminal
  <2>. QED
    BY <2>1, <2>2, <2>3, <2>4, <2>5, <2>6, <2>7, <2>8, <2>9, <2>10 DEF Moves, QuietMoves
<1>. QED
  BY <1>1, <1>2 DEF Rule!Next, Rule!vars, Rule!Count, Rule!Resume, Rule!Claim, Rule!Revoke, Rule!Close

\* The verified job implements the rule of the barrier jobs.
THEOREM VerifiedRule == Spec => VerifiedImplementsRule
<1>1. Init => Rule!Init
  BY DEF Init, NewJob, Rule!Init, Phase, Acting, Terminal
<1>2. IInv /\ IInv' /\ [Next]_vars => [Rule!Next]_(Rule!vars)
  BY StepHolds, RuleStep
<1>. QED
  BY <1>1, <1>2, Invariant, PTL DEF Spec, VerifiedImplementsRule, Rule!Spec

-----------------------------------------------------------------------------
(* An unrevoked action was claimed for a host at rest.                     *)

\* A hook of a resumption that has not yet told the job.
Speaks(x) == x.kind \in {"Prompt", "SessionEnd"} /\ x.pc \in {"observe", "update"}
Rests(t) ==
    \/ host.st = "idle" /\ host.turn = t
    \/ \E x \in hooks : Speaks(x)
    \/ host.failed

\* A job past its arming knows its turn, so that no hook of it passes unseen.
BoundJob(r) == r.st \in {"NONE", "ARM_PENDING_BIND"} \cup Terminal \/ Bound(r)

Settled == {"STOP_OBSERVED"} \cup Acting
Same == sup.base.gen = job.gen

\* The supervisor from the gates to its intent works for a stop that the job
\* still has, unless the job has another generation by now or is over.
Deciding ==
    \/ sup.pc \in {"quiet", "intent"}
    \/ sup.pc \in {"threads", "children", "inventory"} /\ sup.goal = "final"
BaseInv ==
    Deciding =>
        /\ sup.base.st = "STOP_OBSERVED" /\ sup.base.stop # 0 /\ sup.base.gen <= job.gen
        /\ Same => job.st \in Settled \cup Terminal
        /\ Same /\ job.st \in Settled => job.stop = sup.base.stop

\* In its final look it saw the host at rest in that turn.
Looked ==
    \/ sup.pc = "intent"
    \/ sup.pc \in {"children", "inventory"} /\ sup.goal = "final" /\ sup.shot.last = sup.base.stop
LookInv == Looked /\ Same /\ job.st = "STOP_OBSERVED" => Rests(sup.base.stop)

ClaimInv == Unresolved(job) /\ ~job.creq => Rests(job.stop)

RestInv == BoundJob(job) /\ BaseInv /\ LookInv /\ ClaimInv

\* What a move does to the generation, the stop and the claim.
LEMMA MoveFacts ==
    ASSUME NEW r, GoodJob(r), NEW q, GoodJob(q), Moves(r, q), r.st # "NONE"
    PROVE  /\ r.gen \in Nat /\ q.gen \in Nat /\ q.gen >= r.gen
           /\ q.gen = r.gen /\ r.st \in Settled \cup Terminal =>
                /\ q.st \in Settled \cup Terminal
                /\ q.st \in Settled => r.st \in Settled /\ q.stop = r.stop
           /\ q.st = "STOP_OBSERVED" /\ q.gen = r.gen /\ r.st \in Settled \cup Terminal =>
                r.st = "STOP_OBSERVED"
           /\ q.st \in Acting /\ ~q.creq =>
                /\ ~r.creq /\ q.stop = r.stop /\ q.gen = r.gen
                /\ r.st \in Acting \/ (r.st = "STOP_OBSERVED" /\ q.st = "ACTION_INTENT")
<1>. USE DEF Settled, Acting, Terminal
<1>1. r.gen \in Nat /\ q.gen \in Nat /\ r.creq \in BOOLEAN /\ q.creq \in BOOLEAN
  BY DEF GoodJob, JobRecord
<1>2. CASE q = r
  BY <1>1, <1>2
<1>3. CASE Notes(r, q)
  BY <1>1, <1>3 DEF Notes, Kept
<1>4. CASE Ends(r, q)
  BY <1>1, <1>4 DEF Ends, IsActive
<1>5. CASE Claims(r, q)
  BY <1>1, <1>5 DEF Claims, Kept
<1>6. CASE Revokes(r, q)
  BY <1>1, <1>6 DEF Revokes, Kept, Unresolved
<1>7. CASE Reopens(r, q)
  BY <1>1, <1>7 DEF Reopens
<1>8. CASE Waits(r, q)
  BY <1>1, <1>8 DEF Waits
<1>9. CASE Stops(r, q)
  BY <1>1, <1>9 DEF Stops
<1>10. CASE Reports(r, q)
  BY <1>1, <1>10 DEF Reports, Working
<1>11. CASE Opens(r, q)
  BY <1>1, <1>11 DEF Opens
<1>12. CASE \E t : Sees(r, q, t)
  BY <1>1, <1>12 DEF Sees
<1>. QED
  BY <1>2, <1>3, <1>4, <1>5, <1>6, <1>7, <1>8, <1>9, <1>10, <1>11, <1>12 DEF Moves, QuietMoves

\* A step of anybody but the supervisor: what was seen of the host still holds
\* unless the job has been told.
LEMMA OthersRest ==
    ASSUME IInv, GoodJob(job'), Moves(job, job'), BaseInv, LookInv, ClaimInv, sup' = sup,
           job.st # "NONE", job.st = "STOP_OBSERVED" => job'.st # "ACTION_INTENT",
           job'.gen = job.gen /\ job'.st \in Settled /\ ~job'.creq =>
             \A t \in Turn : Rests(t) => Rests(t)'
    PROVE  BaseInv' /\ LookInv' /\ ClaimInv'
<1>1. /\ job.gen \in Nat /\ job'.gen \in Nat /\ job'.gen >= job.gen
      /\ job'.gen = job.gen /\ job.st \in Settled \cup Terminal =>
           /\ job'.st \in Settled \cup Terminal
           /\ job'.st \in Settled => job.st \in Settled /\ job'.stop = job.stop
      /\ job'.st = "STOP_OBSERVED" /\ job'.gen = job.gen /\ job.st \in Settled \cup Terminal =>
           job.st = "STOP_OBSERVED"
      /\ job'.st \in Acting /\ ~job'.creq =>
           /\ ~job.creq /\ job'.stop = job.stop /\ job'.gen = job.gen
           /\ job.st \in Acting \/ (job.st = "STOP_OBSERVED" /\ job'.st = "ACTION_INTENT")
  BY MoveFacts DEF IInv
<1>2. sup.base.gen \in Nat /\ sup.base.stop \in Turn /\ job.stop \in Turn
  BY DEF IInv, TypeInv, SupRecord, GoodJob, JobRecord
<1>3. ASSUME Deciding, Same'
      PROVE  Same /\ job'.gen = job.gen
  BY <1>1, <1>2, <1>3 DEF Same, BaseInv
<1>4. BaseInv'
  <2>1. ASSUME Deciding
        PROVE  /\ sup.base.st = "STOP_OBSERVED" /\ sup.base.stop # 0 /\ sup.base.gen <= job'.gen
               /\ Same' => job'.st \in Settled \cup Terminal
               /\ Same' /\ job'.st \in Settled => job'.stop = sup.base.stop
    BY <1>1, <1>2, <1>3, <2>1 DEF BaseInv
  <2>. QED
    BY <2>1 DEF BaseInv, Deciding, Same
<1>5. LookInv'
  <2>1. ASSUME Looked, Same', job'.st = "STOP_OBSERVED", NEW t \in Turn, t = sup.base.stop
        PROVE  Rests(t)'
    <3>1. Deciding
      BY <2>1 DEF Looked, Deciding
    <3>2. Same /\ job'.gen = job.gen /\ job.st = "STOP_OBSERVED"
      BY <1>1, <1>3, <2>1, <3>1 DEF BaseInv
    <3>3. ~job'.creq /\ job'.st \in Settled
      BY <2>1 DEF GoodJob, Acting, Terminal, Settled
    <3>4. Rests(t)
      BY <2>1, <3>2 DEF LookInv
    <3>. QED
      BY <3>2, <3>3, <3>4
  <2>2. Looked' /\ Same' /\ job'.st = "STOP_OBSERVED" => \A t \in Turn : t = sup'.base.stop => Rests(t)'
    BY <2>1 DEF Looked
  <2>. QED
    BY <1>2, <2>2 DEF LookInv, Rests
<1>6. ClaimInv'
  <2>1. ASSUME job'.st \in Acting, ~job'.creq, NEW t \in Turn, t = job'.stop
        PROVE  Rests(t)'
    <3>1. job.st \in Acting /\ ~job.creq /\ t = job.stop /\ job'.gen = job.gen
      BY <1>1, <2>1
    <3>2. Rests(t) /\ job'.st \in Settled
      BY <2>1, <3>1 DEF ClaimInv, Unresolved, Settled
    <3>. QED
      BY <2>1, <3>1, <3>2
  <2>2. job'.stop \in Turn
    BY DEF GoodJob, JobRecord
  <2>. QED
    BY <2>1, <2>2 DEF ClaimInv, Unresolved, Rests
<1>. QED
  BY <1>4, <1>5, <1>6

\* The host leaves its rest only with a hook that will tell.
LEMMA HostRests ==
    ASSUME IInv, HostStep
    PROVE  \A t \in Turn : Rests(t) => Rests(t)'
<1>. SUFFICES ASSUME NEW t \in Turn, Rests(t)  PROVE Rests(t)'
  OBVIOUS
<1>1. host \in HostRecord
  BY DEF IInv, TypeInv
<1>2. hooks \subseteq hooks'
  BY DEF HostStep, UserPromptSubmit, StopEvent, TurnCompleted, Interrupt, SessionEnd, Elsewhere, StartHook
<1>3. host'.failed = host.failed
  BY <1>1 DEF HostStep, UserPromptSubmit, StopEvent, TurnCompleted, Interrupt, SessionEnd, Elsewhere, Tell,
              HostRecord
<1>4. CASE UserPromptSubmit
  <2>. DEFINE x == PromptHook(host.turn + 1)
  <2>1. x \in hooks' /\ Speaks(x)
    BY <1>4 DEF UserPromptSubmit, PromptHook, Hook, Speaks
  <2>. HIDE DEF x
  <2>. QED
    BY <2>1 DEF Rests
<1>5. CASE SessionEnd
  <2>. DEFINE x == Hook("SessionEnd", FALSE)
  <2>1. x \in hooks' /\ Speaks(x)
    BY <1>5 DEF SessionEnd, StartHook, Hook, Speaks
  <2>. HIDE DEF x
  <2>. QED
    BY <2>1 DEF Rests
<1>6. CASE StopEvent \/ TurnCompleted \/ Interrupt
  <2>1. host.st # "idle"
    BY <1>6 DEF StopEvent, TurnCompleted, Interrupt
  <2>. QED
    BY <1>2, <1>3, <2>1 DEF Rests
<1>7. CASE Elsewhere
  <2>1. host'.st = host.st /\ host'.turn = host.turn
    BY <1>1, <1>7 DEF Elsewhere, HostRecord
  <2>. QED
    BY <1>2, <1>3, <2>1 DEF Rests
<1>. QED
  BY <1>4, <1>5, <1>6, <1>7 DEF HostStep

\* A hook that ends without having told the job is one the host reports as
\* failed, or had nothing to tell.
LEMMA HookRests ==
    ASSUME IInv, NEW x \in hooks, Observe(x) \/ Update(x) \/ Settle(x) \/ HookCrash(x),
           Speaks(x) => ~Update(x) /\ (Observe(x) => Bound(job))
    PROVE  \A t \in Turn : Rests(t) => Rests(t)'
<1>. SUFFICES ASSUME NEW t \in Turn, Rests(t)  PROVE Rests(t)'
  OBVIOUS
<1>1. host \in HostRecord /\ x \in HookRecord
  BY DEF IInv, TypeInv
<1>2. CASE HookCrash(x)
  <2>1. host'.failed = TRUE
    BY <1>1, <1>2 DEF HookCrash, HostRecord
  <2>. QED
    BY <2>1 DEF Rests
<1>3. CASE ~HookCrash(x)
  <2>1. host' = host /\ \A y \in hooks : y # x => y \in hooks'
    BY <1>3 DEF Observe, Update, Settle, Advance
  <2>2. CASE Speaks(x)
    <3>1. Observe(x) /\ Bound(job)
      BY <1>3, <2>2 DEF Speaks, Settle
    <3>. DEFINE m == Revoking(x) /\ IsActive(job)
                y == [x EXCEPT !.pc = "update", !.mark = m]
    <3>2. y \in hooks'
      BY <3>1 DEF Observe, Advance
    <3>. HIDE DEF m
    <3>3. Speaks(y)
      BY <1>1, <2>2 DEF Speaks, HookRecord
    <3>. HIDE DEF y
    <3>. QED
      BY <3>2, <3>3 DEF Rests
  <2>3. CASE ~Speaks(x)
    BY <2>1, <2>3 DEF Rests
  <2>. QED
    BY <2>2, <2>3
<1>. QED
  BY <1>2, <1>3

\* Told of a resumption, a job is over, revoked or in another generation.
LEMMA SpeakerTells ==
    ASSUME IInv, NEW x \in hooks, Speaks(x), Update(x)
    PROVE  ~(job'.gen = job.gen /\ job'.st \in Settled /\ ~job'.creq)
<1>. USE DEF Settled, Acting, Terminal
<1>1. GoodJob(job) /\ job' = After(x, job) /\ x.t \in Turn /\ x.kind \in {"Prompt", "SessionEnd"}
  BY TurnTyped DEF IInv, TypeInv, Update, Speaks
<1>2. job.gen \in Nat
  BY <1>1 DEF GoodJob, JobRecord
<1>3. CASE ~IsActive(job)
  BY <1>1, <1>3 DEF After, IsActive
<1>4. CASE IsActive(job)
  <2>1. \/ Unresolved(job) /\ job' = RequestCancel(job)
        \/ job' = Expire(job)
        \/ ~Unresolved(job) /\ job' = [Invalidate(job, "ARMED") EXCEPT !.cur = x.t]
    BY <1>1, <1>4 DEF After, AfterPrompt, AfterSessionEnd
  <2>2. CASE Unresolved(job) /\ job' = RequestCancel(job)
    BY <1>1, <2>2, RevokeGood DEF Revokes
  <2>3. CASE job' = Expire(job)
    BY <1>1, <1>4, <2>3, ExpireGood DEF Ends
  <2>4. CASE ~Unresolved(job) /\ job' = [Invalidate(job, "ARMED") EXCEPT !.cur = x.t]
    BY <1>1, <1>4, <2>4, ExpireGood DEF Reopens
  <2>. QED
    BY <2>1, <2>2, <2>3, <2>4
<1>. QED
  BY <1>3, <1>4

\* Nobody but the supervisor claims.
LEMMA OthersClaimNothing ==
    ASSUME IInv, job.st = "STOP_OBSERVED",
           \/ HostStep \/ Cancel \/ Refresh \/ Worker \/ Tick
           \/ \E c \in Caller : Finish(c) \/ FinishVerifier(c) \/ Answer(c) \/ ServerExits(c) \/ Pause(c)
           \/ \E x \in hooks : Observe(x) \/ Update(x) \/ Settle(x) \/ HookCrash(x)
    PROVE  job'.st # "ACTION_INTENT"
<1>. USE DEF Acting, Terminal
<1>1. GoodJob(job) /\ IsActive(job) /\ ~Unresolved(job) /\ job \in JobRecord
  BY DEF IInv, IsActive, Unresolved, GoodJob
<1>2. job' = job \/ job'.st \in Terminal => job'.st # "ACTION_INTENT"
  OBVIOUS
<1>3. CASE HostStep
  BY <1>2, <1>3, HostKeeps
<1>4. Expire(job).st \in Terminal
  BY <1>1, ExpireGood DEF Ends
<1>5. CASE Cancel \/ Refresh \/ Tick
  <2>1. [Invalidate(job, "CANCELLED") EXCEPT !.creq = TRUE].st \in Terminal
    BY <1>1, CancelGood DEF Ends
  <2>. QED
    BY <1>1, <1>2, <1>4, <1>5, <2>1 DEF Cancel, Refresh, Tick
<1>6. CASE Worker
  <2>1. [Bump(job) EXCEPT !.st = "CANCELLED", !.creq = TRUE].st \in Terminal
    <3>1. "CANCELLED" \in Terminal /\ TRUE \in BOOLEAN
      OBVIOUS
    <3>. QED
      BY <1>1, <3>1, EndGood DEF Ends
  <2>. QED
    BY <1>1, <1>2, <1>6, <2>1 DEF Worker
<1>7. ASSUME NEW c \in Caller, Finish(c) \/ FinishVerifier(c) \/ Answer(c) \/ ServerExits(c) \/ Pause(c)
      PROVE  job'.st # "ACTION_INTENT"
  <2>1. CASE Finish(c)
    BY <2>1 DEF Finish, Working
  <2>2. CASE FinishVerifier(c)
    BY <1>2, <1>4, <2>2 DEF FinishVerifier
  <2>3. CASE Answer(c) \/ ServerExits(c)
    BY <1>2, <2>3 DEF Answer, ServerExits
  <2>4. CASE Pause(c)
    <3>1. Invalidate(job, "WAITING").st = "WAITING"
      BY <1>1, ExpireGood DEF Waits
    <3>. QED
      BY <1>4, <2>4, <3>1 DEF Pause
  <2>. QED
    BY <1>7, <2>1, <2>2, <2>3, <2>4
<1>8. ASSUME NEW x \in hooks, Observe(x) \/ Update(x) \/ Settle(x) \/ HookCrash(x)
      PROVE  job'.st # "ACTION_INTENT"
  <2>1. CASE Observe(x) \/ HookCrash(x)
    BY <1>2, <2>1 DEF Observe, HookCrash
  <2>2. CASE Update(x)
    <3>1. HookMoves(x, job, job')
      BY <1>1, <2>2, AfterStep DEF Update, IInv, TypeInv, HookInv
    <3>. QED
      BY <1>1, <3>1 DEF HookMoves, Ends, Revokes, Stops, Reopens, Sees
  <2>3. CASE Settle(x)
    <3>1. [Bump(job) EXCEPT !.st = "FAILED"].st \in Terminal
      <4>1. "FAILED" \in Terminal /\ TRUE \in BOOLEAN
        OBVIOUS
      <4>. QED
        BY <1>1, <4>1, EndGood DEF Ends
    <3>. QED
      BY <1>1, <1>2, <2>3, <3>1 DEF Settle
  <2>. QED
    BY <1>8, <2>1, <2>2, <2>3
<1>. QED
  BY <1>3, <1>5, <1>6, <1>7, <1>8

-----------------------------------------------------------------------------
(* A job past its arming knows its turn.                                   *)

\* What a record keeps of its turn.
LEMMA TurnKept ==
    ASSUME NEW r \in JobRecord, BoundJob(r), NEW q \in JobRecord, q.cur = r.cur,
           q.st = r.st \/ r.st \notin {"NONE", "ARM_PENDING_BIND"} \cup Terminal \/ q.st \in Terminal
    PROVE  BoundJob(q)
BY DEF BoundJob, Bound

LEMMA AfterBound ==
    ASSUME NEW r, GoodJob(r), BoundJob(r), NEW x \in HookRecord, x.t # 0
    PROVE  BoundJob(After(x, r))
<1>. USE DEF Terminal
<1>1. r \in JobRecord /\ x.t \in Turn
  BY TurnTyped DEF GoodJob
<1>. SUFFICES ASSUME IsActive(r)  PROVE BoundJob(After(x, r))
  BY DEF After
<1>2. BoundJob(Expire(r)) /\ BoundJob(Invalidate(r, "FAILED"))
  <2>1. {"FAILED", "EXPIRED"} \subseteq State
    BY DEF State
  <2>. QED
    BY <1>1, <2>1, ClearFields DEF Expire, BoundJob
<1>3. Unresolved(r) => BoundJob(RequestCancel(r))
  <2>1. RequestCancel(r).cur = r.cur
    BY <1>1 DEF RequestCancel, Bump, JobRecord
  <2>. QED
    BY <1>1, <2>1, RevokeGood, TurnKept DEF Revokes, Unresolved, Acting
<1>4. BoundJob([Invalidate(r, "ARMED") EXCEPT !.cur = x.t])
  <2>. DEFINE b == Invalidate(r, "ARMED")
  <2>1. b \in JobRecord
    BY <1>1, ClearFields DEF State, Working
  <2>. HIDE DEF b
  <2>2. [b EXCEPT !.cur = x.t].cur = x.t
    BY <2>1 DEF JobRecord
  <2>. QED
    BY <2>2 DEF b, BoundJob, Bound
<1>5. BoundJob([r EXCEPT !.st = "ARMED", !.cur = x.t])
  BY <1>1 DEF BoundJob, Bound, JobRecord
<1>6. r.st = "READY_PENDING_STOP" => /\ BoundJob([r EXCEPT !.st = "STOP_OBSERVED", !.stop = x.t])
                                     /\ BoundJob([r EXCEPT !.fin = TRUE])
  BY <1>1 DEF BoundJob, Bound, JobRecord
<1>7. \/ After(x, r) \in { r, Expire(r), Invalidate(r, "FAILED"), [Invalidate(r, "ARMED") EXCEPT !.cur = x.t],
                          [r EXCEPT !.st = "ARMED", !.cur = x.t] }
      \/ Unresolved(r) /\ After(x, r) = RequestCancel(r)
      \/ r.st = "READY_PENDING_STOP" /\ After(x, r) \in { [r EXCEPT !.st = "STOP_OBSERVED", !.stop = x.t],
                                                           [r EXCEPT !.fin = TRUE] }
  <2>1. CASE x.kind = "Prompt"
    BY <2>1 DEF After, AfterPrompt
  <2>2. CASE x.kind = "Stop"
    BY <2>2 DEF After, AfterStop
  <2>3. CASE x.kind = "SessionEnd"
    BY <2>3 DEF After, AfterSessionEnd
  <2>4. CASE x.kind = "Arm"
    BY <2>4 DEF After, AfterArm
  <2>5. CASE x.kind = "Finish"
    BY <2>5 DEF After, AfterFinish
  <2>6. CASE x.kind = "Pause"
    BY <2>6 DEF After
  <2>7. CASE x.kind = "Stranger"
    BY <2>7 DEF After, AfterStranger
  <2>. QED
    BY <2>1, <2>2, <2>3, <2>4, <2>5, <2>6, <2>7 DEF HookRecord
<1>. QED
  BY <1>2, <1>3, <1>4, <1>5, <1>6, <1>7

\* What a step of anybody but a hook's update makes of the turn.
TurnStays(r, q) ==
    \/ q.st \in Terminal \cup {"ARM_PENDING_BIND"}
    \/ q.cur = r.cur /\ (q.st = r.st \/ r.st \notin {"NONE", "ARM_PENDING_BIND"} \cup Terminal)

LEMMA StaysBound ==
    ASSUME NEW r \in JobRecord, BoundJob(r), NEW q \in JobRecord, TurnStays(r, q)
    PROVE  BoundJob(q)
BY TurnKept DEF TurnStays, BoundJob

\* Saving what was seen moves the job on from ARMED at most.
LEMMA SaveKeeps ==
    ASSUME IInv, SupSave
    PROVE  job'.cur = job.cur /\ (job'.st = job.st \/ (job.st = "ARMED" /\ job'.st = "HOST_MONITORING"))
<1>1. job \in JobRecord /\ sup \in SupRecord /\ SaveKnown(sup)
  BY DEF IInv, GoodJob, TypeInv, SupInv
<1>2. sup.goal \in {"h1", "h2", "h3"}
  BY <1>1 DEF SupSave, SaveKnown
<1>3. /\ [job EXCEPT !.h2 = sup.shot.conf].cur = job.cur /\ [job EXCEPT !.h2 = sup.shot.conf].st = job.st
      /\ [job EXCEPT !.h3 = sup.shot.conf].cur = job.cur /\ [job EXCEPT !.h3 = sup.shot.conf].st = job.st
  BY <1>1 DEF JobRecord
<1>. DEFINE q == [job EXCEPT !.h1 = sup.shot.conf, !.inst = sup.shot.inst,
                             !.st = IF @ = "ARMED" THEN "HOST_MONITORING" ELSE @]
<1>4. q.cur = job.cur /\ (q.st = job.st \/ (job.st = "ARMED" /\ q.st = "HOST_MONITORING"))
  BY <1>1 DEF JobRecord
<1>5. \/ job' = job \/ job' = q
      \/ job' = [job EXCEPT !.h2 = sup.shot.conf] \/ job' = [job EXCEPT !.h3 = sup.shot.conf]
  BY <1>2 DEF SupSave
<1>. HIDE DEF q
<1>. QED
  BY <1>3, <1>4, <1>5

LEMMA SupBound ==
    ASSUME IInv, SupStep
    PROVE  TurnStays(job, job')
<1>. USE DEF Terminal
<1>1. job \in JobRecord /\ sup \in SupRecord /\ SaveKnown(sup)
  BY DEF IInv, GoodJob, TypeInv, SupInv
<1>2. CASE UNCHANGED job
  BY <1>2 DEF TurnStays
<1>3. CASE SupSave
  BY <1>3, SaveKeeps DEF TurnStays
<1>4. CASE SupFail \/ SupLastLook \/ SupCancel
  <2>1. /\ [job EXCEPT !.st = "FAILED"].st = "FAILED"
        /\ [job EXCEPT !.st = "CANCELLED", !.creq = TRUE].st = "CANCELLED"
    BY <1>1 DEF JobRecord
  <2>2. job' = job \/ job'.st = "FAILED" \/ job'.st = "CANCELLED"
    BY <1>4, <2>1 DEF SupFail, SupLastLook, SupCancel
  <2>. QED
    BY <2>2 DEF TurnStays
<1>5. CASE SupIntent \/ SupCall
  <2>1. /\ [job EXCEPT !.st = "ACTION_INTENT"].cur = job.cur
        /\ [job EXCEPT !.st = "ACTION_SCHEDULED"].cur = job.cur
    BY <1>1 DEF JobRecord
  <2>2. job' = job \/ (job'.cur = job.cur /\ job.st \in {"STOP_OBSERVED", "ACTION_INTENT"})
    BY <1>5, <2>1 DEF SupIntent, SupCall
  <2>. QED
    BY <2>2 DEF TurnStays
<1>. QED
  BY <1>2, <1>3, <1>4, <1>5 DEF SupStep, SupRun, LookThreads, LookChildren, LookInventory, SupGate, SupRecheck,
     SupMonitor

LEMMA FinishBound ==
    ASSUME NEW r \in JobRecord, NEW s \in State
    PROVE  LET e == [Bump(r) EXCEPT !.pass = FALSE, !.ready = r.cur, !.stop = 0, !.fin = FALSE,
                                    !.h2 = 0, !.h3 = 0]
           IN [e EXCEPT !.st = s].cur = r.cur
<1>. DEFINE b == Bump(r)
            e == [b EXCEPT !.pass = FALSE, !.ready = r.cur, !.stop = 0, !.fin = FALSE, !.h2 = 0, !.h3 = 0]
<1>1. b \in JobRecord /\ b.cur = r.cur
  BY BumpFields
<1>. HIDE DEF b
<1>2. e \in JobRecord /\ e.cur = r.cur
  <2>1. 0 \in Turn /\ r.cur \in Turn /\ 0 \in Print0
    BY VerifiedAssumption DEF Turn, Print0, JobRecord
  <2>. QED
    BY <1>1, <2>1 DEF JobRecord
<1>. HIDE DEF e
<1>3. [e EXCEPT !.st = s].cur = r.cur
  BY <1>2 DEF JobRecord
<1>. QED
  BY <1>3 DEF e, b

LEMMA ServerBound ==
    ASSUME IInv, NEW c \in Caller, Finish(c) \/ FinishVerifier(c) \/ Answer(c) \/ ServerExits(c) \/ Pause(c)
    PROVE  TurnStays(job, job')
<1>. USE DEF Terminal
<1>1. job \in JobRecord /\ GoodJob(job)
  BY DEF IInv, GoodJob
<1>2. job'.st \in Terminal \/ job' = job => TurnStays(job, job')
  BY DEF TurnStays
<1>3. IsActive(job) => Expire(job).st \in Terminal
  BY <1>1, ExpireGood DEF Ends
<1>4. CASE Finish(c)
  <2>1. "VERIFYING" \in State /\ "READY_PENDING_STOP" \in State
    BY DEF State, Reported
  <2>2. job.st \in Working /\ (Ends(job, job') \/ job'.cur = job.cur)
    <3>. DEFINE e == [Bump(job) EXCEPT !.pass = FALSE, !.ready = job.cur, !.stop = 0, !.fin = FALSE,
                                       !.h2 = 0, !.h3 = 0]
    <3>1. [e EXCEPT !.st = "VERIFYING"].cur = job.cur /\ [e EXCEPT !.st = "READY_PENDING_STOP"].cur = job.cur
      BY <1>1, <2>1, FinishBound
    <3>2. \/ job' = Expire(job)
          \/ job' = [Bump(job) EXCEPT !.st = "NOT_DONE", !.pass = FALSE, !.ready = 0]
          \/ job' = [e EXCEPT !.st = "VERIFYING"] \/ job' = [e EXCEPT !.st = "READY_PENDING_STOP"]
      BY <1>4 DEF Finish
    <3>. HIDE DEF e
    <3>3. job.st \in Working
      BY <1>4 DEF Finish
    <3>4. "NOT_DONE" \in {"NOT_DONE", "VERIFYING", "READY_PENDING_STOP"} /\ IsActive(job)
      BY <3>3 DEF Working, IsActive
    <3>5. Ends(job, [Bump(job) EXCEPT !.st = "NOT_DONE", !.pass = FALSE, !.ready = 0])
      BY <1>1, <3>3, <3>4, EvidenceGood
    <3>6. Ends(job, Expire(job))
      BY <1>1, <3>4, ExpireGood
    <3>. QED
      BY <3>1, <3>2, <3>3, <3>5, <3>6
  <2>. QED
    BY <2>2 DEF TurnStays, Ends, Working
<1>5. CASE FinishVerifier(c)
  <2>1. /\ [job EXCEPT !.st = "READY_PENDING_STOP", !.pass = TRUE].cur = job.cur
        /\ [job EXCEPT !.st = "VERIFICATION_FAILED", !.pass = FALSE, !.ready = 0].st = "VERIFICATION_FAILED"
    BY <1>1 DEF JobRecord
  <2>2. \/ IsActive(job) /\ job' = Expire(job)
        \/ job' = job
        \/ job.st = "VERIFYING" /\ job' = [job EXCEPT !.st = "READY_PENDING_STOP", !.pass = TRUE]
        \/ job' = [job EXCEPT !.st = "VERIFICATION_FAILED", !.pass = FALSE, !.ready = 0]
    BY <1>5 DEF FinishVerifier
  <2>3. job'.st \in Terminal \/ job' = job \/ (job.st = "VERIFYING" /\ job'.cur = job.cur)
    BY <1>3, <2>1, <2>2
  <2>. QED
    BY <2>3 DEF TurnStays
<1>6. CASE Answer(c) \/ ServerExits(c)
  BY <1>2, <1>6 DEF Answer, ServerExits
<1>7. CASE Pause(c)
  <2>1. job.st \in Working \cup Reported /\ IsActive(job)
    BY <1>7 DEF Pause, IsActive, Working, Reported
  <2>2. job' = Expire(job) \/ job' = Invalidate(job, "WAITING")
    BY <1>7 DEF Pause
  <2>3. Invalidate(job, "WAITING").cur = job.cur
    <3>1. "WAITING" \in State
      BY DEF State
    <3>. QED
      BY <1>1, <3>1, ClearFields
  <2>4. job'.st \in Terminal \/ job'.cur = job.cur
    BY <1>3, <2>1, <2>2, <2>3
  <2>. QED
    BY <2>1, <2>4 DEF TurnStays, Working, Reported
<1>. QED
  BY <1>4, <1>5, <1>6, <1>7

\* A request, a refresh, the worker, the arming.
LEMMA CloseBound ==
    ASSUME IInv, Cancel \/ Refresh \/ Worker \/ Tick \/ Arm
    PROVE  TurnStays(job, job')
<1>. USE DEF Terminal
<1>1. job \in JobRecord /\ GoodJob(job)
  BY DEF IInv, GoodJob
<1>2. job'.st \in Terminal \cup {"ARM_PENDING_BIND"} \/ job' = job => TurnStays(job, job')
  BY DEF TurnStays
<1>3. CASE Cancel
  <2>1. CASE Unresolved(job)
    <3>1. job'.st = job.st /\ job' = RequestCancel(job)
      BY <1>1, <1>3, <2>1, RevokeGood DEF Cancel, Revokes
    <3>2. RequestCancel(job).cur = job.cur
      BY <1>1 DEF RequestCancel, Bump, JobRecord
    <3>. QED
      BY <3>1, <3>2 DEF TurnStays
  <2>2. CASE ~Unresolved(job)
    <3>1. IsActive(job)
      BY <1>3 DEF Cancel
    <3>2. [Invalidate(job, "CANCELLED") EXCEPT !.creq = TRUE].st \in Terminal
      BY <1>1, <3>1, CancelGood DEF Ends
    <3>. QED
      BY <1>2, <1>3, <2>2, <3>2 DEF Cancel
  <2>. QED
    BY <2>1, <2>2
<1>4. CASE Refresh
  <2>1. Expire(job).st \in Terminal
    BY <1>1, <1>4, ExpireGood DEF Ends, Refresh
  <2>. QED
    BY <1>2, <1>4, <2>1 DEF Refresh
<1>5. CASE Worker
  <2>1. "CANCELLED" \in Terminal /\ TRUE \in BOOLEAN
    OBVIOUS
  <2>2. IsActive(job) => [Bump(job) EXCEPT !.st = "CANCELLED", !.creq = TRUE].st \in Terminal
    BY <1>1, <2>1, EndGood DEF Ends
  <2>. QED
    BY <1>2, <1>5, <2>2 DEF Worker
<1>6. CASE Tick
  BY <1>2, <1>6 DEF Tick
<1>7. CASE Arm
  <2>1. NewJob.st = "ARM_PENDING_BIND" /\ [Bump(NewJob) EXCEPT !.st = "FAILED"].st = "FAILED"
    BY DEF NewJob, Bump
  <2>. QED
    BY <1>2, <1>7, <2>1 DEF Arm
<1>. QED
  BY <1>3, <1>4, <1>5, <1>6, <1>7

LEMMA HooksBound ==
    ASSUME IInv, BoundJob(job), NEW x \in hooks, Observe(x) \/ Update(x) \/ Settle(x) \/ HookCrash(x)
    PROVE  BoundJob(job')
<1>. USE DEF Terminal
<1>1. job \in JobRecord /\ GoodJob(job) /\ x \in HookRecord /\ x.t # 0
  BY DEF IInv, GoodJob, TypeInv, HookInv
<1>2. CASE Observe(x) \/ HookCrash(x)
  BY <1>2 DEF Observe, HookCrash
<1>3. CASE Update(x)
  BY <1>1, <1>3, AfterBound DEF Update
<1>4. CASE Settle(x)
  <2>1. "FAILED" \in Terminal /\ TRUE \in BOOLEAN
    OBVIOUS
  <2>2. IsActive(job) => [Bump(job) EXCEPT !.st = "FAILED"].st \in Terminal
    BY <1>1, <2>1, EndGood DEF Ends
  <2>3. RequestCancel(job).cur = job.cur
    BY <1>1 DEF RequestCancel, Bump, JobRecord
  <2>4. Unresolved(job) => RequestCancel(job).st = job.st
    BY <1>1, RevokeGood DEF Revokes
  <2>5. \/ job' = job \/ (IsActive(job) /\ job' = [Bump(job) EXCEPT !.st = "FAILED"])
        \/ Unresolved(job) /\ job' = RequestCancel(job)
    BY <1>4 DEF Settle
  <2>6. job' = job \/ job'.st \in Terminal \/ (job'.cur = job.cur /\ job.st = job'.st)
    BY <2>2, <2>3, <2>4, <2>5
  <2>. QED
    BY <2>6 DEF BoundJob, Bound
<1>. QED
  BY <1>2, <1>3, <1>4

LEMMA BoundKeeps == IInv /\ IInv' /\ BoundJob(job) /\ [Next]_vars => BoundJob(job')
<1>. SUFFICES ASSUME IInv, IInv', BoundJob(job), [Next]_vars  PROVE BoundJob(job')
  OBVIOUS
<1>1. job \in JobRecord /\ job' \in JobRecord
  BY DEF IInv, GoodJob
<1>2. UNCHANGED job => BoundJob(job')
  OBVIOUS
<1>3. CASE HostStep
  BY <1>2, <1>3, HostKeeps
<1>4. CASE Cancel \/ Refresh \/ Worker \/ Tick \/ Arm
  BY <1>1, <1>4, CloseBound, StaysBound
<1>5. CASE SupStep
  BY <1>1, <1>5, SupBound, StaysBound
<1>6. ASSUME NEW c \in Caller, Finish(c) \/ FinishVerifier(c) \/ Answer(c) \/ ServerExits(c) \/ Pause(c)
      PROVE  BoundJob(job')
  BY <1>1, <1>6, ServerBound, StaysBound
<1>7. CASE HookStep
  BY <1>7, HooksBound DEF HookStep
<1>8. CASE UNCHANGED vars
  BY <1>2, <1>8 DEF vars
<1>. QED
  BY <1>3, <1>4, <1>5, <1>6, <1>7, <1>8 DEF Next, ServerStep

-----------------------------------------------------------------------------
(* Steps of the host, the server and the hooks.                            *)

\* Before there is a job the supervisor is off, and nothing is claimed.
LEMMA NoneRests ==
    ASSUME IInv, Moves(job, job'), job.st = "NONE", sup' = sup \/ sup' = [sup EXCEPT !.pc = "run"]
    PROVE  BaseInv' /\ LookInv' /\ ClaimInv'
<1>1. sup.pc = "off" /\ sup \in SupRecord
  BY DEF IInv, SupInv, TypeInv
<1>2. sup'.pc \in {"off", "run"}
  <2>1. [sup EXCEPT !.pc = "run"].pc = "run"
    BY <1>1 DEF SupRecord
  <2>. QED
    BY <1>1, <2>1
<1>3. job'.st \in {"NONE", "ARM_PENDING_BIND", "FAILED"}
  BY DEF Moves, QuietMoves, Notes, Ends, Claims, Revokes, Reopens, Waits, Stops, Reports, Opens, Sees,
         IsActive, Unresolved, Acting, Working
<1>. QED
  BY <1>2, <1>3 DEF BaseInv, Deciding, LookInv, Looked, ClaimInv, Unresolved, Acting

LEMMA HostKeepsRest ==
    ASSUME IInv, IInv', RestInv, HostStep
    PROVE  BaseInv' /\ LookInv' /\ ClaimInv'
<1>1. job' = job /\ sup' = sup
  BY DEF HostStep, UserPromptSubmit, StopEvent, TurnCompleted, Interrupt, SessionEnd, Elsewhere
<1>2. GoodJob(job) /\ GoodJob(job') /\ Moves(job, job')
  BY <1>1 DEF IInv, Moves, QuietMoves
<1>3. CASE job.st = "NONE"
  BY <1>1, <1>2, <1>3, NoneRests
<1>4. CASE job.st # "NONE"
  BY <1>1, <1>2, <1>4, HostRests, OthersRest DEF RestInv
<1>. QED
  BY <1>3, <1>4

\* Nothing but the hooks' own steps and the host's changes what counts as rest.
LEMMA ServerRests ==
    ASSUME \/ Cancel \/ Refresh \/ Worker \/ Tick
           \/ \E c \in Caller : Finish(c) \/ FinishVerifier(c) \/ Answer(c) \/ ServerExits(c) \/ Pause(c)
    PROVE  sup' = sup /\ \A t \in Turn : Rests(t) => Rests(t)'
<1>1. sup' = sup /\ host' = host
  BY DEF Cancel, Refresh, Worker, Tick, Finish, FinishVerifier, Answer, ServerExits, Pause
<1>2. hooks \subseteq hooks'
  BY DEF Cancel, Refresh, Worker, Tick, Finish, FinishVerifier, Answer, ServerExits, Pause, StartHook
<1>. QED
  BY <1>1, <1>2 DEF Rests

LEMMA ServerKeepsRest ==
    ASSUME IInv, IInv', RestInv, Moves(job, job'),
           \/ Cancel \/ Refresh \/ Worker \/ Tick
           \/ \E c \in Caller : Finish(c) \/ FinishVerifier(c) \/ Answer(c) \/ ServerExits(c) \/ Pause(c)
    PROVE  BaseInv' /\ LookInv' /\ ClaimInv'
<1>1. sup' = sup /\ \A t \in Turn : Rests(t) => Rests(t)'
  BY ServerRests
<1>2. CASE job.st = "NONE"
  BY <1>1, <1>2, NoneRests
<1>3. CASE job.st # "NONE"
  <2>1. GoodJob(job')
    BY DEF IInv
  <2>2. job.st = "STOP_OBSERVED" => job'.st # "ACTION_INTENT"
    BY OthersClaimNothing
  <2>. QED
    BY <1>1, <1>3, <2>1, <2>2, OthersRest DEF RestInv
<1>. QED
  BY <1>2, <1>3

LEMMA HookKeepsRest ==
    ASSUME IInv, IInv', RestInv, Moves(job, job'),
           NEW x \in hooks, Observe(x) \/ Update(x) \/ Settle(x) \/ HookCrash(x)
    PROVE  BaseInv' /\ LookInv' /\ ClaimInv'
<1>1. sup' = sup
  BY DEF Observe, Update, Settle, HookCrash
<1>2. CASE job.st = "NONE"
  BY <1>1, <1>2, NoneRests
<1>3. CASE job.st # "NONE"
  <2>1. GoodJob(job')
    BY DEF IInv
  <2>2. job.st = "STOP_OBSERVED" => job'.st # "ACTION_INTENT"
    BY OthersClaimNothing
  <2>3. ASSUME job'.gen = job.gen, job'.st \in Settled, ~job'.creq
        PROVE  \A t \in Turn : Rests(t) => Rests(t)'
    <3>1. Speaks(x) => ~Update(x)
      BY <2>3, SpeakerTells
    <3>2. Observe(x) => Bound(job)
      BY <2>3 DEF Observe, RestInv, BoundJob, Settled, Acting, Terminal
    <3>. QED
      BY <3>1, <3>2, HookRests
  <2>. QED
    BY <1>1, <1>3, <2>1, <2>2, <2>3, OthersRest DEF RestInv
<1>. QED
  BY <1>2, <1>3

-----------------------------------------------------------------------------
(* Steps of the supervisor.                                                *)

\* What it decides on, and how its final look came out.
LEMMA SupLooks ==
    ASSUME IInv, BaseInv, LookInv, SupStep
    PROVE  BaseInv' /\ LookInv'
<1>1. job \in JobRecord /\ GoodJob(job) /\ sup \in SupRecord /\ host \in HostRecord
  BY DEF IInv, GoodJob, TypeInv
<1>2. UNCHANGED <<hooks, host>>
  BY SupJob DEF IInv
<1>. DEFINE Away == /\ sup'.pc \notin {"quiet", "intent"}
                    /\ sup'.pc \in {"threads", "children", "inventory"} => sup'.goal # "final"
            Fine == BaseInv' /\ LookInv'
<1>3. Away => Fine
  BY DEF BaseInv, LookInv, Deciding, Looked
<1>4. ASSUME NEW pc \in {"run", "done", "fail", "cancel", "lock", "recheck", "call", "monitor"}, Goto(pc)
      PROVE  Fine
  <2>1. sup'.pc = pc
    BY <1>1, <1>4 DEF Goto, SupRecord
  <2>. QED
    BY <1>3, <1>4, <2>1
<1>5. ASSUME NEW goal \in Goal, Look(goal)
      PROVE  /\ sup'.pc = "threads" /\ sup'.goal = goal /\ sup'.base = job
             /\ goal # "final" => Fine
  <2>1. sup'.pc = "threads" /\ sup'.goal = goal /\ sup'.base = job
    BY <1>1, <1>5 DEF Look, SupRecord
  <2>. QED
    BY <1>3, <2>1
<1>6. Refused \in {"cancel", "fail"}
  BY DEF Refused
<1>. SUFFICES Fine
  OBVIOUS
<1>. HIDE DEF Fine
<1>7. CASE SupRun
  BY <1>4, <1>5, <1>7 DEF SupRun, Goal
<1>8. CASE SupSave \/ SupFail \/ SupIntent \/ SupLastLook \/ SupCall \/ SupCancel
  BY <1>4, <1>8 DEF SupSave, SupFail, SupIntent, SupLastLook, SupCall, SupCancel
<1>9. CASE SupMonitor
  BY <1>4, <1>5, <1>9 DEF SupMonitor, Goal
<1>10. CASE SupGate
  <2>1. CASE sup' = [sup EXCEPT !.pc = "quiet", !.base = job] /\ job.st = "STOP_OBSERVED" /\ job' = job
    <3>1. sup'.pc = "quiet" /\ sup'.base = job
      BY <1>1, <2>1 DEF SupRecord
    <3>2. job.stop # 0 /\ job.gen \in Nat
      BY <1>1, <2>1 DEF GoodJob, JobRecord
    <3>. QED
      BY <2>1, <3>1, <3>2 DEF Fine, BaseInv, LookInv, Looked, Same, Settled
  <2>. QED
    BY <1>4, <1>10, <2>1 DEF SupGate
<1>11. CASE SupRecheck
  <2>1. CASE Look("final") /\ job.st = "STOP_OBSERVED" /\ job' = job
    <3>1. sup'.pc = "threads" /\ sup'.base = job
      BY <1>5, <2>1 DEF Goal
    <3>2. job.stop # 0 /\ job.gen \in Nat
      BY <1>1, <2>1 DEF GoodJob, JobRecord
    <3>. QED
      BY <2>1, <3>1, <3>2 DEF Fine, BaseInv, LookInv, Looked, Same, Settled
  <2>. QED
    BY <1>4, <1>11, <2>1 DEF SupRecheck
\* A look under way goes on for the same goal and the same record.
<1>12. ASSUME job' = job, sup.pc \in {"threads", "children", "inventory"}, sup'.goal = sup.goal,
              sup'.base = sup.base, sup'.pc \in {"children", "inventory", "intent"},
              sup'.pc = "intent" => sup.goal = "final",
              Looked' => Looked \/ Rests(sup.base.stop)
       PROVE  Fine
  <2>1. Deciding' => Deciding
    BY <1>12 DEF Deciding
  <2>2. Same' <=> Same
    BY <1>12 DEF Same
  <2>3. BaseInv'
    BY <1>12, <2>1, <2>2 DEF BaseInv
  <2>4. LookInv'
    BY <1>2, <1>12, <2>2 DEF LookInv, Rests
  <2>. QED
    BY <2>3, <2>4 DEF Fine
<1>13. CASE LookThreads
  <2>1. CASE sup' = [sup EXCEPT !.pc = Refused]
    BY <1>4, <1>6, <2>1 DEF Goto
  <2>2. CASE sup' = [sup EXCEPT !.pc = "children", !.shot.idle = host.st \in {"idle", "interrupted"},
                                !.shot.last = IF host.st = "idle" THEN host.turn ELSE 0,
                                !.shot.quiet = ~host.others]
    <3>. DEFINE last == IF host.st = "idle" THEN host.turn ELSE 0
                idle == host.st \in {"idle", "interrupted"}
    <3>1. /\ sup'.pc = "children" /\ sup'.goal = sup.goal /\ sup'.base = sup.base /\ sup'.shot.last = last
      <4>. HIDE DEF last, idle
      <4>. QED
        BY <1>1, <2>2 DEF SupRecord, ShotRecord, last, idle
    <3>2. sup.pc = "threads" /\ job' = job
      BY <1>13 DEF LookThreads
    <3>3. Looked' => Rests(sup.base.stop)
      <4>1. ASSUME Looked'
            PROVE  host.st = "idle" /\ host.turn = sup.base.stop
        <5>1. sup.goal = "final" /\ last = sup.base.stop
          BY <3>1, <4>1 DEF Looked
        <5>2. sup.base.stop # 0
          BY <3>2, <5>1 DEF BaseInv, Deciding
        <5>. QED
          BY <5>1, <5>2
      <4>. QED
        BY <4>1 DEF Rests
    <3>. QED
      BY <1>12, <3>1, <3>2, <3>3
  <2>. QED
    BY <1>13, <2>1, <2>2 DEF LookThreads
<1>14. CASE LookChildren
  <2>1. /\ sup'.pc = "inventory" /\ sup'.goal = sup.goal /\ sup'.base = sup.base
        /\ sup'.shot.last = sup.shot.last
    BY <1>1, <1>14 DEF LookChildren, SupRecord, ShotRecord
  <2>2. sup.pc = "children" /\ job' = job
    BY <1>14 DEF LookChildren
  <2>. QED
    BY <1>12, <2>1, <2>2 DEF Looked
<1>15. CASE LookInventory
  <2>. DEFINE ready == ReadyForFinalGate(sup.base.stop)
              seen == [sup EXCEPT !.shot.conf = host.conf, !.shot.inst = host.inst, !.shot.ready = ready]
  <2>1. sup.pc = "inventory" /\ job' = job
    BY <1>15 DEF LookInventory
  <2>2. ASSUME NEW pc \in {"save", "run", "intent", "fail", "monitor", "cancel"}, sup' = [seen EXCEPT !.pc = pc]
        PROVE  sup'.pc = pc /\ sup'.goal = sup.goal /\ sup'.base = sup.base /\ sup'.shot.last = sup.shot.last
    <3>1. seen.goal = sup.goal /\ seen.base = sup.base /\ seen.shot.last = sup.shot.last
          /\ DOMAIN seen = DOMAIN sup /\ "pc" \in DOMAIN sup
      <4>. HIDE DEF ready
      <4>. QED
        BY <1>1 DEF SupRecord, ShotRecord
    <3>2. seen = [seen EXCEPT !.goal = seen.goal]
      BY <3>1
    <3>. HIDE DEF seen
    <3>. QED
      BY <1>1, <2>2, <3>1 DEF SupRecord
  <2>3. ASSUME sup.goal = "final", ready, sup' = [seen EXCEPT !.pc = "intent"]
        PROVE  Fine
    <3>1. sup'.pc = "intent" /\ sup'.goal = sup.goal /\ sup'.base = sup.base
      BY <2>2, <2>3
    <3>2. Looked
      BY <2>1, <2>3 DEF Looked, ReadyForFinalGate
    <3>. QED
      BY <1>12, <2>1, <2>3, <3>1, <3>2
  <2>4. ASSUME NEW pc \in {"save", "run", "fail", "monitor", "cancel"}, sup' = [seen EXCEPT !.pc = pc]
        PROVE  Fine
    <3>1. sup'.pc = pc
      BY <2>2, <2>4
    <3>. QED
      BY <1>3, <2>4, <3>1
  <2>5. \/ Goto("run") \/ Goto(Refused)
        \/ \E pc \in {"save", "run", "fail", "monitor", "cancel"} : sup' = [seen EXCEPT !.pc = pc]
        \/ sup.goal = "final" /\ ready /\ sup' = [seen EXCEPT !.pc = "intent"]
    <3>. HIDE DEF ready
    <3>. QED
      BY <1>15 DEF LookInventory, ready
  <2>. HIDE DEF seen, ready
  <2>. QED
    BY <1>4, <1>6, <2>3, <2>4, <2>5
<1>. QED
  BY <1>7, <1>8, <1>9, <1>10, <1>11, <1>13, <1>14, <1>15 DEF SupStep

\* It claims only what its final look was about.
LEMMA SupClaims ==
    ASSUME IInv, IInv', RestInv, SupStep
    PROVE  ClaimInv'
<1>1. SupMoves(job, job') /\ UNCHANGED <<hooks, host>>
  BY SupJob DEF IInv
<1>2. GoodJob(job) /\ GoodJob(job') /\ job \in JobRecord /\ Moves(job, job')
  BY <1>1 DEF IInv, GoodJob, SupMoves, Moves, QuietMoves
<1>3. job.st # "NONE"
  BY DEF IInv, SupInv, SupStep, SupRun, LookThreads, LookChildren, LookInventory, SupSave, SupFail, SupGate,
         SupRecheck, SupIntent, SupLastLook, SupCall, SupMonitor, SupCancel
<1>4. job'.st \in Acting /\ ~job'.creq =>
        /\ ~job.creq /\ job'.stop = job.stop
        /\ job.st \in Acting \/ (job.st = "STOP_OBSERVED" /\ job'.st = "ACTION_INTENT")
  BY <1>2, <1>3, MoveFacts
<1>5. ASSUME job.st = "STOP_OBSERVED", job'.st = "ACTION_INTENT"
      PROVE  Rests(job.stop)
  <2>1. SupIntent
    <3>1. /\ [job EXCEPT !.st = "FAILED"].st # "ACTION_INTENT"
          /\ [job EXCEPT !.st = "CANCELLED", !.creq = TRUE].st # "ACTION_INTENT"
          /\ [job EXCEPT !.st = "ACTION_SCHEDULED"].st # "ACTION_INTENT"
      BY <1>2 DEF JobRecord
    <3>2. ~SupSave
      BY <1>5, SaveKeeps
    <3>. QED
      BY <1>5, <3>1, <3>2 DEF SupStep, SupRun, LookThreads, LookChildren, LookInventory, SupFail, SupGate,
         SupRecheck, SupLastLook, SupCall, SupMonitor, SupCancel
  <2>2. sup.pc = "intent" /\ Same
    BY <1>5, <2>1 DEF SupIntent, Same
  <2>3. Rests(sup.base.stop) /\ job.stop = sup.base.stop
    BY <1>5, <2>2 DEF RestInv, LookInv, Looked, BaseInv, Deciding, Settled
  <2>. QED
    BY <2>3
<1>6. job'.st \in Acting /\ ~job'.creq => Rests(job.stop) /\ job'.stop = job.stop
  BY <1>4, <1>5 DEF RestInv, ClaimInv, Unresolved
<1>. QED
  BY <1>1, <1>6 DEF ClaimInv, Unresolved, Rests

-----------------------------------------------------------------------------
LEMMA RestNext == IInv /\ IInv' /\ RestInv /\ [Next]_vars => RestInv'
<1>. SUFFICES ASSUME IInv, IInv', RestInv, [Next]_vars  PROVE RestInv'
  OBVIOUS
<1>1. BoundJob(job') /\ Moves(job, job')
  BY BoundKeeps, StepHolds DEF RestInv
<1>. SUFFICES BaseInv' /\ LookInv' /\ ClaimInv'
  BY <1>1 DEF RestInv, BoundJob, Bound
<1>2. CASE HostStep
  BY <1>2, HostKeepsRest
<1>3. CASE Arm
  <2>1. job.st = "NONE" /\ (sup' = sup \/ sup' = [sup EXCEPT !.pc = "run"])
    BY <1>3 DEF Arm
  <2>. QED
    BY <1>1, <2>1, NoneRests
<1>4. CASE \/ Cancel \/ Refresh \/ Worker \/ Tick
           \/ \E c \in Caller : Finish(c) \/ FinishVerifier(c) \/ Answer(c) \/ ServerExits(c) \/ Pause(c)
  BY <1>1, <1>4, ServerKeepsRest
<1>5. CASE HookStep
  BY <1>1, <1>5, HookKeepsRest DEF HookStep
<1>6. CASE SupStep
  BY <1>6, SupLooks, SupClaims DEF RestInv
<1>7. CASE UNCHANGED vars
  BY <1>7 DEF vars, RestInv, BaseInv, Deciding, LookInv, Looked, Same, ClaimInv, Rests, Unresolved
<1>. QED
  BY <1>2, <1>3, <1>4, <1>5, <1>6, <1>7 DEF Next, ServerStep

\* An action nobody has revoked was claimed for a host at rest in the turn that
\* stopped, whatever moved between the App Server calls of the last look: the
\* resumption is then still in the hands of its hook, or a hook failed in front
\* of the supervisor (schedule and Snapshot).
THEOREM ClaimedAtRest == Spec => []RestingWhenClaimed
<1>1. Init => RestInv
  BY DEF Init, NewJob, RestInv, BoundJob, BaseInv, Deciding, LookInv, Looked, ClaimInv, Unresolved, Acting
<1>2. IInv /\ IInv' /\ RestInv /\ [Next]_vars => RestInv'
  BY RestNext
<1>3. RestInv => RestingWhenClaimed
  <2>1. \A x \in hooks : Speaks(x) => Own(x)
    BY DEF Speaks, Own
  <2>. QED
    BY <2>1 DEF RestInv, ClaimInv, Unresolved, Rests, RestingWhenClaimed, Busy
<1>. QED
  BY <1>1, <1>2, <1>3, Invariant, PTL DEF Spec
=============================================================================
