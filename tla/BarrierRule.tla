---------------------------- MODULE BarrierRule ----------------------------
(***************************************************************************)
(* What an after_all_stop job promises, without files, hooks or indexes:   *)
(* it becomes ready only when every target is counted as stopped, a target *)
(* that resumes is uncounted at once, and from the moment the power action *)
(* is claimed a resumption can only revoke it.                             *)
(***************************************************************************)
CONSTANT Target

VARIABLES
    phase,      \* "waiting", "ready", "claimed" or "closed"
    counted,    \* the targets whose last observed event is a Stop
    revoked     \* a cancellation of the claimed action was asked for

vars == <<phase, counted, revoked>>

Init == phase = "waiting" /\ counted = {} /\ revoked = FALSE

\* One more target has stopped; the last one makes the job ready, or closes a
\* dry run.
Count(s) ==
    /\ phase = "waiting"
    /\ counted' = counted \cup {s}
    /\ phase' \in IF counted' = Target THEN {"ready", "closed"} ELSE {"waiting"}
    /\ UNCHANGED revoked

\* A target goes on: before the claim it reopens the job, after it it revokes.
Resume(s) ==
    /\ phase # "closed"
    /\ counted' = counted \ {s}
    /\ \/ phase \in {"waiting", "ready"} /\ phase' = "waiting" /\ UNCHANGED revoked
       \/ phase = "claimed" /\ UNCHANGED phase /\ revoked' = TRUE

Claim == phase = "ready" /\ counted = Target /\ phase' = "claimed" /\ UNCHANGED <<counted, revoked>>

Revoke == phase = "claimed" /\ revoked' = TRUE /\ UNCHANGED <<phase, counted>>

\* Expiry, failure, cancellation, or the end of the action; the event that
\* fails a job may be recorded with it.
Close ==
    /\ phase # "closed" /\ phase' = "closed"
    /\ counted' \in SUBSET Target /\ revoked' \in BOOLEAN

Next == (\E s \in Target : Count(s) \/ Resume(s)) \/ Claim \/ Revoke \/ Close

Spec == Init /\ [][Next]_vars
=============================================================================
