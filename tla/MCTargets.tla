----------------------------- MODULE MCTargets -----------------------------
(* Two sessions, a barrier over both, and an after_stop job in the first.   *)
EXTENDS StopBarrier, TLC
CONSTANTS b, o, s1, s2, w, v

OneBarrier == {b}
OneSingle == {o}
None == {}
TwoSessions == {s1, s2}
BothTargets == b :> TwoSessions
NoHome == [x \in {} |-> s1]
HomeFirst == o :> s1
TwoAndOne == s1 :> 2 @@ s2 :> 1
OneEach == s1 :> 1 @@ s2 :> 1
FirstMoves == s1 :> {w, v} @@ s2 :> {w}
OneDirectory == s1 :> {w} @@ s2 :> {w}
=============================================================================
