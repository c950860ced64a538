---------------------------- MODULE PowerBackend ----------------------------
(***************************************************************************)
(* What a power backend promises the callers of actions.Backend: at most   *)
(* one countdown on the machine, and none behind a confirmed cancellation. *)
(* PluginPower uses the backend under exactly this contract; PowerHelper   *)
(* implements it.                                                          *)
(***************************************************************************)
CONSTANT Job

VARIABLES timer, confirmed

vars == <<timer, confirmed>>

Init ==
    /\ timer = [j \in Job |-> "off"]
    /\ confirmed = {}

\* A countdown starts: whatever was confirmed about this job is history.
Accept(j) ==
    /\ \A k \in Job : timer[k] # "armed"
    /\ timer[j] = "off"
    /\ timer' = [timer EXCEPT ![j] = "armed"]
    /\ confirmed' = confirmed \ {j}

\* A request that may start one is taken up.
Open(j) ==
    /\ confirmed' = confirmed \ {j}
    /\ UNCHANGED timer

\* A countdown ends without a shutdown, whatever the caller is told.
Lapse(j) ==
    /\ timer[j] = "armed"
    /\ timer' = [timer EXCEPT ![j] = "off"]
    /\ UNCHANGED confirmed

\* The caller is told that nothing of this job is counting down.
Confirm(j) ==
    /\ timer[j] # "armed"
    /\ confirmed' = confirmed \cup {j}
    /\ UNCHANGED timer

Fire(j) ==
    /\ timer[j] = "armed" /\ j \notin confirmed
    /\ timer' = [timer EXCEPT ![j] = "fired"]
    /\ UNCHANGED confirmed

Next == \E j \in Job : Accept(j) \/ Open(j) \/ Lapse(j) \/ Confirm(j) \/ Fire(j)

Spec == Init /\ [][Next]_vars
=============================================================================
