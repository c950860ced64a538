----------------------------- MODULE MCClassic -----------------------------
(***************************************************************************)
(* ClassicRun for TLC: every command is about the same run with --execute. *)
(***************************************************************************)
EXTENDS ClassicRun

Executing == CHOOSE r \in Run : r \notin DryRun
AboutOne == [a \in Cancel \cup Reconcile |-> Executing]
=============================================================================
