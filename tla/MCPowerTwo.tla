----------------------------- MODULE MCPowerTwo -----------------------------
(***************************************************************************)
(* PluginPower with two jobs: all hooks and commands are about the first,  *)
(* except one Stop of the second.                                          *)
(***************************************************************************)
EXTENDS PluginPower

CONSTANTS j1, j2, s2

TwoJobs == [a \in Actor |-> IF a = s2 THEN j2 ELSE j1]
=============================================================================
