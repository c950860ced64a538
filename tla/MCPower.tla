------------------------------ MODULE MCPower ------------------------------
(***************************************************************************)
(* PluginPower with a single job: every invocation is about it.            *)
(***************************************************************************)
EXTENDS PluginPower

OneJob == [a \in Actor |-> CHOOSE j \in Job : TRUE]
=============================================================================
