---------------------------- MODULE MCAgentLoop ----------------------------
(* Model-checking instance of AgentLoop: two tools, two roles that share   *)
(* one of them, and budgets small enough for compaction to prune.          *)
EXTENDS AgentLoop, TLC

CONSTANTS read, bash, reviewer, manager

MCRoleTools == (reviewer :> {read, bash}) @@ (manager :> {read})

=============================================================================
