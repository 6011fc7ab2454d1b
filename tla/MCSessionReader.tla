-------------------------- MODULE MCSessionReader --------------------------
(* Instances of SessionReader: prompts whose texts differ or repeat. *)
EXTENDS SessionReader

CONSTANTS read, reviewer, developer

MCRoleTools == [role \in AgentRoles |-> {read}]

MCAlternatingTexts == [n \in 1..MaxPrompts |-> n % 2]

=============================================================================
