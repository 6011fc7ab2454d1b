------------------------- MODULE MCProviderMessages -------------------------
(* Instance of ProviderMessages: a role on Google and one on Anthropic. *)
EXTENDS ProviderMessages, TLC

CONSTANTS reviewer, developer

MCRoleTools == [role \in AgentRoles |-> {"read"}]

MCProviderOf == (reviewer :> "google") @@ (developer :> "anthropic")

MCCallIds == ({"call"} \X Tools \X (1..MaxCalls)) \cup
             ({"toolu", "call"} \X (1..(MaxPrompts * MaxIterations * MaxCalls)))

=============================================================================
