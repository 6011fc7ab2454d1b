----------------------------- MODULE MCAgentBus -----------------------------
(* Model-checking instance of AgentBus: two agents in one process and one   *)
(* in another.                                                              *)
EXTENDS AgentBus

CONSTANTS a1, a2, a3, p1, p2

MCStoreOf == (a1 :> p1) @@ (a2 :> p1) @@ (a3 :> p2)

\* The agents of one process may be exchanged.
Neighbours == Permutations({a1, a2})

=============================================================================
