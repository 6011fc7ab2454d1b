--------------------------- MODULE MCAgentSession ---------------------------
(* Model-checking instance of AgentSession: one tool the profile may use    *)
(* and one it may not.                                                      *)
EXTENDS AgentSession

CONSTANTS read, bash, c1, c2

CallOf(id, tool) == [id |-> id, name |-> tool]

\* No call, a refused one, and one served with one refused, in either order.
MCAnswers ==
  {<< >>, << CallOf(c1, bash) >>,
   << CallOf(c1, read), CallOf(c2, bash) >>,
   << CallOf(c1, bash), CallOf(c2, read) >>}

=============================================================================
