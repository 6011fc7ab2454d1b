------------------------------ MODULE ToolGate ------------------------------
(***************************************************************************)
(* What dispatching a tool call promises: a request whose requester may    *)
(* make it has an effect at most once, as it was made or as it was amended *)
(* by those who may, and only if every guard concerned with it has let     *)
(* that very request pass.  An amendment is not asked whether the          *)
(* requester may make it; the guards have to clear it anew.                *)
(***************************************************************************)
EXTENDS Sequences

CONSTANTS Requests,      \* what may be asked for
          Guards,        \* the guards
          NoRequest,     \* nothing is being decided
          Permitted,     \* requests whose requester may make them
          GuardsOf,      \* request -> the guards concerned with it
          AmendmentsOf   \* request -> what it may be amended to

VARIABLES request,    \* the request being decided
          cleared,    \* guards that have let it pass
          effects     \* requests that were carried out, in order

gateVars == << request, cleared, effects >>

Init == request = NoRequest /\ cleared = {} /\ effects = << >>

Ask == /\ request = NoRequest
       /\ request' \in Permitted
       /\ cleared' = {}
       /\ UNCHANGED effects

Amend == /\ request \in Requests
         /\ request' \in AmendmentsOf[request]
         /\ cleared' = {}
         /\ UNCHANGED effects

Clear == /\ request # NoRequest
         /\ \E g \in Guards : cleared' = cleared \cup {g}
         /\ UNCHANGED << request, effects >>

\* Refused, blocked or failed before it had an effect.
Drop == /\ request # NoRequest
        /\ request' = NoRequest
        /\ cleared' = {}
        /\ UNCHANGED effects

CarryOut == /\ request \in Requests
            /\ GuardsOf[request] \subseteq cleared
            /\ effects' = Append(effects, request)
            /\ request' = NoRequest
            /\ cleared' = {}

Next == Ask \/ Amend \/ Clear \/ Drop \/ CarryOut

Spec == Init /\ [][Next]_gateVars

=============================================================================
