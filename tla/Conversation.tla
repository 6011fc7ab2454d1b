---------------------------- MODULE Conversation ----------------------------
(***************************************************************************)
(* The messages of an agent's context and the way they are grouped into    *)
(* rounds: src/pelmeni/domain/messages.py and domain/rounds.py.            *)
(*                                                                         *)
(* A message keeps what the loop, the compactor and the providers tell     *)
(* apart: its role, the number of characters of its content, the calls of  *)
(* an assistant message and the call a tool message answers.  "body" says  *)
(* which content it is: the number of a prompt for a user message, and     *)
(* Refused or Served for the result of a tool.                             *)
(***************************************************************************)
EXTENDS Naturals, Sequences, FiniteSets

CONSTANTS Tools,    \* names of tools a model may ask for
          CallIds,  \* identifiers a provider gives to tool calls
          NoCall    \* tool_call_id of the messages that answer no call

ASSUME NoCallAssumption == NoCall \notin CallIds

ToolCall == [id : CallIds, name : Tools]

Roles == {"system", "user", "assistant", "tool"}

Refused == 0  \* the registry does not permit the tool to the role
Served  == 1  \* any other result, errors of hooks and handlers included

Message == [role  : Roles,
            body  : Nat,
            size  : Nat,
            calls : Seq(ToolCall),
            id    : CallIds \cup {NoCall}]

Msg(role, body, size, calls, id) ==
  [role |-> role, body |-> body, size |-> size, calls |-> calls, id |-> id]

SystemMessage(size)           == Msg("system", 0, size, << >>, NoCall)
UserMessage(body, size)       == Msg("user", body, size, << >>, NoCall)
AssistantMessage(calls, size) == Msg("assistant", 0, size, calls, NoCall)
ToolMessage(id, body, size)   == Msg("tool", body, size, << >>, id)

-----------------------------------------------------------------------------
(* Rounds: each one starts at a user message and runs to the next one.     *)

RoundStarts(h) == {i \in DOMAIN h : h[i].role = "user"}

\* Index of the user message that opens the last round, 0 when there is none.
LastStart(h) ==
  IF RoundStarts(h) = {}
    THEN 0
    ELSE CHOOSE i \in RoundStarts(h) : \A j \in RoundStarts(h) : j <= i

\* The rounds that start at index c or later.
RoundsFrom(h, c) == {i \in RoundStarts(h) : i >= c}

\* A leading system message is kept apart from the rounds.
Lead(h) ==
  IF h # << >> /\ h[1].role = "system" THEN << h[1] >> ELSE << >>

-----------------------------------------------------------------------------
(* How tool messages relate to the calls of assistant messages.            *)

Assistants(h) == {j \in DOMAIN h : h[j].role = "assistant"}

\* The k-th message after an assistant message answers its k-th call.
CallsAnsweredInOrder(h) ==
  \A j \in Assistants(h) : \A k \in 1..Len(h[j].calls) :
     j + k <= Len(h) => /\ h[j + k].role = "tool"
                        /\ h[j + k].id = h[j].calls[k].id

\* No tool message without the assistant message that asked for it.
NoOrphanResult(h) ==
  \A i \in DOMAIN h : h[i].role = "tool" =>
     \E j \in Assistants(h) : j < i /\ i <= j + Len(h[j].calls)

\* Every call has its result: what the chat APIs require of a request.
Settled(h) == \A j \in Assistants(h) : j + Len(h[j].calls) <= Len(h)

Paired(h) == CallsAnsweredInOrder(h) /\ NoOrphanResult(h)

=============================================================================
