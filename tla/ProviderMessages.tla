-------------------------- MODULE ProviderMessages --------------------------
(***************************************************************************)
(* The request loop with the HTTP providers Anthropic and Google           *)
(* (src/pelmeni/providers): what their parsers make of an answer, and what *)
(* their translators make of the history when a request is sent.  A role   *)
(* has its provider, so that a history may hold answers of both.           *)
(*                                                                         *)
(* Arguments, signatures and the JSON of results are data that is passed   *)
(* on; a block is what is left of it: its kind, the call it belongs to and *)
(* the message it comes from.                                              *)
(***************************************************************************)
EXTENDS AgentLoop, SequencesExt

CONSTANTS ProviderOf   \* role -> "google" or "anthropic"

ASSUME ProviderAssumption == ProviderOf \in [AgentRoles -> {"google", "anthropic"}]

VARIABLE given         \* ids the Anthropic API has given so far

providerVars == << vars, given >>

Block(kind, id, name, body) ==
  [kind |-> kind, id |-> id, name |-> name, body |-> body]

Text(m) == Block("text", NoCall, m.role, m.body)

\* A message for a provider: role and content blocks, or parts.
Entry(role, blocks) == [role |-> role, blocks |-> blocks]

\* Another block for the last message of the request.
AddBlock(request, block) ==
  [request EXCEPT ![Len(request)].blocks = Append(@, block)]

-----------------------------------------------------------------------------
(* Anthropic.                                                              *)

\* convert_assistant_message; an answer without text or calls is an empty text.
AnthropicAssistant(m) ==
  LET text == IF m.size > 0 THEN << Text(m) >> ELSE << >>
      uses == [k \in DOMAIN m.calls |->
                 Block("use", m.calls[k].id, m.calls[k].name, 0)]
  IN  Entry("assistant", IF text \o uses = << >> THEN << Text(m) >> ELSE text \o uses)

\* Mutant: a block opens a message of its own.
AppendApart(request, block) == Append(request, Entry("user", << block >>))

\* append_user_message and append_tool_result: a block joins the user message
\* before it.
AppendUserBlock(request, block) ==
  IF request # << >> /\ Last(request).role = "user"
    THEN AddBlock(request, block)
    ELSE Append(request, Entry("user", << block >>))

\* extract_system_and_messages: the system prompt travels apart.
AnthropicAppend(request, m) ==
  CASE m.role = "system" -> request
    [] m.role = "user" -> AppendUserBlock(request, Text(m))
    [] m.role = "assistant" -> Append(request, AnthropicAssistant(m))
    [] m.role = "tool" ->
         AppendUserBlock(request, Block("result", m.id, "tool", m.body))

AnthropicRequest(h) ==
  LET upTo[n \in 0..Len(h)] ==
        IF n = 0 THEN << >> ELSE AnthropicAppend(upTo[n - 1], h[n])
  IN  upTo[Len(h)]

-----------------------------------------------------------------------------
(* Google.                                                                 *)

\* _extract_calls: Gemini gives no ids, the parser numbers the calls of an
\* answer: call_{name}_{k}.
GoogleId(name, k) == << "call", name, k >>

\* build_call_id_map: of the calls with an id, the last one counts; an id
\* without a call would stand for itself, which is no tool's name.
NameOf(h, id) ==
  LET named == {j \in Assistants(h) : \E k \in DOMAIN h[j].calls : h[j].calls[k].id = id}
      calls == h[CHOOSE j \in named : \A i \in named : i <= j].calls
      last  == CHOOSE k \in DOMAIN calls :
                 /\ calls[k].id = id
                 /\ \A i \in DOMAIN calls : calls[i].id = id => i <= k
  IN  IF named = {} THEN "unknown" ELSE calls[last].name

GoogleAssistant(m) ==
  LET text  == IF m.size > 0 THEN << Text(m) >> ELSE << >>
      calls == [k \in DOMAIN m.calls |->
                  Block("call", NoCall, m.calls[k].name, 0)]
  IN  Entry("model", IF text \o calls = << >> THEN << Text(m) >> ELSE text \o calls)

\* _append_tool_part: a response joins a content that holds responses only.
AppendToolPart(request, part) ==
  IF /\ request # << >> /\ Last(request).role = "user"
     /\ \A i \in DOMAIN Last(request).blocks :
          Last(request).blocks[i].kind = "response"
    THEN AddBlock(request, part)
    ELSE Append(request, Entry("user", << part >>))

\* _process_message, for the history h that names are looked up in.
GoogleAppend(h, request, m) ==
  CASE m.role = "system" -> request
    [] m.role = "user" -> Append(request, Entry("user", << Text(m) >>))
    [] m.role = "assistant" -> Append(request, GoogleAssistant(m))
    [] m.role = "tool" ->
         AppendToolPart(request,
                        Block("response", NoCall, NameOf(h, m.id), m.body))

\* convert_messages.
GoogleRequest(h) ==
  LET upTo[n \in 0..Len(h)] ==
        IF n = 0 THEN << >> ELSE GoogleAppend(h, upTo[n - 1], h[n])
  IN  upTo[Len(h)]

-----------------------------------------------------------------------------
ProviderInit == Init /\ given = 0

\* Mutant: ids number the calls of an answer without their names.
GoogleCallsNumbered(calls) ==
  \A k \in DOMAIN calls : calls[k].id = << "call", k >>

GoogleCalls(calls) ==
  \A k \in DOMAIN calls : calls[k].id = GoogleId(calls[k].name, k)

\* The API gives every call an id of its own.
AnthropicCalls(calls) ==
  \A k \in DOMAIN calls : calls[k].id = << "toolu", given + k >>

\* The answer is what the parser of the role's provider can build.
ProviderReplies ==
  /\ ProviderAnswers
  /\ \/ ProviderOf[agentRole] = "google" /\ GoogleCalls(pending') /\ UNCHANGED given
     \/ /\ ProviderOf[agentRole] = "anthropic" /\ AnthropicCalls(pending')
        /\ given' = given + Len(pending')

ProviderNext ==
  \/ ProviderReplies
  \/ /\ \/ SubmitPrompt \/ SwitchRole \/ SendRequest \/ ProviderFails
        \/ CompactCommand \/ DispatchCall
     /\ UNCHANGED given

ProviderSpec == ProviderInit /\ [][ProviderNext]_providerVars

-----------------------------------------------------------------------------
\* Where an entry has blocks of a kind, and how many up to the k-th block.
Places(entry, kind) == {k \in DOMAIN entry.blocks : entry.blocks[k].kind = kind}
Rank(entry, kind, k) == Cardinality({p \in Places(entry, kind) : p <= k})

\* What a request has to say of a message: kinds of blocks and what they are.
Held(m, call, result) ==
  CASE m.role = "system" -> << >>
    [] m.role = "user"   -> << << "text", m.body >> >>
    [] m.role = "tool"   -> << << result, m.body >> >>
    [] m.role = "assistant" ->
         (IF m.size > 0 \/ m.calls = << >> THEN << << "text", m.body >> >> ELSE << >>)
           \o [k \in DOMAIN m.calls |-> << call, 0 >>]

Said(entry) ==
  [k \in DOMAIN entry.blocks |-> << entry.blocks[k].kind, entry.blocks[k].body >>]

\* A request says all that the history holds, in its order, and nothing else.
Complete(request, h, call, result) ==
  FlattenSeq([i \in DOMAIN request |-> Said(request[i])])
    = FlattenSeq([j \in DOMAIN h |-> Held(h[j], call, result)])

(* The turns of a request for the Messages API, whatever failed, was cut   *)
(* off or compacted before: messages of user and assistant in turns, the   *)
(* user first and last; the message after one with tool_use blocks begins  *)
(* with their results, in order, with all text behind them; the ids of one *)
(* message tell its calls apart; and nothing of the history is left out    *)
(* (AnthropicMessageTranslator).  If no round is kept, compaction may      *)
(* leave nothing to send.  Two more demands of the API are not met: an     *)
(* answer without text or calls is sent as an empty text block (Held), and *)
(* once the role has changed, ids of Gemini may come in several messages.  *)
AnthropicTurnsMatch ==
  (pc = "chat" /\ KeepRecentRounds > 0) =>
    LET request == AnthropicRequest(history) IN
    /\ request # << >> /\ Complete(request, history, "use", "result")
    /\ \A i \in DOMAIN request :
         request[i].role = (IF i % 2 = 1 THEN "user" ELSE "assistant")
    /\ request[Len(request)].role = "user"
    /\ \A i \in DOMAIN request : request[i].role = "assistant" =>
         LET uses == Places(request[i], "use")
             next == request[i + 1].blocks
         IN  /\ Cardinality(uses) <= Len(next)
             /\ \A k \in DOMAIN next : next[k].kind = "result" <=> k <= Cardinality(uses)
             /\ \A k \in uses :
                  next[Rank(request[i], "use", k)].id = request[i].blocks[k].id
             /\ \A k \in uses, l \in uses :
                  request[i].blocks[k].id = request[i].blocks[l].id => k = l

(* What Gemini requires of a request: a content with n functionCalls is    *)
(* followed by one with their n functionResponses, with the same names in  *)
(* the same order, though ids repeat from answer to answer, and no other   *)
(* content has responses; nothing is left out (GoogleMessageTranslator).   *)
GoogleRequestValid ==
  (pc = "chat" /\ KeepRecentRounds > 0) =>
    LET request == GoogleRequest(history) IN
    /\ request # << >> /\ Complete(request, history, "call", "response")
    /\ \A i \in DOMAIN request :
         LET calls == Places(request[i], "call")
             next  == request[i + 1]
         IN  calls # {} =>
               /\ i < Len(request)
               /\ Len(next.blocks) = Cardinality(calls)
               /\ Places(next, "response") = DOMAIN next.blocks
               /\ \A k \in calls : next.blocks[Rank(request[i], "call", k)].name
                                     = request[i].blocks[k].name
    /\ \A i \in DOMAIN request :
         Places(request[i], "response") # {} =>
           i > 1 /\ Places(request[i - 1], "call") # {}

=============================================================================
