---------------------------- MODULE AgentSession ----------------------------
(***************************************************************************)
(* An agent driven as a library (src/pelmeni/agent_session.py): its owner  *)
(* calls step again and again, also after step has raised, and messages    *)
(* and tool history live on in the session.                                *)
(*                                                                         *)
(* As in AgentLoop an action is the code between two waits.  What raises   *)
(* is whatever step does not catch: an error of the trace's file, of a     *)
(* tool, or of a provider that is not a ProviderError.                     *)
(***************************************************************************)
EXTENDS Compactor, SequencesExt

CONSTANTS Permitted,      \* tools the registry permits to the profile's role
          Answers,        \* sequences of calls an answer may have
          PromptSizes,    \* sizes of prompts
          AnswerSizes,    \* sizes of the text of answers
          ResultSizes,    \* sizes of tool results
          RefusalSize,    \* size of "Tool ... is not permitted for role ..."
          SystemSize,     \* size of the system prompt
          MaxIterations,  \* SessionConfig.max_iterations
          MaxSteps,       \* bound: calls of step
          MaxFaults       \* bound: calls of step that raise

ASSUME SessionAssumption ==
  /\ Permitted \subseteq Tools
  /\ Answers \subseteq Seq(ToolCall)
  /\ PromptSizes \subseteq Nat /\ AnswerSizes \subseteq Nat
  /\ ResultSizes \subseteq Nat
  /\ RefusalSize \in Nat /\ SystemSize \in Nat
  /\ MaxIterations \in Nat \ {0}
  /\ MaxSteps \in Nat /\ MaxFaults \in Nat

VARIABLES
  pc,         \* "idle" between steps, "turn", "chat" or "dispatch" in one
  history,    \* _messages
  steps,      \* calls of step so far
  iteration,  \* iterations of this step that are over
  pending,    \* calls of _dispatch_tool_calls still to come
  kept,       \* tool_history of _execution_context
  active,     \* tool_history of active_ctx, in _dispatch_tool_calls
  faults      \* steps that raised

vars == << pc, history, steps, iteration, pending, kept, active, faults >>

-----------------------------------------------------------------------------
Init ==
  /\ pc = "idle"
  /\ history = << SystemMessage(SystemSize) >>
  /\ steps = 0 /\ iteration = 0 /\ faults = 0
  /\ pending = << >> /\ kept = << >> /\ active = << >>

\* step(user_prompt), or step() on the messages as they are.
Step ==
  /\ pc = "idle" /\ steps < MaxSteps
  /\ \/ \E size \in PromptSizes :
           history' = Append(history, UserMessage(steps + 1, size))
     \/ UNCHANGED history
  /\ steps' = steps + 1
  /\ iteration' = 0
  /\ pc' = "turn"
  /\ UNCHANGED << pending, kept, active, faults >>

\* _execute_turn up to the provider: compaction replaces the messages.
SendRequest ==
  /\ pc = "turn"
  /\ history' = Compact(history)
  /\ pc' = "chat"
  /\ UNCHANGED << steps, iteration, pending, kept, active, faults >>

\* ProviderError: step returns "".
ProviderFails ==
  /\ pc = "chat"
  /\ pc' = "idle"
  /\ UNCHANGED << history, steps, iteration, pending, kept, active, faults >>

\* An answer without calls is what step returns.
ProviderAnswers ==
  /\ pc = "chat"
  /\ \E calls \in Answers, size \in AnswerSizes :
        /\ history' = Append(history, AssistantMessage(calls, size))
        /\ pending' = calls
        /\ IF calls = << >> THEN pc' = "idle" /\ UNCHANGED active
           ELSE pc' = "dispatch" /\ active' = kept
  /\ UNCHANGED << steps, iteration, kept, faults >>

DispatchResults(call) ==
  IF call.name \in Permitted
    THEN {ToolMessage(call.id, Served, size) : size \in ResultSizes}
    ELSE {ToolMessage(call.id, Refused, RefusalSize)}

\* Mutant: a refused call gets no message.
DispatchSilent ==
  /\ pc = "dispatch"
  /\ \E result \in DispatchResults(Head(pending)) :
        history' = IF result.body = Refused THEN history
                   ELSE Append(history, result)
  /\ pending' = Tail(pending)
  /\ IF pending' # << >>
       THEN /\ active' = Append(active, Head(pending))
            /\ UNCHANGED << pc, iteration, kept >>
       ELSE /\ kept' = Append(active, Head(pending)) /\ active' = << >>
            /\ iteration' = iteration + 1
            /\ pc' = IF iteration' = MaxIterations THEN "idle" ELSE "turn"
  /\ UNCHANGED << steps, faults >>

\* Mutant: the context of the last answer is kept, not the session's.
DispatchForgetting ==
  /\ pc = "dispatch"
  /\ \E result \in DispatchResults(Head(pending)) :
        history' = Append(history, result)
  /\ pending' = Tail(pending)
  /\ IF pending' # << >>
       THEN /\ active' = Append(active, Head(pending))
            /\ UNCHANGED << pc, iteration, kept >>
       ELSE /\ kept' = << Head(pending) >> /\ active' = << >>
            /\ iteration' = iteration + 1
            /\ pc' = IF iteration' = MaxIterations THEN "idle" ELSE "turn"
  /\ UNCHANGED << steps, faults >>

\* The session takes over the context after the last call of an answer.
DispatchCall ==
  /\ pc = "dispatch"
  /\ \E result \in DispatchResults(Head(pending)) :
        history' = Append(history, result)
  /\ pending' = Tail(pending)
  /\ IF pending' # << >>
       THEN /\ active' = Append(active, Head(pending))
            /\ UNCHANGED << pc, iteration, kept >>
       ELSE /\ kept' = Append(active, Head(pending)) /\ active' = << >>
            /\ iteration' = iteration + 1
            /\ pc' = IF iteration' = MaxIterations THEN "idle" ELSE "turn"
  /\ UNCHANGED << steps, faults >>

\* Mutant: the calls not dispatched are left to the next step.
RaiseResuming ==
  /\ pc \in {"chat", "dispatch"} /\ faults < MaxFaults
  /\ pc' = "idle"
  /\ faults' = faults + 1
  /\ active' = << >>
  /\ UNCHANGED << history, steps, iteration, pending, kept >>

\* step raises: what it had in local variables is gone, what it did to the
\* messages stays.
Raise ==
  /\ pc \in {"chat", "dispatch"} /\ faults < MaxFaults
  /\ pc' = "idle"
  /\ pending' = << >> /\ active' = << >>
  /\ faults' = faults + 1
  /\ UNCHANGED << history, steps, iteration, kept >>

Next == \/ Step \/ SendRequest \/ ProviderFails \/ ProviderAnswers
        \/ DispatchCall \/ Raise

Spec == Init /\ [][Next]_vars

-----------------------------------------------------------------------------
TypeOK ==
  /\ pc \in {"idle", "turn", "chat", "dispatch"}
  /\ history \in Seq(Message)
  /\ steps \in 0..MaxSteps /\ faults \in 0..MaxFaults
  /\ iteration \in 0..MaxIterations
  /\ pc # "idle" => iteration < MaxIterations
  /\ pending \in Seq(ToolCall)
  /\ pending # << >> <=> pc = "dispatch"
  /\ kept \in Seq(ToolCall) /\ active \in Seq(ToolCall)

\* The k-th message behind an answer is the result of its k-th call.
HasResult(h, j, k) ==
  /\ j + k <= Len(h)
  /\ h[j + k].role = "tool" /\ h[j + k].id = h[j].calls[k].id

\* Answers some call of which has no result, or not yet.
CutAnswers(h) ==
  {j \in Assistants(h) : \E k \in DOMAIN h[j].calls : ~HasResult(h, j, k)}

\* Each result stands behind its call's answer, no other message in between.
ResultsInPlace(h) ==
  \A i \in DOMAIN h : h[i].role = "tool" =>
     \E j \in Assistants(h) : /\ i - j \in DOMAIN h[j].calls
                              /\ \A k \in 1..(i - j) : HasResult(h, j, k)

\* The answer that is being dispatched.
AtHand ==
  IF pc = "dispatch" THEN {Len(history) - (Len(active) - Len(kept))} ELSE {}

\* A step that raises costs the history the results of one answer at most:
\* whatever follows, further steps, failures or compaction, no other call is
\* without its result and no result ends up with another answer.
DamageLocal ==
  /\ ResultsInPlace(history)
  /\ Cardinality(CutAnswers(history) \ AtHand) <= faults

CompletedCalls(h) ==
  FlattenSeq([j \in DOMAIN h |->
                IF j \in Assistants(h) \ CutAnswers(h) THEN h[j].calls ELSE << >>])

\* The hooks know of every call that the messages show as answered in full, in
\* this order and next to each other, and of those dispatched so far for the
\* answer at hand; what compaction took from the messages they still know, and
\* what a step that raised had dispatched they do not.
HooksRemember ==
  /\ IsSuffix(CompletedCalls(history), kept)
  /\ pc = "dispatch" =>
       \E j \in AtHand : active \o pending = kept \o history[j].calls

=============================================================================
