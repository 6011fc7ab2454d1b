----------------------------- MODULE AgentLoop -----------------------------
(***************************************************************************)
(* The interactive agent: the REPL of src/pelmeni/cli/repl.py and the      *)
(* request loop of src/pelmeni/loop.py that it calls for every prompt.     *)
(*                                                                         *)
(* One thread does all of it, so an action is the code between two points  *)
(* where the process waits: for the user (pc = "idle"), for the provider   *)
(* ("chat") or for a tool ("dispatch"); "turn" is the head of the          *)
(* iteration.  The process can die wherever it runs ("down").              *)
(*                                                                         *)
(* The result of a tool call is that of dispatch, detailed in module       *)
(* ToolDispatch.  Answers are assistant messages: every provider adapter   *)
(* builds its reply with that role.                                        *)
(***************************************************************************)
EXTENDS Compactor

CONSTANTS AgentRoles,     \* values of AgentRole
          InitialRole,    \* the role setup_session starts with
          RoleTools,      \* the registry: role -> names of permitted tools
          ConvIds,        \* conversation ids the bridge provider may give
          NoConv,         \* the header has no conversation id
          PromptSizes,    \* sizes of prompts
          AnswerSizes,    \* sizes of the text of answers
          ResultSizes,    \* sizes of tool results
          RefusalSize,    \* size of "Tool ... is not permitted for role ..."
          SystemSize,     \* size of the system prompt
          MaxIterations,  \* MAX_ITERATIONS
          MaxCalls,       \* bound: calls in one answer
          MaxPrompts      \* bound: prompts in one behaviour

ASSUME LoopAssumption ==
  /\ InitialRole \in AgentRoles
  /\ RoleTools \in [AgentRoles -> SUBSET Tools]
  /\ NoConv \notin ConvIds
  /\ PromptSizes \subseteq Nat /\ AnswerSizes \subseteq Nat
  /\ ResultSizes \subseteq Nat
  /\ RefusalSize \in Nat /\ SystemSize \in Nat
  /\ MaxIterations \in Nat \ {0}
  /\ MaxCalls \in Nat /\ MaxPrompts \in Nat

VARIABLES
  pc,           \* where the process is
  history,      \* messages
  agentRole,    \* active_context.agent_role
  prompts,      \* how many prompts were run: the number of the last one
  iteration,    \* iterations of loop.run that are over
  pending,      \* tool calls of the last answer not dispatched yet
  toolHistory,  \* exec_ctx.hook_context.tool_history
  offered,      \* names in serialized_tools
  header,       \* conversation_id of the session header
  resumed       \* the conversation_id given to provider.chat

vars == << pc, history, agentRole, prompts, iteration, pending, toolHistory,
           offered, header, resumed >>

CallSeqs == UNION {[1..n -> ToolCall] : n \in 0..MaxCalls}

-----------------------------------------------------------------------------
\* setup_session: a system prompt, the reviewer, a header without bridge id.
Init ==
  /\ pc = "idle"
  /\ history = << SystemMessage(SystemSize) >>
  /\ agentRole = InitialRole
  /\ prompts = 0
  /\ iteration = 0
  /\ pending = << >>
  /\ toolHistory = << >>
  /\ offered = {}
  /\ header = NoConv
  /\ resumed = NoConv

\* Mutant: the counter and the context of the last run are used again.
SubmitPromptResuming ==
  /\ pc = "idle"
  /\ prompts < MaxPrompts
  /\ \E size \in PromptSizes :
        history' = Append(history, UserMessage(prompts + 1, size))
  /\ prompts' = prompts + 1
  /\ offered' = RoleTools[agentRole]
  /\ pc' = "turn"
  /\ UNCHANGED << agentRole, iteration, toolHistory, pending, header, resumed >>

\* A line of input, or /task <line>: run_repl appends it and calls loop.run,
\* which starts with an empty tool history and the tools of the active role.
SubmitPrompt ==
  /\ pc = "idle"
  /\ prompts < MaxPrompts
  /\ \E size \in PromptSizes :
        history' = Append(history, UserMessage(prompts + 1, size))
  /\ prompts' = prompts + 1
  /\ iteration' = 0
  /\ toolHistory' = << >>
  /\ offered' = RoleTools[agentRole]
  /\ pc' = "turn"
  /\ UNCHANGED << agentRole, pending, header, resumed >>

\* /role <name>: the context and the provider change, the messages do not.
SwitchRole ==
  /\ pc = "idle"
  /\ \E role \in AgentRoles \ {agentRole} : agentRole' = role
  /\ UNCHANGED << pc, history, prompts, iteration, pending, toolHistory,
                  offered, header, resumed >>

\* /compact: as a turn compacts, enabled whatever the configuration says, and
\* nothing is written to the session log.
CompactCommand ==
  /\ pc = "idle"
  /\ EstimateMessages(history) > MaxTokens
  /\ history' = Prune(Condense(history))
  /\ UNCHANGED << pc, agentRole, prompts, iteration, pending, toolHistory,
                  offered, header, resumed >>

\* The head of an iteration: compact if needed, log the request, read the
\* header and call provider.chat with the bridge's conversation id.
SendRequest ==
  /\ pc = "turn"
  /\ history' = Compact(history)
  /\ resumed' = header
  /\ pc' = "chat"
  /\ UNCHANGED << agentRole, prompts, iteration, pending, toolHistory,
                  offered, header >>

\* on_init: the bridge announces its conversation while chat is running.
BridgeAnnounces ==
  /\ pc = "chat"
  /\ \E conv \in ConvIds \ {header} : header' = conv
  /\ UNCHANGED << pc, history, agentRole, prompts, iteration, pending,
                  toolHistory, offered, resumed >>

\* Mutant: a failed request is tried again, whatever the number of tries.
RetryRequest ==
  /\ pc = "chat"
  /\ pc' = "turn"
  /\ UNCHANGED << history, agentRole, prompts, iteration, pending, toolHistory,
                  offered, header, resumed >>

\* ProviderError: loop.run returns "", the prompt stays in the history.
ProviderFails ==
  /\ pc = "chat"
  /\ pc' = "idle"
  /\ UNCHANGED << history, agentRole, prompts, iteration, pending, toolHistory,
                  offered, header, resumed >>

\* An answer, with the conversation id the bridge's reply carries, if any.
ProviderAnswers ==
  /\ pc = "chat"
  /\ \E calls \in CallSeqs, size \in AnswerSizes :
        /\ history' = Append(history, AssistantMessage(calls, size))
        /\ pending' = calls
        /\ pc' = IF calls = << >> THEN "idle" ELSE "dispatch"
  /\ \E conv \in ConvIds \cup {NoConv} :
        header' = IF conv = NoConv THEN header ELSE conv
  /\ UNCHANGED << agentRole, prompts, iteration, toolHistory, offered, resumed >>

\* What dispatch may return for a call of the active role.
DispatchResults(call) ==
  IF call.name \in RoleTools[agentRole]
    THEN {ToolMessage(call.id, Served, size) : size \in ResultSizes}
    ELSE {ToolMessage(call.id, Refused, RefusalSize)}

\* Mutant: a refused call ends the turn without a result for the rest.
DispatchUntilRefused ==
  /\ pc = "dispatch"
  /\ \E result \in DispatchResults(Head(pending)) :
        /\ history' = Append(history, result)
        /\ pending' = IF result.body = Refused THEN << >> ELSE Tail(pending)
  /\ toolHistory' = Append(toolHistory, Head(pending))
  /\ IF pending' # << >>
       THEN UNCHANGED << pc, iteration >>
       ELSE /\ iteration' = iteration + 1
            /\ pc' = IF iteration + 1 = MaxIterations THEN "idle" ELSE "turn"
  /\ UNCHANGED << agentRole, prompts, offered, header, resumed >>

\* dispatch_and_append for the next call; after the last one the iteration is
\* over, and with the last iteration the run.
DispatchCall ==
  /\ pc = "dispatch"
  /\ \E result \in DispatchResults(Head(pending)) :
        history' = Append(history, result)
  /\ toolHistory' = Append(toolHistory, Head(pending))
  /\ pending' = Tail(pending)
  /\ IF Tail(pending) # << >>
       THEN UNCHANGED << pc, iteration >>
       ELSE /\ iteration' = iteration + 1
            /\ pc' = IF iteration + 1 = MaxIterations THEN "idle" ELSE "turn"
  /\ UNCHANGED << agentRole, prompts, offered, header, resumed >>

\* An exception no handler expects (OSError of a tool or of the log, a failed
\* credential lookup) or Ctrl-C during a run: the process is gone.
Crash ==
  /\ pc \in {"turn", "chat", "dispatch"}
  /\ pc' = "down"
  /\ UNCHANGED << history, agentRole, prompts, iteration, pending, toolHistory,
                  offered, header, resumed >>

\* /exit, end of input, or Ctrl-C at the prompt.
Exit ==
  /\ pc = "idle"
  /\ pc' = "down"
  /\ UNCHANGED << history, agentRole, prompts, iteration, pending, toolHistory,
                  offered, header, resumed >>

LoopSteps == SendRequest \/ ProviderFails \/ ProviderAnswers \/ DispatchCall

Next == \/ SubmitPrompt \/ SwitchRole \/ CompactCommand \/ Exit
        \/ LoopSteps \/ BridgeAnnounces \/ Crash

Spec == Init /\ [][Next]_vars

\* The loop never waits without a reason; the HTTP providers and bash have
\* timeouts, so that a reply or an error comes.  The user owes nothing.
RequestIsSent   == pc = "turn" /\ pc' \in {"chat", "down"}
ProviderReacts  == pc = "chat" /\ pc' \in {"idle", "dispatch", "down"}
CallIsDispatched == pc = "dispatch" /\ pending' = Tail(pending)

FairSpec == Spec /\ WF_pc(RequestIsSent)
                 /\ WF_pc(ProviderReacts)
                 /\ WF_pending(CallIsDispatched)

-----------------------------------------------------------------------------
Running == pc \in {"turn", "chat", "dispatch"}

TypeOK ==
  /\ pc \in {"idle", "turn", "chat", "dispatch", "down"}
  /\ history \in Seq(Message)
  /\ agentRole \in AgentRoles
  /\ prompts \in 0..MaxPrompts
  /\ iteration \in 0..MaxIterations
  /\ Running => iteration < MaxIterations
  /\ pending \in Seq(ToolCall)
  /\ toolHistory \in Seq(ToolCall)
  /\ offered \in SUBSET Tools
  /\ header \in ConvIds \cup {NoConv}
  /\ resumed \in ConvIds \cup {NoConv}

\* The calls that have no result yet are exactly those still to dispatch, in
\* order: no provider is ever sent a call without its result, a result
\* without its call or results out of order, whatever was compacted, refused,
\* cut off by the iteration cap or left by a failed request.
ToolPairing ==
  /\ Paired(history)
  /\ pc \in {"idle", "turn", "chat"} => Settled(history) /\ pending = << >>
  /\ pc = "dispatch" =>
       /\ pending # << >>
       /\ \E j \in Assistants(history) :
            pending = SubSeq(history[j].calls, Len(history) - j + 1,
                             Len(history[j].calls))

\* Whatever compaction removes, a request holds the system prompt and the
\* prompt it is made for, which is the last user message: older prompts, those
\* of failed requests included, never displace it.
RequestHasPrompt ==
  /\ history # << >> /\ history[1] = SystemMessage(SystemSize)
  /\ (Running /\ KeepRecentRounds > 0) =>
       LastStart(history) # 0 /\ history[LastStart(history)].body = prompts

\* The messages of the last round, in which compaction touches nothing.
LastRound == From(history, LastStart(history))

\* Where a round has tool results, and how many it has up to its i-th message.
Results(round) == {i \in DOMAIN round : round[i].role = "tool"}
ResultsUpTo(round, i) == Cardinality({j \in Results(round) : j <= i})

\* The tool results of a round are those of the calls, in their order, and
\* refused exactly if the tool is not among the names.
ResultsMatch(round, calls, names) ==
  /\ Cardinality(Results(round)) = Len(calls)
  /\ \A i \in Results(round) :
       LET call == calls[ResultsUpTo(round, i)]
       IN  /\ round[i].id = call.id
           /\ round[i].body = Refused <=> call.name \notin names

\* What a prompt has cost so far is what the model sees of it: its answers are
\* the iterations counted against the cap, and at most MaxIterations, whatever
\* the provider answers; and what hooks see as tool_history is the calls
\* answered for this prompt, in the order of their results, and none of an
\* earlier one, of which the registry refused only tools that were not offered.
RoundMatchesCounters ==
  (RoundStarts(history) # {} /\ KeepRecentRounds > 0) =>
     LET answers == Cardinality(Assistants(LastRound))
     IN  /\ answers <= MaxIterations
         /\ pc \in {"turn", "chat"} => answers = iteration
         /\ ResultsMatch(LastRound, toolHistory, offered)

\* No step rewrites the task in hand: the last round only ever grows at its
\* end, until the next prompt opens another one.
LastRoundOnlyGrows ==
  [][ (prompts' = prompts /\ KeepRecentRounds > 0 /\ RoundStarts(history) # {}) =>
        SubSeq(LastRound', 1, Len(LastRound)) = LastRound ]_vars

\* What an iteration still has before it.
Ahead == CASE pc = "turn" -> 2 [] pc = "chat" -> 1 [] pc = "dispatch" -> 0

\* A run has a fixed number of steps at most, even with no fairness: each one
\* ends it, or begins a later iteration, or comes further in this one, or
\* leaves one call less to dispatch.  No failure, refusal or empty answer
\* takes it back.  (The bridge announces a conversation beside the run.)
RunProgresses ==
  [][ Running =>
        \/ ~Running'
        \/ iteration' = iteration + 1
        \/ /\ iteration' = iteration
           /\ \/ Ahead' < Ahead
              \/ Ahead' = Ahead /\ Len(pending') < Len(pending)
    ]_<< pc, history, iteration, pending, toolHistory >>

\* Every prompt is over some time: the run returns to the user or the process
\* ends.
RunEnds == Running ~> (pc \in {"idle", "down"})

=============================================================================
