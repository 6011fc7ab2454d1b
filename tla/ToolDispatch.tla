---------------------------- MODULE ToolDispatch ----------------------------
(***************************************************************************)
(* Dispatching one tool call after another: tools/dispatch.py through the  *)
(* registry (tools/registry.py), the hook chain (hooks/chain.py) with the  *)
(* built-in hooks (hooks/builtins.py) or hooks of the user, as the         *)
(* configuration sets them up (config/service.py, hooks/loader.py).        *)
(*                                                                         *)
(* A hook may wait for the user, so one hook is one step.  The arguments   *)
(* of a call are JSON text: what counts is whether the text parses and     *)
(* what the hooks find in it.                                              *)
(*                                                                         *)
(* The call is one dict, handed by reference to the registry check, to     *)
(* every hook and to the handler.  A hook of the user may return another   *)
(* dict ("modify"), and it may write in the one it is given, whatever it   *)
(* answers: then everybody who holds that dict sees what it wrote.         *)
(***************************************************************************)
EXTENDS Naturals, Sequences, FiniteSets

CONSTANTS ToolNames,     \* names a model may ask for
          Handled,       \* tools registered with a handler (lsp has none)
          AgentRoles,    \* agent roles
          RoleTools,     \* the registry: role -> names of permitted tools
          Arguments,     \* argument texts of calls
          Malformed,     \* those that are no JSON
          Destructive,   \* those with a command on the blocklist
          Outside,       \* those with a path that path_guard denies
          Ignored,       \* those with a gitignored path
          Unresolvable,  \* those with a path the file system cannot resolve
          Chain,         \* names of the hooks of the chain, in order
          HooksTable,    \* the [hooks.<name>] tables: name -> configuration
          ViaConfig,     \* the chain is built from the configuration file
          ConfirmMode,   \* mode of confirm_prompt
          UserVerdicts,  \* hook -> what it may do, if it is the user's
          NoTarget,      \* a verdict without tool_call
          AsGiven,       \* the dict the hook was given; its contents untouched
          NoRequest,     \* no call is being dispatched
          MaxEffects     \* bound: handlers run in one behaviour

BuiltIns == {"blocklist", "path_guard", "confirm_prompt", "gitignore_guard"}

HookConfig == [tools : SUBSET ToolNames, failOpen : BOOLEAN]

Call == [name : ToolNames, args : Arguments]

\* What a hook answers, the dict it answers with, and what it leaves in the
\* dict it was given.
Verdict == [kind : {"allow", "deny", "modify", "raise"},
            to   : Call \cup {NoTarget, AsGiven},
            left : Call \cup {AsGiven}]

Hook == DOMAIN Chain   \* a hook is its position in the chain

ASSUME DispatchAssumption ==
  /\ Handled \subseteq ToolNames
  /\ RoleTools \in [AgentRoles -> SUBSET ToolNames]
  /\ \A S \in {Malformed, Destructive, Outside, Ignored, Unresolvable} :
        S \subseteq Arguments
  /\ Malformed \cap (Destructive \cup Outside \cup Ignored \cup Unresolvable) = {}
  /\ Chain \in Seq(STRING)
  /\ \A name \in DOMAIN HooksTable : HooksTable[name] \in HookConfig
  /\ ViaConfig \in BOOLEAN
  /\ ConfirmMode \in {"ask", "always-allow", "always-deny"}
  /\ UserVerdicts \in [DOMAIN Chain -> SUBSET Verdict]
  /\ NoTarget # NoRequest /\ NoTarget # AsGiven /\ NoRequest # AsGiven
  /\ Call \cap {NoTarget, NoRequest, AsGiven} = {}
  /\ NoRequest \notin [role : AgentRoles, call : Call]
  /\ MaxEffects \in Nat

-----------------------------------------------------------------------------
(* Configuration.                                                          *)

DefaultConfig == [tools |-> {}, failOpen |-> FALSE]

\* _extract_raw_hooks keeps the tables named "chain", which no hook is.
ExtractRawHooks(table) ==
  [name \in DOMAIN table \cap {"chain"} |-> table[name]]

\* What load_hooks is given; hooks set up in code bring their own.
RawHooks == IF ViaConfig THEN ExtractRawHooks(HooksTable) ELSE HooksTable

ConfigOf(hook) ==
  IF Chain[hook] \in DOMAIN RawHooks THEN RawHooks[Chain[hook]] ELSE DefaultConfig

ShouldRun(hook, tool) ==
  ConfigOf(hook).tools = {} \/ tool \in ConfigOf(hook).tools

-----------------------------------------------------------------------------
(* What the hooks may answer.                                              *)

Allow == [kind |-> "allow", to |-> NoTarget, left |-> AsGiven]
Deny  == [kind |-> "deny",  to |-> NoTarget, left |-> AsGiven]
Raise == [kind |-> "raise", to |-> NoTarget, left |-> AsGiven]

Blocklist(call) == {IF call.args \in Destructive THEN Deny ELSE Allow}

PathGuard(call) ==
  {IF call.name # "bash" /\ call.args \in Outside THEN Deny ELSE Allow}

\* The user's answer, when one is asked for, is Allow or Deny.
ConfirmPrompt(call) ==
  CASE ConfirmMode = "always-allow" -> {Allow}
    [] ConfirmMode = "always-deny"  -> {Deny}
    [] ConfirmMode = "ask"          -> {Allow, Deny}

GitignoreGuard(call) ==
  IF call.args \in Unresolvable THEN {Raise}
  ELSE IF call.args \in Ignored THEN {Allow, Deny} ELSE {Allow}

Verdicts(hook, call) ==
  CASE Chain[hook] = "blocklist"       -> Blocklist(call)
    [] Chain[hook] = "path_guard"      -> PathGuard(call)
    [] Chain[hook] = "confirm_prompt"  -> ConfirmPrompt(call)
    [] Chain[hook] = "gitignore_guard" -> GitignoreGuard(call)
    [] Chain[hook] \notin BuiltIns     -> UserVerdicts[hook]

\* Mutant: an exception lets the call pass.
HookResultsOpen(hook, call) ==
  {IF v.kind # "raise" THEN v ELSE [v EXCEPT !.kind = "allow"] :
     v \in Verdicts(hook, call)}

\* _execute_hook: an exception is a verdict too; what the hook has written
\* before it raised stays written.
HookResults(hook, call) ==
  {IF v.kind # "raise" THEN v
   ELSE [v EXCEPT !.kind = IF ConfigOf(hook).failOpen THEN "allow" ELSE "deny"] :
     v \in Verdicts(hook, call)}

-----------------------------------------------------------------------------
VARIABLES
  pc,        \* "idle", "hooks", "handler", or "raised" out of dispatch
  role,      \* context.agent_role of the call
  call,      \* what the dict given to dispatch holds
  current,   \* what current_call of HookChain.run holds
  shared,    \* current_call is the dict given to dispatch
  next,      \* the hook HookChain.run comes to next
  result,    \* kind of the text dispatch returned last
  passed,    \* << hook, call >> for every call a hook let pass
  effects    \* what handlers were run with

vars == << pc, role, call, current, shared, next, result, passed, effects >>

Results == {"none", "refused", "blocked", "malformed", "unknown", "invalid",
            "done"}

Request(r, c) == [role |-> r, call |-> c]

Init ==
  /\ pc = "idle"
  /\ role \in AgentRoles
  /\ call = NoRequest
  /\ current = NoRequest
  /\ shared = TRUE
  /\ next = 1
  /\ result = "none"
  /\ passed = {}
  /\ effects = << >>

Return(text) == pc' = "idle" /\ result' = text

\* Mutant: the chain goes on where the last call left it.
DispatchMidChain ==
  /\ pc = "idle"
  /\ Len(effects) < MaxEffects
  /\ role' \in AgentRoles /\ call' \in Call
  /\ passed' = {}
  /\ current' = call' /\ shared' = TRUE
  /\ IF call'.name \in RoleTools[role']
       THEN pc' = "hooks" /\ UNCHANGED result
       ELSE Return("refused")
  /\ UNCHANGED << next, effects >>

\* dispatch: the role's whitelist first, then the chain from its first hook.
Dispatch ==
  /\ pc = "idle"
  /\ Len(effects) < MaxEffects
  /\ role' \in AgentRoles /\ call' \in Call
  /\ passed' = {}
  /\ next' = 1
  /\ current' = call' /\ shared' = TRUE
  /\ IF call'.name \in RoleTools[role']
       THEN pc' = "hooks" /\ UNCHANGED result
       ELSE Return("refused")
  /\ UNCHANGED effects

\* An iteration of HookChain.run whose hook is not for the tool at hand.
SkipHook ==
  /\ pc = "hooks" /\ next \in Hook
  /\ current # NoTarget /\ ~ShouldRun(next, current.name)
  /\ next' = next + 1
  /\ UNCHANGED << pc, role, call, current, shared, result, passed, effects >>

\* The next hook is called with the current dict and may write in it, which
\* is the dict dispatch was given as long as no hook has returned another.
RunHook ==
  /\ pc = "hooks" /\ next \in Hook
  /\ current # NoTarget /\ ShouldRun(next, current.name)

Left(verdict) == IF verdict.left = AsGiven THEN current ELSE verdict.left

Rewritten(verdict) == IF shared THEN Left(verdict) ELSE call

HookAllows ==
  /\ RunHook
  /\ \E v \in HookResults(next, current) :
        /\ v.kind = "allow"
        /\ call' = Rewritten(v) /\ current' = Left(v)
  /\ passed' = passed \cup {<< next, current >>}
  /\ next' = next + 1
  /\ UNCHANGED << pc, role, shared, result, effects >>

HookDenies ==
  /\ RunHook
  /\ \E v \in HookResults(next, current) :
        /\ v.kind = "deny"
        /\ call' = Rewritten(v) /\ current' = Left(v)
  /\ Return("blocked")
  /\ UNCHANGED << role, shared, next, passed, effects >>

\* The hooks after this one see the dict it returned.
HookModifies ==
  /\ RunHook
  /\ \E v \in HookResults(next, current) :
        /\ v.kind = "modify"
        /\ call' = Rewritten(v)
        /\ current' = IF v.to = AsGiven THEN Left(v) ELSE v.to
        /\ shared' = (shared /\ v.to = AsGiven)
  /\ passed' = passed \cup {<< next, current >>}
  /\ next' = next + 1
  /\ UNCHANGED << pc, role, result, effects >>

\* current_call["function"] when the verdict came without a tool_call.
ChainRaises ==
  /\ pc = "hooks" /\ next \in Hook /\ current = NoTarget
  /\ pc' = "raised"
  /\ UNCHANGED << role, call, current, shared, next, result, passed, effects >>

\* Mutant: the dict the last hook returned is handed on.
ChainEndsModified ==
  /\ pc = "hooks" /\ next \notin Hook
  /\ pc' = "handler"
  /\ call' = IF current = NoTarget THEN call ELSE current
  /\ UNCHANGED << role, current, shared, next, result, passed, effects >>

\* The end of HookChain.run: its verdict is "allow", without a tool_call, and
\* _run_hooks hands the dict it was given to the handler, as it is by now.
ChainEnds ==
  /\ pc = "hooks" /\ next \notin Hook
  /\ pc' = "handler"
  /\ UNCHANGED << role, call, current, shared, next, result, passed, effects >>

\* _execute_call gives up before the handler: no JSON, no handler, or
\* arguments that do not fit its signature.
HandlerNotRun ==
  /\ pc = "handler"
  /\ \/ call.args \in Malformed /\ Return("malformed")
     \/ call.args \notin Malformed /\ call.name \notin Handled /\ Return("unknown")
     \/ call.args \notin Malformed /\ call.name \in Handled /\ Return("invalid")
  /\ UNCHANGED << role, call, current, shared, next, passed, effects >>

\* The handler runs; a ValueError (output of bash that is no UTF-8) becomes a
\* result, an OSError (listing a directory) leaves dispatch.
HandlerRuns ==
  /\ pc = "handler"
  /\ call.args \notin Malformed /\ call.name \in Handled
  /\ effects' = Append(effects, Request(role, call))
  /\ \/ Return("done")
     \/ Return("invalid")
     \/ pc' = "raised" /\ UNCHANGED result
  /\ UNCHANGED << role, call, current, shared, next, passed >>

ChainSteps == SkipHook \/ HookAllows \/ HookDenies \/ HookModifies
              \/ ChainRaises \/ ChainEnds

Next == Dispatch \/ ChainSteps \/ HandlerNotRun \/ HandlerRuns

Spec == Init /\ [][Next]_vars

-----------------------------------------------------------------------------
TypeOK ==
  /\ pc \in {"idle", "hooks", "handler", "raised"}
  /\ role \in AgentRoles
  /\ call \in Call \cup {NoRequest}
  /\ pc \in {"hooks", "handler"} => call \in Call
  /\ current \in Call \cup {NoTarget, NoRequest}
  /\ pc = "hooks" => current # NoRequest
  /\ shared \in BOOLEAN
  /\ next \in 1..(Len(Chain) + 1)
  /\ result \in Results
  /\ passed \subseteq Hook \X Call
  /\ effects \in Seq([role : AgentRoles, call : Call])

(* Which guards bind what runs.  A hook that writes in the dict changes what *)
(* the hooks before it have seen; behind one that returns another dict, the  *)
(* hooks look at that one, and the handler does not.                         *)

InPlace ==
  {h \in Hook : \E v \in UserVerdicts[h] : v.left # AsGiven}

Replacing ==
  {h \in Hook : \E v \in UserVerdicts[h] :
                   v.kind = "modify" /\ v.to \notin {AsGiven, NoTarget}}

Binding ==
  {h \in Hook : (\A w \in InPlace : w < h) /\ (\A m \in Replacing : h <= m)}

\* What hooks may write in the dict.
Amendments ==
  {v.left : v \in UNION {UserVerdicts[h] : h \in Hook}} \ {AsGiven}

\* The built-in hooks and the handler parse the arguments on their own: still
\* no handler runs with what a binding hook was there to stop, however the
\* other hooks rewrite the call and however often the model asks.  A built-in
\* hook in front of one that writes in the dict, or behind one that returns
\* another, promises nothing.
GuardsHold ==
  \A i \in DOMAIN effects, hook \in Binding :
     LET done == effects[i].call
     IN  (ShouldRun(hook, done.name) /\ ~ConfigOf(hook).failOpen) =>
            /\ Chain[hook] = "blocklist" => done.args \notin Destructive
            /\ Chain[hook] = "path_guard" =>
                  done.name = "bash" \/ done.args \notin Outside
            /\ Chain[hook] = "gitignore_guard" => done.args \notin Unresolvable
            /\ Chain[hook] = "confirm_prompt" => ConfirmMode # "always-deny"

\* The registry is asked once, before the hooks: a tool runs for a role that
\* may not use it only as a call some hook of the user has written in the dict.
\* A dict that a hook returns never makes one run.
OnlyPermittedRun ==
  \A i \in DOMAIN effects :
     \/ effects[i].call.name \in RoleTools[effects[i].role]
     \/ effects[i].call \in Amendments

\* The chain stands between the role's request and the handler (ToolGate): a
\* handler runs once per request, with the call as it was made and permitted
\* or as a hook wrote it in the dict, after every binding hook for its tool
\* has let that very call pass.
Requests == [role : AgentRoles, call : Call]

GuardsOfRequest ==
  [r \in Requests |-> {h \in Binding : ShouldRun(h, r.call.name)}]

AmendmentsOf == [r \in Requests |-> {Request(r.role, c) : c \in Amendments}]

Deciding == pc \in {"hooks", "handler"}

Gate == INSTANCE ToolGate
  WITH Guards    <- Binding,
       Permitted <- {r \in Requests : r.call.name \in RoleTools[r.role]},
       GuardsOf  <- GuardsOfRequest,
       request   <- IF Deciding THEN Request(role, call) ELSE NoRequest,
       cleared   <- IF Deciding THEN {h \in Binding : << h, call >> \in passed} ELSE {}

GateSpec == Gate!Spec

\* CONTEXT.md:130: a hook "returns one of three verdicts: allow, deny, or
\* modify": after a modification the handler runs the call it was modified to.
ModificationTakesEffect ==
  [][ pc = "handler" /\ effects' # effects =>
        effects'[Len(effects')].call = current ]_vars

=============================================================================
