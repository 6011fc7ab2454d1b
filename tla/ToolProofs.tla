------------------------------ MODULE ToolProofs ------------------------------
(***************************************************************************)
(* What the two stages of a tool call guarantee.  First ToolDispatch, for  *)
(* every registry, chain and configuration and whatever the hooks of the   *)
(* user do: what runs was permitted or written in place by a hook, the     *)
(* built-in guards hold where they bind, behind the last hook that writes  *)
(* in the dict and before the first that returns another, and the chain    *)
(* implements ToolGate with those guards.  Then the handlers of FileOps    *)
(* under the steps of McpServer, for any agents, operations, texts and     *)
(* lines: no file is ever seen in part, temporary files are accounted for, *)
(* a successful edit replaces one occurrence in the text it read, and each *)
(* request is answered once.                                               *)
(***************************************************************************)
EXTENDS ToolDispatch, McpServer,
        CompactorProofs   \* its lemmas about flattened sequences


\* A hook that lets a call pass answered with something else than a denial.
Passes(hook, c) == \E v \in HookResults(hook, c) : v.kind \in {"allow", "modify"}

\* What was permitted or written in the dict, and what the hooks so far have
\* answered for the calls they saw.
DispatchInv ==
  /\ TypeOK
  /\ Deciding => (call.name \in RoleTools[role] \/ call \in Amendments)
  /\ \A p \in passed : Passes(p[1], p[2])

\* Every binding hook for the tool that the chain has come by has let pass the
\* very call that is in the dict now: no hook behind it writes there, and as
\* long as no hook has returned another dict, the chain goes on with this one.
Inspected ==
  /\ (pc = "hooks" /\ shared) => current = call
  /\ (pc = "hooks" /\ \A m \in Replacing : next <= m)
        => (shared \/ current = NoTarget)
  /\ Deciding => \A h \in Binding :
        (h < next /\ ShouldRun(h, call.name)) => << h, call >> \in passed
  /\ Deciding => \A p \in passed : p[1] < next
  /\ pc = "handler" => next = Len(Chain) + 1

-----------------------------------------------------------------------------
LEMMA VerdictRange ==
  ASSUME NEW hook \in Hook, NEW c
  PROVE  Verdicts(hook, c) \subseteq {Allow, Deny, Raise} \cup UserVerdicts[hook]
<1>1. CASE Chain[hook] = "blocklist"
  <2>1. Verdicts(hook, c) = Blocklist(c)
    BY <1>1 DEF Verdicts, BuiltIns
  <2>2. QED
    BY <2>1 DEF Blocklist
<1>2. CASE Chain[hook] = "path_guard"
  <2>1. Verdicts(hook, c) = PathGuard(c)
    BY <1>2 DEF Verdicts, BuiltIns
  <2>2. QED
    BY <2>1 DEF PathGuard
<1>3. CASE Chain[hook] = "confirm_prompt"
  <2>1. Verdicts(hook, c) = ConfirmPrompt(c)
    BY <1>3 DEF Verdicts, BuiltIns
  <2>2. QED
    BY <2>1, DispatchAssumption DEF ConfirmPrompt
<1>4. CASE Chain[hook] = "gitignore_guard"
  <2>1. Verdicts(hook, c) = GitignoreGuard(c)
    BY <1>4 DEF Verdicts, BuiltIns
  <2>2. QED
    BY <2>1 DEF GitignoreGuard
<1>5. CASE Chain[hook] \notin BuiltIns
  <2>1. Verdicts(hook, c) = UserVerdicts[hook]
    BY <1>5 DEF Verdicts, BuiltIns
  <2>2. QED
    BY <2>1
<1>6. QED
  BY <1>1, <1>2, <1>3, <1>4, <1>5 DEF BuiltIns

LEMMA VerdictsTyped ==
  ASSUME NEW hook \in Hook, NEW c
  PROVE  Verdicts(hook, c) \subseteq Verdict
<1>1. {Allow, Deny, Raise} \subseteq Verdict
  BY DEF Allow, Deny, Raise, Verdict
<1>2. UserVerdicts[hook] \subseteq Verdict
  BY DispatchAssumption DEF Hook
<1> QED
  BY <1>1, <1>2, VerdictRange

LEMMA VerdictTypes ==
  ASSUME NEW hook \in Hook, NEW c
  PROVE  HookResults(hook, c) \subseteq Verdict
<1>1. \A v \in Verdict, k \in {"allow", "deny"} : [v EXCEPT !.kind = k] \in Verdict
  BY DEF Verdict
<1>2. QED
  <2> SUFFICES ASSUME NEW r \in HookResults(hook, c) PROVE r \in Verdict
    OBVIOUS
  <2>1. PICK v \in Verdicts(hook, c) :
           r = (IF v.kind # "raise" THEN v
                ELSE [v EXCEPT !.kind = IF ConfigOf(hook).failOpen THEN "allow" ELSE "deny"])
    BY DEF HookResults
  <2>2. v \in Verdict
    BY VerdictsTyped
  <2>3. CASE v.kind # "raise"
    BY <2>1, <2>2, <2>3
  <2>4. CASE v.kind = "raise"
    <3>1. PICK k \in {"allow", "deny"} : r = [v EXCEPT !.kind = k]
      BY <2>1, <2>4
    <3> QED
      BY <1>1, <2>2, <3>1
  <2> QED
    BY <2>3, <2>4

LEMMA NextInRange ==
  ASSUME next \in 1..(Len(Chain) + 1)
  PROVE  /\ Hook = 1..Len(Chain) /\ Len(Chain) \in Nat
         /\ next \in Hook => next + 1 \in 1..(Len(Chain) + 1)
         /\ next \notin Hook => next = Len(Chain) + 1
<1>1. Hook = 1..Len(Chain) /\ Len(Chain) \in Nat
  BY DispatchAssumption DEF Hook
<1>2. QED
  BY <1>1

\* What a step of a hook that lets the call pass does.
LetsPass(v) ==
  /\ RunHook /\ v.kind \in {"allow", "modify"}
  /\ passed' = passed \cup {<< next, current >>}
  /\ next' = next + 1
  /\ call' = Rewritten(v)
  /\ \/ v.kind = "allow" /\ current' = Left(v) /\ shared' = shared
     \/ v.kind = "modify" /\ v.to = AsGiven /\ current' = Left(v) /\ shared' = shared
     \/ v.kind = "modify" /\ v.to # AsGiven /\ current' = v.to /\ shared' = FALSE
  /\ UNCHANGED << pc, role, result, effects >>

LEMMA AllowingIsPassing ==
  ASSUME HookAllows \/ HookModifies, shared \in BOOLEAN
  PROVE  /\ next \in Hook /\ current # NoTarget
         /\ \E v \in HookResults(next, current) : LetsPass(v)
<1>1. CASE HookAllows
  BY <1>1 DEF HookAllows, LetsPass, RunHook
<1>2. CASE HookModifies
  <2>1. PICK v \in HookResults(next, current) :
           /\ v.kind = "modify"
           /\ call' = Rewritten(v)
           /\ current' = IF v.to = AsGiven THEN Left(v) ELSE v.to
           /\ shared' = (shared /\ v.to = AsGiven)
    BY <1>2 DEF HookModifies
  <2>2. LetsPass(v)
    BY <1>2, <2>1 DEF HookModifies, LetsPass
  <2>3. QED
    BY <1>2, <2>2 DEF HookModifies, RunHook
<1>3. QED
  BY <1>1, <1>2

\* Only what a hook of the user does changes anything: what it writes is an
\* amendment of a hook in InPlace, and another dict comes from one in Replacing.
LEMMA VerdictSource ==
  ASSUME NEW hook \in Hook, NEW c \in Call, NEW v \in HookResults(hook, c)
  PROVE  /\ v \in Verdict
         /\ v.left # AsGiven => (hook \in InPlace /\ v.left \in Amendments)
         /\ (v.kind = "modify" /\ v.to \notin {AsGiven, NoTarget})
              => hook \in Replacing
<1>1. v \in Verdict
  BY VerdictTypes
<1>2. PICK w \in Verdicts(hook, c) :
         v = IF w.kind # "raise" THEN w
             ELSE [w EXCEPT !.kind = IF ConfigOf(hook).failOpen THEN "allow" ELSE "deny"]
  BY DEF HookResults
<1>3. w \in {Allow, Deny, Raise} \cup UserVerdicts[hook]
  BY VerdictRange
<1>4. /\ UserVerdicts[hook] \subseteq Verdict
      /\ {Allow, Deny, Raise} \subseteq Verdict
  BY DispatchAssumption DEF Hook, Allow, Deny, Raise, Verdict
<1>5. w \in Verdict
  BY <1>3, <1>4
<1>6. v.left = w.left /\ v.to = w.to /\ (v.kind = "modify" => w.kind = "modify")
  <2>1. CASE w.kind # "raise"
    BY <1>2, <2>1
  <2>2. CASE w.kind = "raise"
    BY <1>2, <1>5, <2>2 DEF Verdict
  <2>3. QED
    BY <2>1, <2>2
<1>7. w \in UserVerdicts[hook] \/ (w.left = AsGiven /\ w.kind # "modify")
  BY <1>3 DEF Allow, Deny, Raise
<1>8. ASSUME v.left # AsGiven
      PROVE  hook \in InPlace /\ v.left \in Amendments
  <2>1. w \in UserVerdicts[hook] /\ w.left # AsGiven
    BY <1>6, <1>7, <1>8
  <2>2. w \in UNION {UserVerdicts[h] : h \in Hook}
    BY <2>1
  <2>3. QED
    BY <1>6, <2>1, <2>2 DEF InPlace, Amendments
<1>9. ASSUME v.kind = "modify", v.to \notin {AsGiven, NoTarget}
      PROVE  hook \in Replacing
  BY <1>6, <1>7, <1>9 DEF Replacing
<1>10. QED
  BY <1>1, <1>8, <1>9

LEMMA InitHolds == Init => DispatchInv /\ Inspected
<1> SUFFICES ASSUME Init
             PROVE  DispatchInv /\ Inspected
  OBVIOUS
<1>1. 1 \in 1..(Len(Chain) + 1)
  BY DispatchAssumption
<1>2. QED
  BY <1>1 DEF Init, DispatchInv, TypeOK, Results, Deciding, Inspected

\* What the dict and the current one hold after a hook.
LEMMA WritingKeepsCalls ==
  ASSUME DispatchInv, next \in Hook, current \in Call, pc = "hooks",
         NEW v \in HookResults(next, current)
  PROVE  /\ Left(v) \in Call
         /\ Rewritten(v) \in Call
         /\ Rewritten(v) \in {call, current} \cup Amendments
         /\ (v.left = AsGiven /\ (shared => current = call)) => Rewritten(v) = call
         /\ (v.left # AsGiven /\ shared) => Rewritten(v) \in Amendments
<1>1. v \in Verdict /\ (v.left # AsGiven => v.left \in Amendments)
  BY VerdictSource
<1>2. Left(v) \in Call /\ (v.left # AsGiven => Left(v) \in Amendments)
  BY <1>1 DEF Left, Verdict
<1>3. call \in Call
  BY DEF DispatchInv, TypeOK
<1>4. QED
  BY <1>2, <1>3 DEF Rewritten, Left

LEMMA DispatchStep ==
  ASSUME DispatchInv, Inspected, [Next]_vars
  PROVE  DispatchInv'
<1> USE DEF DispatchInv, TypeOK, Deciding, Results
<1>0. /\ 1 \in 1..(Len(Chain) + 1)
      /\ next \in Hook => next + 1 \in 1..(Len(Chain) + 1)
  BY DispatchAssumption, NextInRange
<1>1. CASE Dispatch
  BY <1>0, <1>1, DispatchAssumption DEF Dispatch, Return
<1>2. CASE SkipHook
  BY <1>0, <1>2 DEF SkipHook
<1>3. CASE HookAllows \/ HookModifies
  <2>1. /\ next \in Hook /\ current # NoTarget
        /\ \E v \in HookResults(next, current) : LetsPass(v)
    BY <1>3, AllowingIsPassing
  <2>2. PICK v \in HookResults(next, current) : LetsPass(v)
    BY <2>1
  <2>3. current \in Call /\ pc = "hooks" /\ pc' = "hooks"
    BY <2>1, <2>2 DEF LetsPass, RunHook
  <2>4. v \in Verdict
    BY <2>1, <2>3, VerdictSource
  <2>5. /\ Left(v) \in Call /\ Rewritten(v) \in Call
        /\ Rewritten(v) = call \/ Rewritten(v) \in Amendments
    BY <2>1, <2>3, WritingKeepsCalls DEF Inspected, Rewritten
  <2>6. call' = Rewritten(v) /\ UNCHANGED << role, result, effects >>
        /\ next' = next + 1
    BY <2>2 DEF LetsPass
  <2>7. current' \in Call \cup {NoTarget} /\ shared' \in BOOLEAN
    BY <2>2, <2>4, <2>5 DEF LetsPass, Verdict
  <2>8. Passes(next, current)
    BY <2>2 DEF LetsPass, Passes
  <2>9. /\ passed' \subseteq Hook \X Call
        /\ \A p \in passed' : Passes(p[1], p[2])
    <3>1. passed' = passed \cup {<< next, current >>}
      BY <2>2 DEF LetsPass
    <3>2. QED
      BY <2>1, <2>3, <2>8, <3>1
  <2>10. call'.name \in RoleTools[role] \/ call' \in Amendments
    BY <2>3, <2>5, <2>6
  <2>11. NoRequest \notin Call \cup {NoTarget}
    BY DispatchAssumption
  <2>12. QED
    BY <1>0, <2>1, <2>3, <2>5, <2>6, <2>7, <2>9, <2>10, <2>11
<1>5. CASE HookDenies
  <2>1. PICK v \in HookResults(next, current) :
           call' = Rewritten(v) /\ current' = Left(v)
    BY <1>5 DEF HookDenies, RunHook
  <2>2. next \in Hook /\ current \in Call /\ pc = "hooks"
    BY <1>5 DEF HookDenies, RunHook
  <2>3. Left(v) \in Call /\ Rewritten(v) \in Call
    BY <2>2, WritingKeepsCalls
  <2>4. QED
    BY <1>5, <2>1, <2>3 DEF HookDenies, Return
<1>7. CASE ChainRaises
  BY <1>7 DEF ChainRaises
<1>8. CASE ChainEnds
  BY <1>8 DEF ChainEnds
<1>9. CASE HandlerNotRun
  BY <1>9 DEF HandlerNotRun, Return
<1>10. CASE HandlerRuns
  <2>1. Request(role, call) \in [role : AgentRoles, call : Call]
    BY <1>10 DEF HandlerRuns, Request
  <2>2. effects' \in Seq([role : AgentRoles, call : Call])
    BY <1>10, <2>1 DEF HandlerRuns
  <2>3. QED
    BY <1>10, <2>2 DEF HandlerRuns, Return
<1>11. CASE UNCHANGED vars
  BY <1>11 DEF vars
<1>12. QED
  BY <1>1, <1>2, <1>3, <1>5, <1>7, <1>8, <1>9, <1>10, <1>11
     DEF Next, ChainSteps

\* A hook that lets pass and changes the dict dispatch was given is not binding,
\* and no hook before it is: whoever passed the call has to be asked no more.
LEMMA PassingStep ==
  ASSUME DispatchInv, Inspected, HookAllows \/ HookModifies
  PROVE  /\ pc = "hooks" /\ next \in Hook
         /\ UNCHANGED << pc, role, effects >>
         /\ next' = next + 1 /\ passed' = passed \cup {<< next, current >>}
         /\ call' = call \/ (call' \in Amendments /\ next \in InPlace)
         /\ shared' => (shared /\ current' = call')
         /\ (\A m \in Replacing : next < m) =>
               (shared' \/ current' = NoTarget \/ ~shared)
         /\ shared => current = call
<1> USE DEF Inspected
<1>1. PICK v \in HookResults(next, current) : next \in Hook /\ current # NoTarget /\ LetsPass(v)
  BY AllowingIsPassing DEF DispatchInv, TypeOK
<1>2. pc = "hooks" /\ current \in Call
  BY <1>1 DEF LetsPass, RunHook, DispatchInv, TypeOK
<1>3. /\ v \in Verdict
      /\ v.left # AsGiven => (next \in InPlace /\ v.left \in Amendments)
      /\ (v.kind = "modify" /\ v.to \notin {AsGiven, NoTarget}) => next \in Replacing
  BY <1>1, <1>2, VerdictSource
<1>4. call' = Rewritten(v)
  BY <1>1 DEF LetsPass
<1>5. call' = call \/ (call' \in Amendments /\ next \in InPlace)
  BY <1>2, <1>3, <1>4 DEF Rewritten, Left
<1>6. shared' => (shared /\ current' = call')
  BY <1>1, <1>4 DEF LetsPass, Rewritten
<1>7. ASSUME \A m \in Replacing : next < m, shared
      PROVE  shared' \/ current' = NoTarget
  <2>1. next \notin Replacing
    BY <1>1, <1>7, DispatchAssumption DEF Hook
  <2>2. QED
    BY <1>1, <1>3, <1>7, <2>1 DEF LetsPass
<1>8. QED
  BY <1>1, <1>2, <1>5, <1>6, <1>7 DEF LetsPass

LEMMA InspectedStep ==
  ASSUME DispatchInv, Inspected, [Next]_vars
  PROVE  Inspected'
<1> USE DEF Inspected, Deciding
<1>0. /\ Hook = 1..Len(Chain) /\ Len(Chain) \in Nat
      /\ next \in 1..(Len(Chain) + 1)
      /\ Binding \subseteq Hook /\ Replacing \subseteq Hook /\ InPlace \subseteq Hook
  BY NextInRange DEF DispatchInv, TypeOK, Binding, Replacing, InPlace
<1>p. passed \subseteq Hook \X Call
  BY DEF DispatchInv, TypeOK
<1>1. CASE Dispatch
  BY <1>0, <1>1 DEF Dispatch, Return
<1>2. CASE SkipHook
  <2>1. \A h \in Hook : h < next + 1 => h < next \/ h = next
    BY <1>0
  <2>2. \A p \in passed : p[1] \in Nat /\ p[1] < next + 1
    BY <1>0, <1>2, <1>p DEF SkipHook
  <2>3. (\A m \in Replacing : next + 1 <= m) => (\A m \in Replacing : next <= m)
    BY <1>0
  <2>4. pc = "hooks" /\ current # NoTarget /\ ~ShouldRun(next, current.name)
        /\ UNCHANGED << pc, role, call, current, shared, passed >>
        /\ next' = next + 1
    BY <1>2 DEF SkipHook
  <2>5. ASSUME NEW h \in Binding, h < next', ShouldRun(h, call.name)
        PROVE  << h, call >> \in passed
    <3>1. CASE h = next
      <4>1. \A m \in Replacing : next <= m
        BY <3>1 DEF Binding
      <4>2. current = call
        BY <2>4, <4>1
      <4>3. QED
        BY <2>4, <2>5, <3>1, <4>2
    <3>2. CASE h < next
      BY <2>4, <2>5, <3>2
    <3>3. QED
      BY <1>0, <2>1, <2>4, <2>5, <3>1, <3>2
  <2>6. QED
    BY <2>2, <2>3, <2>4, <2>5
<1>3. CASE HookAllows \/ HookModifies
  <2>1. /\ pc = "hooks" /\ next \in Hook
        /\ UNCHANGED << pc, role >>
        /\ next' = next + 1 /\ passed' = passed \cup {<< next, current >>}
        /\ call' = call \/ (call' \in Amendments /\ next \in InPlace)
        /\ shared' => (shared /\ current' = call')
        /\ (\A m \in Replacing : next < m) => (shared' \/ current' = NoTarget \/ ~shared)
        /\ shared => current = call
    BY <1>3, PassingStep
  <2>2. \A h \in Hook : h < next + 1 => h < next \/ h = next
    BY <1>0
  <2>a. current # NoTarget
    BY <1>3 DEF HookAllows, HookModifies, RunHook
  <2>3. (\A m \in Replacing : next + 1 <= m) => (shared' \/ current' = NoTarget)
    <3> SUFFICES ASSUME \A m \in Replacing : next + 1 <= m
                 PROVE  shared' \/ current' = NoTarget
      OBVIOUS
    <3>1. (\A m \in Replacing : next <= m) /\ (\A m \in Replacing : next < m)
      BY <1>0
    <3>2. QED
      BY <2>1, <2>a, <3>1
  <2>4. \A p \in passed' : p[1] < next'
    BY <1>0, <1>p, <2>1
  <2>5. ASSUME NEW h \in Binding, h < next', ShouldRun(h, call'.name)
        PROVE  << h, call' >> \in passed'
    <3>1. h <= next /\ (h < next \/ h = next)
      BY <1>0, <2>1, <2>2, <2>5
    <3>2. next \notin InPlace
      BY <1>0, <3>1 DEF Binding
    <3>3. call' = call
      BY <2>1, <3>2
    <3>4. CASE h = next
      <4>1. \A m \in Replacing : next <= m
        BY <3>4 DEF Binding
      <4>2. current = call
        BY <2>1, <2>a, <4>1
      <4>3. QED
        BY <2>1, <3>3, <3>4, <4>2
    <3>5. CASE h < next
      BY <2>1, <2>5, <3>3, <3>5
    <3>6. QED
      BY <3>1, <3>4, <3>5
  <2>6. QED
    BY <2>1, <2>3, <2>4, <2>5
<1>4. CASE HookDenies
  BY <1>4 DEF HookDenies, Return
<1>5. CASE ChainRaises
  BY <1>5 DEF ChainRaises
<1>6. CASE ChainEnds
  BY <1>0, <1>6 DEF ChainEnds
<1>7. CASE HandlerNotRun
  BY <1>7 DEF HandlerNotRun, Return
<1>8. CASE HandlerRuns
  BY <1>8 DEF HandlerRuns, Return
<1>9. CASE UNCHANGED vars
  BY <1>9 DEF vars
<1>10. QED
  BY <1>1, <1>2, <1>3, <1>4, <1>5, <1>6, <1>7, <1>8, <1>9
     DEF Next, ChainSteps

-----------------------------------------------------------------------------
\* Types, what is running is permitted or written by a hook, and every binding
\* hook behind the chain's position was skipped or has let the very call pass
\* that is in the dict.
THEOREM DispatchInvariant == Spec => [](DispatchInv /\ Inspected)
<1>1. DispatchInv /\ Inspected /\ [Next]_vars => DispatchInv' /\ Inspected'
  BY DispatchStep, InspectedStep
<1>2. QED
  BY InitHolds, <1>1, PTL DEF Spec

\* Types of the variables of dispatch.
THEOREM TypeCorrect == Spec => []TypeOK
<1>1. DispatchInv => TypeOK
  BY DEF DispatchInv
<1>2. QED
  BY <1>1, DispatchInvariant, PTL

\* A tool runs for a role that may not use it only as a call that a hook of the
\* user has written in the dict; a dict that a hook returns never makes one run.
THEOREM PermissionCorrect == Spec => []OnlyPermittedRun
<1>1. Init => OnlyPermittedRun
  BY DEF Init, OnlyPermittedRun
<1>2. DispatchInv /\ OnlyPermittedRun /\ [Next]_vars => OnlyPermittedRun'
  <2> SUFFICES ASSUME DispatchInv, OnlyPermittedRun, [Next]_vars
               PROVE  OnlyPermittedRun'
    OBVIOUS
  <2>1. CASE HandlerRuns
    <3>1. /\ effects' = Append(effects, Request(role, call))
          /\ effects \in Seq([role : AgentRoles, call : Call])
          /\ call.name \in RoleTools[role] \/ call \in Amendments
      BY <2>1 DEF HandlerRuns, DispatchInv, TypeOK, Deciding
    <3>2. \A i \in DOMAIN effects' :
             \/ effects'[i] = Request(role, call)
             \/ i \in DOMAIN effects /\ effects'[i] = effects[i]
      BY <3>1
    <3>3. QED
      BY <3>1, <3>2 DEF OnlyPermittedRun, Request
  <2>2. CASE effects' = effects
    BY <2>2 DEF OnlyPermittedRun
  <2>3. QED
    BY <2>1, <2>2
       DEF Next, ChainSteps, Dispatch, SkipHook, HookAllows, HookDenies,
           HookModifies, ChainRaises, ChainEnds, HandlerNotRun, vars
<1>3. QED
  BY <1>1, <1>2, DispatchInvariant, PTL DEF Spec

\* What a built-in hook that fails closed lets pass is not what it is there for.
LEMMA PassesMeans ==
  ASSUME NEW hook \in Hook, NEW c \in Call, Passes(hook, c),
         ~ConfigOf(hook).failOpen
  PROVE  /\ Chain[hook] = "blocklist" => c.args \notin Destructive
         /\ Chain[hook] = "path_guard" => c.name = "bash" \/ c.args \notin Outside
         /\ Chain[hook] = "gitignore_guard" => c.args \notin Unresolvable
         /\ Chain[hook] = "confirm_prompt" => ConfirmMode # "always-deny"
<1>1. PICK v \in Verdicts(hook, c) : v.kind \in {"allow", "modify"}
  <2>1. PICK r \in HookResults(hook, c) : r.kind \in {"allow", "modify"}
    BY DEF Passes
  <2>2. PICK v \in Verdicts(hook, c) :
           r = (IF v.kind # "raise" THEN v
                ELSE [v EXCEPT !.kind = IF ConfigOf(hook).failOpen THEN "allow" ELSE "deny"])
    BY DEF HookResults
  <2>3. ~ConfigOf(hook).failOpen
    OBVIOUS
  <2>4. CASE v.kind # "raise"
    BY <2>1, <2>2, <2>4
  <2>5. CASE v.kind = "raise"
    <3>1. r = [v EXCEPT !.kind = "deny"]
      BY <2>2, <2>3, <2>5
    <3>2. v \in Verdict
      BY VerdictsTyped
    <3>3. r.kind = "deny"
      BY <3>1, <3>2 DEF Verdict
    <3> QED
      BY <2>1, <3>3
  <2> QED
    BY <2>4, <2>5
<1>2. v # Deny /\ v # Raise
  BY <1>1 DEF Deny, Raise
<1>3. ASSUME Chain[hook] = "blocklist"
      PROVE  c.args \notin Destructive
  <2>1. Verdicts(hook, c) = Blocklist(c)
    BY <1>3 DEF Verdicts, BuiltIns
  <2>2. QED
    BY <1>2, <2>1 DEF Blocklist
<1>4. ASSUME Chain[hook] = "path_guard"
      PROVE  c.name = "bash" \/ c.args \notin Outside
  <2>1. Verdicts(hook, c) = PathGuard(c)
    BY <1>4 DEF Verdicts, BuiltIns
  <2>2. QED
    BY <1>2, <2>1 DEF PathGuard
<1>5. ASSUME Chain[hook] = "gitignore_guard"
      PROVE  c.args \notin Unresolvable
  <2>1. Verdicts(hook, c) = GitignoreGuard(c)
    BY <1>5 DEF Verdicts, BuiltIns
  <2>2. QED
    BY <1>2, <2>1 DEF GitignoreGuard
<1>6. ASSUME Chain[hook] = "confirm_prompt"
      PROVE  ConfirmMode # "always-deny"
  <2>1. Verdicts(hook, c) = ConfirmPrompt(c)
    BY <1>6 DEF Verdicts, BuiltIns
  <2>2. QED
    BY <1>2, <2>1 DEF ConfirmPrompt
<1>7. QED
  BY <1>3, <1>4, <1>5, <1>6

\* No handler runs with what a binding built-in hook of the chain is there to
\* stop, unless the hook is not for the tool or fails open: whatever other hooks
\* return, and whatever those in front of it write in the dict.
THEOREM GuardsCorrect == Spec => []GuardsHold
<1>1. Init => GuardsHold
  BY DEF Init, GuardsHold
<1>2. DispatchInv /\ Inspected /\ GuardsHold /\ [Next]_vars => GuardsHold'
  <2> SUFFICES ASSUME DispatchInv, Inspected, GuardsHold, [Next]_vars
               PROVE  GuardsHold'
    OBVIOUS
  <2>0. Binding \subseteq Hook
    BY DEF Binding
  <2>1. CASE HandlerRuns
    <3>1. /\ effects' = Append(effects, Request(role, call))
          /\ effects \in Seq([role : AgentRoles, call : Call])
          /\ call \in Call
      BY <2>1 DEF HandlerRuns, DispatchInv, TypeOK
    <3>2. \A h \in Binding : ShouldRun(h, call.name) => Passes(h, call)
      <4>1. \A h \in Binding : ShouldRun(h, call.name) => << h, call >> \in passed
        BY <2>0, <2>1, NextInRange
           DEF HandlerRuns, Inspected, DispatchInv, TypeOK, Deciding
      <4>2. QED
        BY <4>1 DEF DispatchInv
    <3> SUFFICES ASSUME NEW i \in DOMAIN effects', NEW h \in Binding,
                        ShouldRun(h, effects'[i].call.name),
                        ~ConfigOf(h).failOpen
                 PROVE  LET done == effects'[i].call
                        IN  /\ Chain[h] = "blocklist" => done.args \notin Destructive
                            /\ Chain[h] = "path_guard" =>
                                 done.name = "bash" \/ done.args \notin Outside
                            /\ Chain[h] = "gitignore_guard" =>
                                 done.args \notin Unresolvable
                            /\ Chain[h] = "confirm_prompt" =>
                                 ConfirmMode # "always-deny"
      BY DEF GuardsHold
    <3>3. \/ effects'[i] = Request(role, call)
          \/ i \in DOMAIN effects /\ effects'[i] = effects[i]
      BY <3>1
    <3>4. CASE effects'[i] = Request(role, call)
      <4>1. effects'[i].call = call
        BY <3>4 DEF Request
      <4>2. QED
        BY <2>0, <3>1, <3>2, <4>1, PassesMeans
    <3>5. CASE i \in DOMAIN effects /\ effects'[i] = effects[i]
      BY <3>5 DEF GuardsHold
    <3>6. QED
      BY <3>3, <3>4, <3>5
  <2>2. CASE effects' = effects
    BY <2>2 DEF GuardsHold
  <2>3. QED
    BY <2>1, <2>2
       DEF Next, ChainSteps, Dispatch, SkipHook, HookAllows, HookDenies,
           HookModifies, ChainRaises, ChainEnds, HandlerNotRun, vars
<1>3. QED
  BY <1>1, <1>2, DispatchInvariant, PTL DEF Spec

\* Dispatch implements ToolGate: what runs is the call that was made and permitted
\* to its role, or what a hook wrote in the dict, passed by every binding hook for
\* its tool after the last change.
THEOREM GateImplemented == Spec => GateSpec
<1>1. Init => Gate!Init
  BY DEF Init, Gate!Init, Deciding
<1>2. DispatchInv /\ DispatchInv' /\ Inspected /\ [Next]_vars
        => [Gate!Next]_(Gate!gateVars)
  <2> SUFFICES ASSUME DispatchInv, DispatchInv', Inspected, [Next]_vars
               PROVE  [Gate!Next]_(Gate!gateVars)
    OBVIOUS
  <2> USE DEF Gate!gateVars, Deciding
  <2>0. Binding \subseteq Hook
    BY DEF Binding
  <2>1. /\ Deciding => /\ Request(role, call) \in Requests
                       /\ Request(role, call) # NoRequest
                       /\ Request(role, call).role = role
                       /\ Request(role, call).call = call
        /\ Deciding' => Request(role, call)' \in Requests
    BY DispatchAssumption DEF DispatchInv, TypeOK, Request, Requests
  <2>2. CASE Dispatch
    <3>1. CASE call'.name \in RoleTools[role']
      <4>1. Deciding' /\ ~Deciding /\ passed' = {} /\ UNCHANGED effects
        BY <2>2, <3>1 DEF Dispatch
      <4>2. Request(role, call)' \in {r \in Requests : r.call.name \in RoleTools[r.role]}
        BY <2>1, <3>1, <4>1 DEF Request
      <4>3. Gate!Ask
        BY <4>1, <4>2 DEF Gate!Ask
      <4>4. QED
        BY <4>3 DEF Gate!Next
    <3>2. CASE call'.name \notin RoleTools[role']
      BY <2>2, <3>2 DEF Dispatch, Return
    <3>3. QED
      BY <3>1, <3>2
  <2>3. CASE SkipHook
    BY <2>3 DEF SkipHook
  <2>4. CASE HookAllows \/ HookModifies
    <3>1. /\ pc = "hooks" /\ next \in Hook /\ pc' = "hooks"
          /\ UNCHANGED << role, effects >>
          /\ passed' = passed \cup {<< next, current >>}
          /\ call' = call \/ (call' \in Amendments /\ next \in InPlace)
          /\ \A p \in passed : p[1] < next
      BY <2>4, PassingStep DEF Inspected
    <3>2. CASE call' = call
      <4>1. CASE next \in Binding /\ current = call
        <5>1. {h \in Binding : << h, call >> \in passed}'
                = {h \in Binding : << h, call >> \in passed} \cup {next}
          BY <3>1, <3>2, <4>1
        <5>2. Gate!Clear
          BY <2>1, <3>1, <3>2, <4>1, <5>1 DEF Gate!Clear, Request
        <5>3. QED
          BY <5>2 DEF Gate!Next
      <4>2. CASE ~(next \in Binding /\ current = call)
        <5>1. {h \in Binding : << h, call >> \in passed}'
                = {h \in Binding : << h, call >> \in passed}
          BY <3>1, <3>2, <4>2
        <5>2. QED
          BY <3>1, <3>2, <5>1 DEF Request
      <4>3. QED
        BY <4>1, <4>2
    <3>3. CASE call' \in Amendments /\ next \in InPlace
      <4>1. \A h \in Binding : h \in Nat /\ next < h
        BY <2>0, <3>3, NextInRange DEF Binding, DispatchInv, TypeOK
      <4>2. \A p \in passed' : p[1] \in Nat /\ p[1] <= next
        <5>1. \A p \in passed : p[1] \in Hook
          BY DEF DispatchInv, TypeOK
        <5>2. QED
          BY <3>1, <5>1, NextInRange DEF DispatchInv, TypeOK
      <4>3. {h \in Binding : << h, call >> \in passed}' = {}
        <5>1. ASSUME NEW h \in Binding, << h, call' >> \in passed'
              PROVE  FALSE
          <6>1. h <= next /\ next < h /\ h \in Nat /\ next \in Nat
            BY <4>1, <4>2, <5>1, NextInRange DEF DispatchInv, TypeOK
          <6>2. QED
            BY <6>1
        <5>2. QED
          BY <5>1
      <4>4. Request(role, call)' \in AmendmentsOf[Request(role, call)]
        BY <2>1, <3>1, <3>3 DEF AmendmentsOf, Request
      <4>5. Gate!Amend
        BY <2>1, <3>1, <4>3, <4>4 DEF Gate!Amend
      <4>6. QED
        BY <4>5 DEF Gate!Next
    <3>4. QED
      BY <3>1, <3>2, <3>3
  <2>5. CASE HookDenies
    BY <2>1, <2>5 DEF HookDenies, RunHook, Return, Gate!Next, Gate!Drop
  <2>6. CASE ChainRaises
    BY <2>1, <2>6 DEF ChainRaises, Gate!Next, Gate!Drop
  <2>7. CASE ChainEnds
    BY <2>7 DEF ChainEnds, Request
  <2>8. CASE HandlerNotRun
    BY <2>1, <2>8 DEF HandlerNotRun, Return, Gate!Next, Gate!Drop
  <2>9. CASE HandlerRuns
    <3>2. \A h \in Binding : ShouldRun(h, call.name) => << h, call >> \in passed
      BY <2>0, <2>9, NextInRange DEF HandlerRuns, Inspected, DispatchInv, TypeOK
    <3>3. GuardsOfRequest[Request(role, call)]
            \subseteq {h \in Binding : << h, call >> \in passed}
      BY <2>1, <2>9, <3>2 DEF GuardsOfRequest, HandlerRuns
    <3>4. Gate!CarryOut
      BY <2>1, <2>9, <3>3 DEF HandlerRuns, Return, Gate!CarryOut
    <3>5. QED
      BY <3>4 DEF Gate!Next
  <2>10. CASE UNCHANGED vars
    BY <2>10 DEF vars, Request
  <2>11. QED
    BY <2>2, <2>3, <2>4, <2>5, <2>6, <2>7, <2>8, <2>9, <2>10
       DEF Next, ChainSteps
<1>3. QED
  BY <1>1, <1>2, DispatchInvariant, PTL
     DEF Spec, GateSpec, Gate!Spec

-----------------------------------------------------------------------------
(* The files, and the server that works on them.                           *)


USE FileAssumption, ServerAssumption

Halfway == {"writing", "renaming"}
Writers == {a \in Agents : opPc[a] \in Halfway}

Places == {"idle", "called", "checked", "creating", "writing", "renaming",
           "replied", "dead"}

\* The shape of the agents' state; a reply is there when it has been given.
FileShape ==
  /\ opPc \in [Agents -> Places]
  /\ DOMAIN op = Agents /\ DOMAIN draft = Agents /\ DOMAIN reply = Agents
  /\ DOMAIN seen = Agents /\ intact \in [Agents -> BOOLEAN]
  /\ \A a \in Agents : reply[a] = "ok" => opPc[a] = "replied"

NothingTorn ==
  /\ target.is # "torn"
  /\ \A a \in Agents : seen[a].is # "torn"

\* A temporary file belongs to a write in progress or to one that failed.
TempsCounted ==
  /\ temps \in Nat /\ failures \in Nat
  /\ temps = failures + Cardinality(Writers)

\* What an edit is going to write follows from what it read, and that is what is
\* there as long as nobody has changed it.
DraftCurrent ==
  \A a \in Agents :
    (op[a].do = "edit" /\ opPc[a] \in {"creating", "writing", "renaming"}) =>
      /\ seen[a].is = "file"
      /\ Matches(Universal(seen[a].text), op[a].old)
      /\ draft[a] = Replaced(Universal(seen[a].text), op[a].old, op[a].new)
      /\ intact[a] => seen[a] = target

FileInv == FileShape /\ NothingTorn /\ TempsCounted /\ DraftCurrent

-----------------------------------------------------------------------------
LEMMA WritersFinite == IsFiniteSet(Writers) /\ Cardinality(Writers) \in Nat
<1>1. Writers \in SUBSET Agents
  BY DEF Writers
<1>2. IsFiniteSet(Writers)
  BY <1>1, FS_Subset
<1> QED
  BY <1>2, FS_CardinalityType

\* A write that begins, one that ends, and a step of neither kind.
LEMMA WriterComes ==
  ASSUME FileShape, NEW a \in Agents, NEW where \in Halfway,
         opPc[a] \notin Halfway, Goto(a, where)
  PROVE  Cardinality(Writers') = Cardinality(Writers) + 1
<1>1. Writers' = Writers \cup {a} /\ a \notin Writers
  BY DEF Writers, Goto, FileShape
<1> QED
  BY <1>1, WritersFinite, FS_AddElement

LEMMA WriterGoes ==
  ASSUME FileShape, NEW a \in Agents, NEW where, where \notin Halfway,
         opPc[a] \in Halfway, Goto(a, where)
  PROVE  /\ Cardinality(Writers') = Cardinality(Writers) - 1
         /\ Cardinality(Writers') \in Nat
<1>1. Writers' = Writers \ {a} /\ a \in Writers
  BY DEF Writers, Goto, FileShape
<1>2. IsFiniteSet(Writers')
  BY <1>1, WritersFinite, FS_RemoveElement
<1> QED
  BY <1>1, <1>2, WritersFinite, FS_RemoveElement, FS_CardinalityType

LEMMA WritersStay ==
  ASSUME FileShape, NEW a \in Agents, NEW where, Goto(a, where),
         opPc[a] \in Halfway <=> where \in Halfway
  PROVE  Writers' = Writers
BY DEF Writers, Goto, FileShape

LEMMA FileStarts == FileInit => FileInv
<1> SUFFICES ASSUME FileInit PROVE FileInv
  OBVIOUS
<1>1. FileShape /\ DraftCurrent
  BY DEF FileInit, FileShape, Places, DraftCurrent
<1>2. NothingTorn
  BY DEF FileInit, NothingTorn, File, Absent
<1>3. Writers = {}
  BY DEF FileInit, Writers, Halfway
<1>4. TempsCounted
  BY <1>3, FS_EmptySet DEF FileInit, TempsCounted
<1> QED
  BY <1>1, <1>2, <1>4 DEF FileInv

-----------------------------------------------------------------------------
\* An agent keeps what it has of the file while the others work.

LEMMA CallKeeps ==
  ASSUME FileInv, NEW a \in Agents, NEW o, StartCall(a, o)
  PROVE  FileInv'
<1>1. FileShape'
  BY DEF FileInv, StartCall, Goto, FileShape, Places
<1>2. NothingTorn'
  BY DEF FileInv, StartCall, NothingTorn
<1>3. Writers' = Writers
  BY WritersStay DEF FileInv, StartCall, Goto, Halfway
<1>4. TempsCounted'
  BY <1>3 DEF FileInv, StartCall, TempsCounted
<1>6. DraftCurrent'
  BY DEF FileInv, StartCall, Goto, FileShape, DraftCurrent
<1> QED
  BY <1>1, <1>2, <1>4, <1>6 DEF FileInv

LEMMA ReadPathKeeps ==
  ASSUME FileInv, NEW a \in Agents, ReadPath(a)
  PROVE  FileInv'
<1>1. PICK what \in {"ok", "error", "raised"} : Reply(a, what)
  BY DEF ReadPath
<1>2. FileShape'
  BY <1>1 DEF FileInv, ReadPath, Reply, Goto, FileShape, Places
<1>3. NothingTorn'
  BY DEF FileInv, ReadPath, NothingTorn, FileShape
<1>4. Writers' = Writers
  BY <1>1, WritersStay DEF FileInv, ReadPath, Reply, Goto, Halfway
<1>5. TempsCounted'
  BY <1>4 DEF FileInv, ReadPath, TempsCounted
<1>7. DraftCurrent'
  BY <1>1 DEF FileInv, ReadPath, Reply, Goto, FileShape, DraftCurrent
<1> QED
  BY <1>2, <1>3, <1>5, <1>7 DEF FileInv

LEMMA CheckIsFileKeeps ==
  ASSUME FileInv, NEW a \in Agents, CheckIsFile(a)
  PROVE  FileInv'
<1>1. PICK where \in {"checked", "replied"} : Goto(a, where)
  BY DEF CheckIsFile, Reply
<1>2. FileShape'
  BY DEF FileInv, CheckIsFile, Reply, Goto, FileShape, Places
<1>3. NothingTorn'
  BY DEF FileInv, CheckIsFile, NothingTorn
<1>4. Writers' = Writers
  BY <1>1, WritersStay DEF FileInv, CheckIsFile, Halfway
<1>5. TempsCounted'
  BY <1>4 DEF FileInv, CheckIsFile, TempsCounted
<1>7. DraftCurrent'
  BY DEF FileInv, CheckIsFile, Reply, Goto, FileShape, DraftCurrent
<1> QED
  BY <1>2, <1>3, <1>5, <1>7 DEF FileInv

LEMMA ReadTextKeeps ==
  ASSUME FileInv, NEW a \in Agents, ReadText(a)
  PROVE  FileInv'
<1>1. PICK where \in {"creating", "replied"} : Goto(a, where)
  BY DEF ReadText, Reply
<1>2. FileShape'
  BY ZenonT(30) DEF FileInv, ReadText, Reply, Goto, FileShape, Places
<1>3. NothingTorn'
  BY DEF FileInv, ReadText, NothingTorn, FileShape
<1>4. Writers' = Writers
  BY <1>1, WritersStay DEF FileInv, ReadText, Halfway
<1>5. TempsCounted'
  BY <1>4 DEF FileInv, ReadText, TempsCounted
<1>7. DraftCurrent'
  BY <1>1 DEF FileInv, ReadText, Reply, Goto, FileShape, DraftCurrent
<1> QED
  BY <1>2, <1>3, <1>5, <1>7 DEF FileInv

LEMMA CreateTempKeeps ==
  ASSUME FileInv, NEW a \in Agents, CreateTemp(a)
  PROVE  FileInv'
<1>1. FileShape'
  BY DEF FileInv, CreateTemp, Reply, Goto, FileShape, Places
<1>2. NothingTorn'
  BY DEF FileInv, CreateTemp, NothingTorn
<1>3. TempsCounted'
  <2>1. CASE Goto(a, "writing") /\ temps' = temps + 1
    BY <2>1, WriterComes, WritersFinite
    DEF FileInv, CreateTemp, Halfway, TempsCounted
  <2>2. CASE Reply(a, "error") /\ UNCHANGED temps
    <3>1. Writers' = Writers
      BY <2>2, WritersStay DEF FileInv, CreateTemp, Reply, Halfway
    <3> QED
      BY <2>2, <3>1 DEF FileInv, CreateTemp, TempsCounted
  <2> QED
    BY <2>1, <2>2 DEF CreateTemp
<1>4. DraftCurrent'
  BY DEF FileInv, CreateTemp, Reply, Goto, FileShape, DraftCurrent
<1> QED
  BY <1>1, <1>2, <1>3, <1>4 DEF FileInv

LEMMA WriteTempKeeps ==
  ASSUME FileInv, NEW a \in Agents, WriteTemp(a)
  PROVE  FileInv'
<1>1. FileShape'
  BY DEF FileInv, WriteTemp, Goto, FileShape, Places
<1>2. NothingTorn'
  BY DEF FileInv, WriteTemp, NothingTorn
<1>3. Writers' = Writers
  BY WritersStay DEF FileInv, WriteTemp, Halfway
<1>4. TempsCounted'
  BY <1>3 DEF FileInv, WriteTemp, TempsCounted
<1>5. DraftCurrent'
  BY DEF FileInv, WriteTemp, Goto, FileShape, DraftCurrent
<1> QED
  BY <1>1, <1>2, <1>4, <1>5 DEF FileInv

\* The temporary file of a write that ends badly stays: it is counted as one
\* of a failure from then on.
LEMMA WriteFailsKeeps ==
  ASSUME FileInv, NEW a \in Agents, WriteFails(a)
  PROVE  FileInv'
<1>1. FileShape'
  BY DEF FileInv, WriteFails, Reply, Goto, FileShape, Places
<1>2. NothingTorn'
  BY DEF FileInv, WriteFails, NothingTorn
<1>3. Cardinality(Writers') = Cardinality(Writers) - 1
  BY WriterGoes DEF FileInv, WriteFails, Reply, Halfway
<1>4. TempsCounted'
  BY <1>3, WritersFinite DEF FileInv, WriteFails, TempsCounted
<1>5. DraftCurrent'
  BY DEF FileInv, WriteFails, Reply, Goto, FileShape, DraftCurrent
<1> QED
  BY <1>1, <1>2, <1>4, <1>5 DEF FileInv

LEMMA RenameKeeps ==
  ASSUME FileInv, NEW a \in Agents, Rename(a)
  PROVE  FileInv'
<1>1. FileShape'
  BY DEF FileInv, Rename, Changed, Reply, Goto, FileShape, Places
<1>2. NothingTorn'
  BY DEF FileInv, Rename, File, NothingTorn
<1>3. /\ Cardinality(Writers') = Cardinality(Writers) - 1
      /\ Cardinality(Writers') \in Nat
  BY WriterGoes DEF FileInv, Rename, Reply, Halfway
<1>4. TempsCounted'
  BY <1>3, WritersFinite DEF FileInv, Rename, TempsCounted
<1>5. DraftCurrent'
  <2>1. \A b \in Agents : opPc'[b] = opPc[b] \/ opPc'[b] = "replied"
    BY DEF FileInv, FileShape, Rename, Reply, Goto
  <2>2. /\ UNCHANGED << op, draft, seen >>
        /\ \A b \in Agents : ~intact'[b]
    BY DEF Rename, Changed
  <2> QED
    BY <2>1, <2>2 DEF FileInv, DraftCurrent
<1> QED
  BY <1>1, <1>2, <1>4, <1>5 DEF FileInv

LEMMA BashReturnsKeeps ==
  ASSUME FileInv, NEW a \in Agents, BashReturns(a)
  PROVE  FileInv'
<1>1. PICK what \in {"ok", "error"} : Reply(a, what)
  BY DEF BashReturns
<1>2. FileShape'
  BY <1>1 DEF FileInv, BashReturns, Reply, Goto, FileShape, Places
<1>3. NothingTorn'
  BY DEF FileInv, BashReturns, NothingTorn
<1>4. Writers' = Writers
  BY <1>1, WritersStay DEF FileInv, BashReturns, Reply, Halfway
<1>5. TempsCounted'
  BY <1>4 DEF FileInv, BashReturns, TempsCounted
<1>7. DraftCurrent'
  BY <1>1 DEF FileInv, BashReturns, Reply, Goto, FileShape, DraftCurrent
<1> QED
  BY <1>2, <1>3, <1>5, <1>7 DEF FileInv

LEMMA ForgetKeeps ==
  ASSUME FileInv, NEW a \in Agents, NEW where \in {"idle", "dead"},
         Goto(a, where), Forget(a), UNCHANGED target
  PROVE  FileShape' /\ NothingTorn' /\ DraftCurrent'
<1>1. FileShape'
  BY DEF FileInv, Forget, Goto, FileShape, Places
<1>2. NothingTorn'
  BY DEF FileInv, FileShape, Forget, Absent, NothingTorn
<1>3. DraftCurrent'
  BY DEF FileInv, FileShape, Forget, Goto, DraftCurrent
<1> QED
  BY <1>1, <1>2, <1>3

LEMMA DieKeeps ==
  ASSUME FileInv, NEW a \in Agents, Die(a)
  PROVE  FileInv'
<1>1. FileShape' /\ NothingTorn' /\ DraftCurrent'
  BY ForgetKeeps DEF Die
<1>2. TempsCounted'
  <2>1. CASE opPc[a] \in Halfway
    <3>1. Cardinality(Writers') = Cardinality(Writers) - 1
      BY <2>1, WriterGoes DEF FileInv, Die, Halfway
    <3> QED
      BY <2>1, <3>1, WritersFinite DEF FileInv, Die, Halfway, TempsCounted
  <2>2. CASE opPc[a] \notin Halfway
    <3>1. Writers' = Writers
      BY <2>2, WritersStay DEF FileInv, Die, Halfway
    <3> QED
      BY <2>2, <3>1 DEF FileInv, Die, Halfway, TempsCounted
  <2> QED
    BY <2>1, <2>2
<1> QED
  BY <1>1, <1>2 DEF FileInv

LEMMA DoneKeeps ==
  ASSUME FileInv, NEW a \in Agents, Done(a)
  PROVE  FileInv'
<1>1. FileShape' /\ NothingTorn' /\ DraftCurrent'
  BY ForgetKeeps DEF Done
<1>2. Writers' = Writers
  BY WritersStay DEF FileInv, Done, Halfway
<1>3. TempsCounted'
  BY <1>2 DEF FileInv, Done, TempsCounted
<1> QED
  BY <1>1, <1>3 DEF FileInv

LEMMA ChangeKeeps ==
  ASSUME FileInv, ChangeOutside
  PROVE  FileInv'
<1>1. FileShape'
  BY DEF FileInv, ChangeOutside, Changed, FileShape
<1>2. NothingTorn'
  BY DEF FileInv, ChangeOutside, File, Absent, Directory, NothingTorn
<1>3. TempsCounted'
  BY DEF FileInv, ChangeOutside, TempsCounted, Writers
<1>4. DraftCurrent'
  <2>1. /\ UNCHANGED << op, opPc, draft, seen >>
        /\ \A b \in Agents : ~intact'[b]
    BY DEF ChangeOutside, Changed
  <2> QED
    BY <2>1 DEF FileInv, DraftCurrent
<1> QED
  BY <1>1, <1>2, <1>3, <1>4 DEF FileInv

LEMMA IdleKeeps == FileInv /\ UNCHANGED fileVars => FileInv'
BY DEF fileVars, FileInv, FileShape, NothingTorn, TempsCounted, Writers,
       DraftCurrent

-----------------------------------------------------------------------------
\* A step of the composition is one of an agent, of another program, or of
\* neither.
LEMMA StepsOfFiles ==
  ASSUME ServerNext
  PROVE  \/ \E a \in Agents : \E o \in Operations : StartCall(a, o)
         \/ \E a \in Agents : Work(a) \/ Done(a) \/ Die(a)
         \/ ChangeOutside
         \/ UNCHANGED fileVars
<1>1. CASE Send
  BY <1>1 DEF Send
<1>2. CASE ReadLine
  <2>1. CASE RunsTool(Head(inbox).line)
    BY <1>2, <2>1 DEF ReadLine, RunsTool
  <2>2. CASE ~RunsTool(Head(inbox).line)
    BY <1>2, <2>2 DEF ReadLine
  <2> QED
    BY <2>1, <2>2
<1>3. CASE CommandReadsInput
  BY <1>3 DEF CommandReadsInput
<1>4. CASE Answer
  BY <1>4 DEF Answer
<1>5. CASE EndOfInput
  BY <1>5 DEF EndOfInput
<1>6. CASE ServerDies
  BY <1>6 DEF ServerDies
<1>7. CASE \E a \in Agents \ {Server} : AgentStep(a)
  BY <1>7 DEF AgentStep
<1> QED
  BY <1>1, <1>2, <1>3, <1>4, <1>5, <1>6, <1>7 DEF ServerNext

LEMMA WorkKeeps ==
  ASSUME FileInv, NEW a \in Agents, Work(a)
  PROVE  FileInv'
BY ReadPathKeeps, CheckIsFileKeeps, ReadTextKeeps, CreateTempKeeps,
   WriteTempKeeps, WriteFailsKeeps, RenameKeeps, BashReturnsKeeps DEF Work

LEMMA NextKeeps == FileInv /\ [ServerNext]_mcpVars => FileInv'
<1> SUFFICES ASSUME FileInv, [ServerNext]_mcpVars PROVE FileInv'
  OBVIOUS
<1>1. CASE UNCHANGED mcpVars
  BY <1>1, IdleKeeps DEF mcpVars
<1>2. CASE ServerNext
  <2>1. \/ \E a \in Agents : \E o \in Operations : StartCall(a, o)
        \/ \E a \in Agents : Work(a) \/ Done(a) \/ Die(a)
        \/ ChangeOutside
        \/ UNCHANGED fileVars
    BY <1>2, StepsOfFiles
  <2> QED
    BY <2>1, CallKeeps, WorkKeeps, DoneKeeps, DieKeeps, ChangeKeeps, IdleKeeps
<1> QED
  BY <1>1, <1>2

LEMMA FileInvariant == ServerSpec => []FileInv
<1>1. ServerInit => FileInv
  BY FileStarts DEF ServerInit
<1> QED
  BY <1>1, NextKeeps, PTL DEF ServerSpec

(* No reader ever sees a part of a file, whatever crashes, and no temporary *)
(* file is left but by a write in progress or one that failed or died.      *)
THEOREM FilesCorrect == ServerSpec => []FilesWhole
<1>1. FileInv => FilesWhole
  BY DEF FileInv, NothingTorn, TempsCounted, FilesWhole, Writers, Halfway
<1> QED
  BY <1>1, FileInvariant, PTL

-----------------------------------------------------------------------------
\* Replacing the only occurrence of a word changes one place.
LEMMA OneReplaced ==
  ASSUME NEW text, NEW old, NEW new, old # new, Matches(text, old)
  PROVE  /\ DOMAIN Replaced(text, old, new) = DOMAIN text
         /\ Cardinality({i \in DOMAIN text :
                           Replaced(text, old, new)[i] # text[i]}) = 1
<1>1. {i \in DOMAIN text : Replaced(text, old, new)[i] # text[i]}
        = Occurrences(text, old)
  BY DEF Replaced, Occurrences
<1> QED
  BY <1>1 DEF Matches, Replaced

LEMMA RenameReplaces ==
  ASSUME FileInv, NEW a \in Agents, Rename(a)
  PROVE  ReplacesOne(a)
<1> DEFINE before == Universal(seen[a].text)
<1> SUFFICES ASSUME op[a].do = "edit", op[a].old # op[a].new
             PROVE  /\ seen[a].is = "file"
                    /\ DOMAIN target'.text = DOMAIN before
                    /\ Cardinality({i \in DOMAIN before :
                            target'.text[i] # before[i]}) = 1
                    /\ intact[a] => seen[a] = target
  BY DEF ReplacesOne
<1>1. /\ seen[a].is = "file" /\ Matches(before, op[a].old)
      /\ draft[a] = Replaced(before, op[a].old, op[a].new)
      /\ intact[a] => seen[a] = target
  BY DEF FileInv, DraftCurrent, Rename
<1>2. target'.text = draft[a]
  BY DEF Rename, File
<1> HIDE DEF before
<1> QED
  BY <1>1, <1>2, OneReplaced

\* Only renaming says "ok" to a write.
LEMMA OnlyRenaming ==
  ASSUME FileInv, ServerNext, NEW a \in Agents,
         opPc[a] = "renaming", reply'[a] = "ok"
  PROVE  Rename(a)
<1>1. reply[a] # "ok"
  BY DEF FileInv, FileShape
<1>2. DOMAIN reply = Agents
  BY DEF FileInv, FileShape
<1>3. ~UNCHANGED reply
  BY <1>1
<1>4. ~ChangeOutside /\ ~UNCHANGED fileVars
  BY <1>3 DEF ChangeOutside, fileVars
<1>5. \A b \in Agents : \A o \in Operations : ~StartCall(b, o)
  BY <1>3 DEF StartCall
<1>6. PICK b \in Agents : Work(b) \/ Done(b) \/ Die(b)
  BY <1>4, <1>5, StepsOfFiles
<1>7. b = a /\ ~Done(b) /\ ~Die(b)
  BY <1>1, <1>2, <1>6
  DEF Work, ReadPath, CheckIsFile, ReadText, CreateTemp, WriteTemp, WriteFails,
      Rename, BashReturns, Reply, Done, Die, Forget
<1>8. Work(a)
  BY <1>6, <1>7
<1> QED
  BY <1>1, <1>2, <1>3, <1>8
  DEF Work, ReadPath, CheckIsFile, ReadText, CreateTemp, WriteTemp, WriteFails,
      BashReturns, Reply

(* An edit that reports success has left what it read, with LF at the ends *)
(* of all lines, one occurrence replaced and nothing else touched; and it  *)
(* has read what it replaces, unless the path was changed in between.      *)
THEOREM EditCorrect == ServerSpec => EditReplacesOne
<1>1. ASSUME FileInv, [ServerNext]_mcpVars
      PROVE  [\A a \in Agents : ReplacesOne(a)]_fileVars
  <2>1. CASE UNCHANGED mcpVars
    BY <2>1 DEF mcpVars
  <2>2. CASE ServerNext
    <3> SUFFICES ASSUME NEW a \in Agents PROVE ReplacesOne(a)
      OBVIOUS
    <3>1. CASE opPc[a] = "renaming" /\ reply'[a] = "ok"
      BY <1>1, <2>2, <3>1, OnlyRenaming, RenameReplaces
    <3>2. CASE ~(opPc[a] = "renaming" /\ reply'[a] = "ok")
      BY <3>2 DEF ReplacesOne
    <3> QED
      BY <3>1, <3>2
  <2> QED
    BY <1>1, <2>1, <2>2
<1> QED
  BY <1>1, FileInvariant, PTL DEF ServerSpec, EditReplacesOne

-----------------------------------------------------------------------------
(* The answers of the server.                                              *)

Item == [no : Nat \ {0}, line : Lines]

InHand == IF inHand = 0 THEN << >> ELSE << inHand >>

Answered == Join(Join(answers, InHand), AllDue(inbox))

\* A call is in hand while the server dispatches, none while it reads.
ServerShape ==
  /\ sent \in Nat /\ inHand \in Nat
  /\ inbox \in Seq(Item)
  /\ answers \in Seq(Nat) /\ owed \in Seq(Nat)
  /\ serverPc = "reading" => inHand = 0
  /\ serverPc = "dispatching" => inHand # 0

ServerInv == ServerShape /\ owed = Answered

Dues(items) == [i \in DOMAIN items |-> Due(items[i])]

LEMMA DueType == \A item \in Item : Due(item) \in Seq(Nat)
BY DEF Item, Due

\* Whatever JSON-RPC calls for is what the server says, unless a tool runs.
LEMMA RespondsAsDue ==
  ASSUME NEW item \in Item
  PROVE  /\ Response(item) = Due(item)
         /\ RunsTool(item.line) => Due(item) = << item.no >>
<1>1. /\ item.line.form \in {"blank", "broken", "other", "object"}
      /\ item.line.hasId \in BOOLEAN
  BY ServerAssumption DEF Item
<1>2. CASE item.line.form = "blank"
  BY <1>2 DEF Response, Due, RunsTool
<1>3. CASE item.line.form \in {"broken", "other"}
  BY <1>3 DEF Response, Due, RunsTool
<1>4. CASE item.line.form = "object"
  <2>1. Response(item) = HandleRequest(item)
    BY <1>4 DEF Response
  <2>2. Due(item) = IF item.line.hasId THEN << item.no >> ELSE << >>
    BY <1>4 DEF Due
  <2>3. HandleRequest(item) = IF item.line.hasId THEN << item.no >> ELSE << >>
    BY DEF HandleRequest
  <2> QED
    BY <2>1, <2>2, <2>3 DEF RunsTool
<1> QED
  BY <1>1, <1>2, <1>3, <1>4

LEMMA DuesShape ==
  ASSUME NEW items \in Seq(Item)
  PROVE  /\ Dues(items) \in Seq(Seq(Nat)) /\ Len(Dues(items)) = Len(items)
         /\ \A i \in 1..Len(items) : Dues(items)[i] = Due(items[i])
         /\ AllDue(items) = FlattenSeq(Dues(items))
         /\ AllDue(items) \in Seq(Nat)
<1>1. DOMAIN items = 1..Len(items) /\ Len(items) \in Nat
  OBVIOUS
<1>2. \A i \in 1..Len(items) : Due(items[i]) \in Seq(Nat)
  BY DueType
<1>3. /\ Dues(items) \in Seq(Seq(Nat)) /\ Len(Dues(items)) = Len(items)
      /\ \A i \in 1..Len(items) : Dues(items)[i] = Due(items[i])
  BY <1>1, <1>2 DEF Dues
<1>4. AllDue(items) = FlattenSeq(Dues(items))
  BY DEF AllDue, Dues
<1> QED
  BY <1>3, <1>4, FlatStep

LEMMA DueOfNone == AllDue(<< >>) = << >>
<1>1. PICK items \in Seq(Item) : items = << >>
  <2>1. << >> \in Seq(Item)
    OBVIOUS
  <2> QED
    BY <2>1, Zenon
<1>2. /\ Dues(items) \in Seq(Seq(Nat)) /\ Len(Dues(items)) = 0
      /\ AllDue(items) = FlattenSeq(Dues(items))
  BY <1>1, DuesShape
<1> HIDE DEF Dues
<1>3. FlattenSeq(Dues(items)) = Flat(Nat, Dues(items))[0]
  BY <1>2, FlatStep
<1>4. Flat(Nat, Dues(items))[0] = << >>
  BY <1>2, FlatStep
<1> QED
  BY <1>1, <1>2, <1>3, <1>4

\* A line more at the end.
LEMMA DueOfLast ==
  ASSUME NEW items \in Seq(Item), NEW item \in Item
  PROVE  AllDue(Append(items, item)) = Join(AllDue(items), Due(item))
<1> DEFINE more == Append(items, item)
<1>1. more \in Seq(Item) /\ Len(more) = Len(items) + 1
  OBVIOUS
<1>2. \A i \in 1..Len(items) : more[i] = items[i]
  OBVIOUS
<1>3. more[Len(items) + 1] = item
  OBVIOUS
<1> HIDE DEF more
<1>4. Due(item) \in Seq(Nat)
  BY DueType
<1>5. /\ Dues(more) \in Seq(Seq(Nat)) /\ Len(Dues(more)) = Len(more)
      /\ \A i \in 1..Len(more) : Dues(more)[i] = Due(more[i])
  BY <1>1, DuesShape
<1>6. /\ Dues(items) \in Seq(Seq(Nat)) /\ Len(Dues(items)) = Len(items)
      /\ \A i \in 1..Len(items) : Dues(items)[i] = Due(items[i])
  BY DuesShape
<1>7. PICK d \in Seq(Nat) : d = Due(item)
  BY <1>4
<1>8. Append(Dues(items), d) \in Seq(Seq(Nat))
  BY <1>6
<1>9. Dues(more) = Append(Dues(items), d)
  <2>1. Len(Append(Dues(items), d)) = Len(Dues(more))
    BY <1>1, <1>5, <1>6
  <2>2. ASSUME NEW i \in 1..Len(Dues(more))
        PROVE  Dues(more)[i] = Append(Dues(items), d)[i]
    <3>1. CASE i = Len(items) + 1
      <4>1. Append(Dues(items), d)[i] = d
        BY <1>6, <3>1
      <4>2. Dues(more)[i] = Due(more[i]) /\ more[i] = item
        BY <1>1, <1>3, <1>5, <3>1
      <4> QED
        BY <1>7, <4>1, <4>2
    <3>2. CASE i # Len(items) + 1
      <4>1. i \in 1..Len(items)
        BY <1>1, <1>5, <3>2
      <4>2. Append(Dues(items), d)[i] = Dues(items)[i]
        BY <1>6, <4>1
      <4>3. Dues(items)[i] = Due(items[i]) /\ more[i] = items[i]
        BY <1>2, <1>6, <4>1
      <4>4. Dues(more)[i] = Due(more[i])
        BY <1>5
      <4> QED
        BY <4>2, <4>3, <4>4
    <3> QED
      BY <3>1, <3>2
  <2> QED
    BY <1>5, <1>8, <2>1, <2>2, SameSequence
<1>10. FlattenSeq(Append(Dues(items), d)) = Join(FlattenSeq(Dues(items)), d)
  BY <1>6, FlattenAppend
<1>11. AllDue(more) = FlattenSeq(Dues(more))
       /\ AllDue(items) = FlattenSeq(Dues(items))
  BY <1>1, DuesShape
<1> QED
  BY <1>7, <1>9, <1>10, <1>11 DEF more

\* The lines up to the n-th and those after it.
LEMMA DueOfParts ==
  ASSUME NEW items \in Seq(Item), NEW n \in 0..Len(items)
  PROVE  AllDue(items) = Join(AllDue(SubSeq(items, 1, n)),
                              AllDue(SubSeq(items, n + 1, Len(items))))
<1> DEFINE front == SubSeq(items, 1, n)
           back == SubSeq(items, n + 1, Len(items))
<1>1. /\ front \in Seq(Item) /\ Len(front) = n /\ n \in Nat
      /\ \A i \in 1..n : front[i] = items[i]
  OBVIOUS
<1>2. back \in Seq(Item) /\ Len(back) = Len(items) - n
  OBVIOUS
<1>3. \A i \in 1..(Len(items) - n) : back[i] = items[n + i]
  OBVIOUS
<1> HIDE DEF front, back
<1>4. /\ Dues(items) \in Seq(Seq(Nat)) /\ Len(Dues(items)) = Len(items)
      /\ \A i \in 1..Len(items) : Dues(items)[i] = Due(items[i])
      /\ AllDue(items) = FlattenSeq(Dues(items))
  BY DuesShape
<1>5. /\ Dues(front) \in Seq(Seq(Nat)) /\ Len(Dues(front)) = n
      /\ \A i \in 1..n : Dues(front)[i] = Due(front[i])
      /\ AllDue(front) = FlattenSeq(Dues(front))
  BY <1>1, DuesShape
<1>6. /\ Dues(back) \in Seq(Seq(Nat)) /\ Len(Dues(back)) = Len(items) - n
      /\ \A i \in 1..(Len(items) - n) : Dues(back)[i] = Due(back[i])
      /\ AllDue(back) = FlattenSeq(Dues(back))
  BY <1>2, DuesShape
<1>7. Dues(front) = SubSeq(Dues(items), 1, n)
  <2>1. /\ SubSeq(Dues(items), 1, n) \in Seq(Seq(Nat))
        /\ Len(SubSeq(Dues(items), 1, n)) = n
        /\ \A i \in 1..n : SubSeq(Dues(items), 1, n)[i] = Dues(items)[i]
    BY <1>1, <1>4
  <2>2. \A i \in 1..n : Dues(front)[i] = SubSeq(Dues(items), 1, n)[i]
    BY <1>1, <1>4, <1>5, <2>1
  <2> QED
    BY <1>5, <2>1, <2>2, SameSequence
<1>8. Dues(back) = SubSeq(Dues(items), n + 1, Len(Dues(items)))
  <2> DEFINE rest == SubSeq(Dues(items), n + 1, Len(Dues(items)))
  <2>1. rest \in Seq(Seq(Nat)) /\ Len(rest) = Len(items) - n
    BY <1>1, <1>4
  <2>2. \A i \in 1..(Len(items) - n) : rest[i] = Dues(items)[n + i]
    BY <1>1, <1>4
  <2> HIDE DEF rest
  <2>3. ASSUME NEW i \in 1..Len(Dues(back))
        PROVE  Dues(back)[i] = rest[i]
    <3>1. i \in 1..(Len(items) - n) /\ n + i \in 1..Len(items)
      BY <1>1, <1>6
    <3>2. rest[i] = Due(items[n + i])
      BY <1>4, <2>2, <3>1
    <3>3. Dues(back)[i] = Due(items[n + i])
      BY <1>3, <1>6, <3>1
    <3> QED
      BY <3>2, <3>3
  <2> QED
    BY <1>6, <2>1, <2>3, SameSequence DEF rest
<1>9. n \in 0..Len(Dues(items))
  BY <1>4
<1>10. FlattenSeq(Dues(items))
         = Join(FlattenSeq(SubSeq(Dues(items), 1, n)),
                FlattenSeq(SubSeq(Dues(items), n + 1, Len(Dues(items)))))
  BY <1>4, <1>9, FlattenTwo
<1> QED
  BY <1>4, <1>5, <1>6, <1>7, <1>8, <1>10 DEF front, back

\* The first line and the others.
LEMMA DueOfFirst ==
  ASSUME NEW items \in Seq(Item), items # << >>
  PROVE  AllDue(items) = Join(Due(Head(items)), AllDue(Tail(items)))
<1>1. 1 \in 0..Len(items) /\ Len(items) \in Nat /\ Head(items) \in Item
  OBVIOUS
<1>2. PICK none \in Seq(Item) : none = << >>
  <2>1. << >> \in Seq(Item)
    OBVIOUS
  <2> QED
    BY <2>1, Zenon
<1>3. SubSeq(items, 1, 1) = Append(none, Head(items))
  <2>1. /\ SubSeq(items, 1, 1) \in Seq(Item) /\ Len(SubSeq(items, 1, 1)) = 1
        /\ SubSeq(items, 1, 1)[1] = Head(items)
    BY <1>1
  <2>2. /\ Append(none, Head(items)) \in Seq(Item)
        /\ Len(Append(none, Head(items))) = 1
        /\ Append(none, Head(items))[1] = Head(items)
    BY <1>1, <1>2
  <2> HIDE DEF Item
  <2> QED
    BY <2>1, <2>2, SameSequence
<1>4. SubSeq(items, 1 + 1, Len(items)) = Tail(items)
  <2> DEFINE rest == SubSeq(items, 1 + 1, Len(items))
  <2>1. PICK n \in 0..Len(items) : n = 1
    BY <1>1
  <2>2. /\ SubSeq(items, n + 1, Len(items)) \in Seq(Item)
        /\ Len(SubSeq(items, n + 1, Len(items))) = Len(items) - n
        /\ \A i \in 1..(Len(items) - n) :
             SubSeq(items, n + 1, Len(items))[i] = items[n + i]
    BY <1>1
  <2>3. Tail(items) \in Seq(Item) /\ Len(Tail(items)) = Len(items) - 1
    BY <1>1
  <2>4. \A i \in 1..(Len(items) - 1) : Tail(items)[i] = items[i + 1]
    BY <1>1
  <2>5. Len(rest) = Len(Tail(items)) /\ rest \in Seq(Item)
    BY <2>1, <2>2, <2>3
  <2>6. \A i \in 1..Len(rest) : rest[i] = Tail(items)[i]
    BY <1>1, <2>1, <2>2, <2>4, <2>5
  <2> HIDE DEF rest, Item
  <2>7. rest = Tail(items)
    BY <2>3, <2>5, <2>6, SameSequence
  <2> QED
    BY <2>7 DEF rest
<1>5. AllDue(Append(none, Head(items))) = Join(AllDue(none), Due(Head(items)))
  BY <1>1, <1>2, DueOfLast
<1>6. AllDue(none) = << >>
  BY <1>2, DueOfNone
<1>7. Due(Head(items)) \in Seq(Nat)
  BY <1>1, DueType
<1>8. Join(<< >>, Due(Head(items))) = Due(Head(items))
  BY <1>7, EmptyNeutral
<1>9. AllDue(items) = Join(AllDue(SubSeq(items, 1, 1)),
                           AllDue(SubSeq(items, 1 + 1, Len(items))))
  BY <1>1, DueOfParts
<1> QED
  BY <1>2, <1>3, <1>4, <1>5, <1>6, <1>8, <1>9

LEMMA AnsweredParts ==
  ASSUME ServerShape
  PROVE  /\ InHand \in Seq(Nat) /\ AllDue(inbox) \in Seq(Nat)
         /\ Join(answers, InHand) \in Seq(Nat)
         /\ inHand = 0 => InHand = << >> /\ Join(answers, InHand) = answers
<1>1. InHand \in Seq(Nat) /\ answers \in Seq(Nat)
  BY DEF ServerShape, InHand
<1>2. AllDue(inbox) \in Seq(Nat)
  BY DuesShape DEF ServerShape
<1>3. Join(answers, InHand) \in Seq(Nat)
  BY <1>1 DEF Join
<1>4. inHand = 0 => InHand = << >>
  BY DEF InHand
<1>5. Join(answers, << >>) = answers
  BY <1>1, EmptyNeutral
<1> QED
  BY <1>1, <1>2, <1>3, <1>4, <1>5

LEMMA SendAnswers ==
  ASSUME ServerInv, Send
  PROVE  ServerInv'
<1>1. PICK line \in Lines :
        /\ inbox' = Append(inbox, [no |-> sent + 1, line |-> line])
        /\ owed' = owed \o Due([no |-> sent + 1, line |-> line])
  BY DEF Send
<1>2. PICK item \in Item : item = [no |-> sent + 1, line |-> line]
  <2>1. sent + 1 \in Nat \ {0}
    BY DEF ServerInv, ServerShape
  <2>2. [no |-> sent + 1, line |-> line] \in Item
    BY <2>1 DEF Item
  <2> QED
    BY <2>2, Zenon
<1>3. Due(item) \in Seq(Nat) /\ inbox \in Seq(Item) /\ owed \in Seq(Nat)
  BY DueType DEF ServerInv, ServerShape
<1>4. inbox' = Append(inbox, item) /\ owed' = Join(owed, Due(item))
  BY <1>1, <1>2 DEF Join
<1>5. inbox' \in Seq(Item) /\ owed' \in Seq(Nat)
  <2>1. Append(inbox, item) \in Seq(Item)
    BY <1>3
  <2>2. Join(owed, Due(item)) \in Seq(Nat)
    BY <1>3 DEF Join
  <2> QED
    BY <1>4, <2>1, <2>2
<1>6. ServerShape'
  BY <1>5 DEF ServerInv, ServerShape, Send
<1>7. AllDue(inbox') = Join(AllDue(inbox), Due(item))
  BY <1>3, <1>4, DueOfLast
<1>8. Join(answers, InHand)' = Join(answers, InHand)
  BY DEF Send, InHand
<1>9. Join(answers, InHand) \in Seq(Nat) /\ AllDue(inbox) \in Seq(Nat)
  BY AnsweredParts DEF ServerInv
<1>10. Join(Join(Join(answers, InHand), AllDue(inbox)), Due(item))
         = Join(Join(answers, InHand), Join(AllDue(inbox), Due(item)))
  BY <1>3, <1>9, Associative
<1>11. owed' = Answered'
  BY <1>4, <1>7, <1>8, <1>10 DEF ServerInv, Answered
<1> QED
  BY <1>6, <1>11 DEF ServerInv

\* What the line read is due moves from the pipe to the answers, or in hand.
LEMMA ReadLineAnswers ==
  ASSUME ServerInv, ReadLine
  PROVE  ServerInv'
<1>1. /\ inbox \in Seq(Item) /\ inbox # << >> /\ inHand = 0
      /\ inbox' = Tail(inbox) /\ UNCHANGED << sent, owed >>
  BY DEF ServerInv, ServerShape, ReadLine
<1>2. PICK item \in Item : item = Head(inbox)
  BY <1>1
<1>3. inbox' \in Seq(Item)
  BY <1>1
<1>4. Due(item) \in Seq(Nat) /\ AllDue(inbox') \in Seq(Nat)
  BY <1>3, DueType, DuesShape
<1>5. AllDue(inbox) = Join(Due(item), AllDue(inbox'))
  BY <1>1, <1>2, DueOfFirst
<1>6. /\ answers \in Seq(Nat) /\ Join(answers, InHand) = answers
      /\ owed = Join(answers, AllDue(inbox))
  BY <1>1, AnsweredParts DEF ServerInv, ServerShape, Answered
<1>7. owed' = Join(Join(answers, Due(item)), AllDue(inbox'))
  <2>1. Join(Join(answers, Due(item)), AllDue(inbox'))
          = Join(answers, Join(Due(item), AllDue(inbox')))
    BY <1>4, <1>6, Associative
  <2> QED
    BY <1>1, <1>5, <1>6, <2>1
<1>8. CASE RunsTool(item.line)
  <2>1. /\ inHand' = item.no /\ serverPc' = "dispatching" /\ answers' = answers
        /\ item.no \in Nat /\ item.no # 0
    BY <1>2, <1>8 DEF ReadLine, Item
  <2>2. Due(item) = << item.no >>
    BY <1>8, RespondsAsDue
  <2>3. ServerShape'
    BY <1>1, <1>3, <2>1 DEF ServerInv, ServerShape
  <2>4. InHand' = << item.no >>
    BY <2>1 DEF InHand
  <2> QED
    BY <1>7, <2>1, <2>2, <2>3, <2>4 DEF ServerInv, Answered
<1>9. CASE ~RunsTool(item.line)
  <2>1. /\ answers' = Join(answers, Due(item))
        /\ UNCHANGED << serverPc, inHand >>
    <3>1. answers' = answers \o Response(item)
          /\ UNCHANGED << serverPc, inHand >>
      BY <1>2, <1>9 DEF ReadLine
    <3> QED
      BY <3>1, RespondsAsDue DEF Join
  <2>2. answers' \in Seq(Nat)
    <3>1. Join(answers, Due(item)) \in Seq(Nat)
      BY <1>4, <1>6 DEF Join
    <3> QED
      BY <2>1, <3>1
  <2>3. ServerShape'
    BY <1>1, <1>3, <2>1, <2>2 DEF ServerInv, ServerShape
  <2>4. InHand' = << >>
    BY <1>1, <2>1 DEF InHand
  <2>5. Join(answers', << >>) = answers'
    BY <2>2, EmptyNeutral
  <2> QED
    BY <1>7, <2>1, <2>3, <2>4, <2>5 DEF ServerInv, Answered
<1> QED
  BY <1>8, <1>9

\* Cutting a sequence at the end.
LEMMA FrontStays ==
  ASSUME NEW T, NEW x \in Seq(T), NEW y \in Seq(T)
  PROVE  SubSeq(Join(x, y), 1, Len(Join(x, y)) - Len(y)) = x
<1>1. /\ Join(x, y) \in Seq(T) /\ Len(Join(x, y)) = Len(x) + Len(y)
      /\ \A i \in 1..Len(x) : Join(x, y)[i] = x[i]
  BY DEF Join
<1>2. Len(Join(x, y)) - Len(y) = Len(x) /\ Len(x) \in Nat /\ Len(y) \in Nat
  BY <1>1
<1>3. PICK z \in Seq(T) : z = Join(x, y)
  BY <1>1
<1>4. /\ SubSeq(z, 1, Len(x)) \in Seq(T) /\ Len(SubSeq(z, 1, Len(x))) = Len(x)
      /\ \A i \in 1..Len(x) : SubSeq(z, 1, Len(x))[i] = z[i]
  BY <1>1, <1>2, <1>3
<1>5. SubSeq(z, 1, Len(x)) = x
  BY <1>1, <1>3, <1>4, SameSequence
<1> QED
  BY <1>2, <1>3, <1>5

\* What a command reads is due no more.
LEMMA CommandAnswers ==
  ASSUME ServerInv, CommandReadsInput
  PROVE  ServerInv'
<1>1. PICK n \in 0..(Len(inbox) - 1) :
        /\ inbox' = SubSeq(inbox, 1, n)
        /\ owed' = SubSeq(owed, 1,
             Len(owed) - Len(AllDue(SubSeq(inbox, n + 1, Len(inbox)))))
  BY DEF CommandReadsInput
<1>2. inbox \in Seq(Item) /\ n \in 0..Len(inbox) /\ n \in Nat
  BY DEF ServerInv, ServerShape
<1>3. PICK eaten \in Seq(Item) : eaten = SubSeq(inbox, n + 1, Len(inbox))
  <2>1. SubSeq(inbox, n + 1, Len(inbox)) \in Seq(Item)
    BY <1>2
  <2> QED
    BY <2>1, Zenon
<1>4. inbox' \in Seq(Item)
  BY <1>1, <1>2
<1>5. /\ AllDue(inbox') \in Seq(Nat) /\ AllDue(eaten) \in Seq(Nat)
      /\ Join(answers, InHand) \in Seq(Nat)
  BY <1>4, DuesShape, AnsweredParts DEF ServerInv
<1>6. AllDue(inbox) = Join(AllDue(inbox'), AllDue(eaten))
  BY <1>1, <1>2, <1>3, DueOfParts
<1>7. UNCHANGED << serverPc, sent, inHand, answers >>
  BY DEF CommandReadsInput
<1>8. Join(answers, InHand)' = Join(answers, InHand)
  BY <1>7 DEF InHand
<1>9. Answered' = Join(Join(answers, InHand), AllDue(inbox'))
  BY <1>8 DEF Answered
<1>10. Answered' \in Seq(Nat)
  <2>1. Join(Join(answers, InHand), AllDue(inbox')) \in Seq(Nat)
    BY <1>5 DEF Join
  <2> QED
    BY <1>9, <2>1
<1>11. owed = Join(Answered', AllDue(eaten))
  <2>1. Join(Join(Join(answers, InHand), AllDue(inbox')), AllDue(eaten))
          = Join(Join(answers, InHand), Join(AllDue(inbox'), AllDue(eaten)))
    BY <1>5, Associative
  <2> QED
    BY <1>6, <1>9, <2>1 DEF ServerInv, Answered
<1>12. owed' = Answered'
  BY <1>1, <1>3, <1>5, <1>10, <1>11, FrontStays
<1>13. ServerShape'
  BY <1>4, <1>7, <1>10, <1>12 DEF ServerInv, ServerShape
<1> QED
  BY <1>12, <1>13 DEF ServerInv

LEMMA AnswerAnswers ==
  ASSUME ServerInv, Answer
  PROVE  ServerInv'
<1>1. UNCHANGED << sent, inbox, owed >>
  BY DEF Answer
<1>2. CASE reply[Server] = "raised"
  <2>1. serverPc' = "down" /\ UNCHANGED << inHand, answers >>
    BY <1>2 DEF Answer
  <2>2. ServerShape'
    BY <1>1, <2>1 DEF ServerInv, ServerShape
  <2>3. Answered' = Answered
    BY <1>1, <2>1 DEF Answered, InHand, AllDue
  <2> QED
    BY <1>1, <2>2, <2>3 DEF ServerInv
<1>3. CASE reply[Server] # "raised"
  <2>1. /\ serverPc' = "reading" /\ inHand' = 0
        /\ answers' = Append(answers, inHand)
    BY <1>3 DEF Answer
  <2>2. answers \in Seq(Nat) /\ inHand \in Nat /\ inHand # 0
    BY DEF ServerInv, ServerShape, Answer
  <2>3. InHand = << inHand >> /\ InHand' = << >>
    BY <2>1, <2>2 DEF InHand
  <2>4. answers' \in Seq(Nat)
    BY <2>1, <2>2
  <2>5. Append(answers, inHand) = Join(answers, << inHand >>)
    BY <2>2 DEF Join
  <2>6. Join(answers', << >>) = answers'
    BY <2>4, EmptyNeutral
  <2>7. Join(answers, InHand)' = Join(answers, InHand)
    BY <2>1, <2>3, <2>5, <2>6
  <2>8. ServerShape'
    BY <1>1, <2>1, <2>4 DEF ServerInv, ServerShape
  <2>9. AllDue(inbox)' = AllDue(inbox)
    BY <1>1
  <2> QED
    BY <1>1, <2>7, <2>8, <2>9 DEF ServerInv, Answered
<1> QED
  BY <1>2, <1>3

\* The other steps leave the exchange with the client as it is.
LEMMA IdleAnswers ==
  ASSUME ServerInv, UNCHANGED << sent, inbox, inHand, answers, owed >>,
         serverPc' \in {serverPc, "ended", "down"}
  PROVE  ServerInv'
<1>1. ServerShape'
  BY DEF ServerInv, ServerShape
<1>2. Answered' = Answered
  BY DEF Answered, InHand, AllDue
<1> QED
  BY <1>1, <1>2 DEF ServerInv

LEMMA ServerKeeps == ServerInv /\ [ServerNext]_mcpVars => ServerInv'
<1> SUFFICES ASSUME ServerInv, [ServerNext]_mcpVars
             PROVE  ServerInv'
  OBVIOUS
<1>1. CASE UNCHANGED serverVars
  BY <1>1, IdleAnswers DEF serverVars
<1>2. CASE EndOfInput \/ ServerDies
  BY <1>2, IdleAnswers DEF EndOfInput, ServerDies
<1>3. CASE Send \/ ReadLine \/ CommandReadsInput \/ Answer
  BY <1>3, SendAnswers, ReadLineAnswers, CommandAnswers, AnswerAnswers
<1>4. UNCHANGED mcpVars => UNCHANGED serverVars
  BY DEF mcpVars
<1>5. ServerNext => \/ UNCHANGED serverVars
                    \/ EndOfInput \/ ServerDies
                    \/ Send \/ ReadLine \/ CommandReadsInput \/ Answer
  BY DEF ServerNext, AgentStep
<1> QED
  BY <1>1, <1>2, <1>3, <1>4, <1>5

LEMMA ServerStarts == ServerInit => ServerInv
<1> SUFFICES ASSUME ServerInit
             PROVE  ServerInv
  OBVIOUS
<1>1. /\ serverPc = "reading" /\ sent = 0 /\ inHand = 0
      /\ inbox = << >> /\ answers = << >> /\ owed = << >>
  BY DEF ServerInit
<1>2. PICK none \in Seq(Nat) : none = << >>
  <2>1. << >> \in Seq(Nat)
    OBVIOUS
  <2> QED
    BY <2>1, Zenon
<1>3. << >> \in Seq(Item)
  OBVIOUS
<1>4. ServerShape
  BY <1>1, <1>2, <1>3 DEF ServerShape
<1>5. Join(none, none) = none
  BY <1>2, EmptyNeutral
<1>6. InHand = none /\ AllDue(inbox) = none /\ answers = none /\ owed = none
  BY <1>1, <1>2, DueOfNone DEF InHand
<1> QED
  BY <1>4, <1>5, <1>6 DEF ServerInv, Answered

(* Whatever the client sends and whatever the tools do, each request is    *)
(* answered once and in order, and no notification is: what is owed is     *)
(* what has been answered, then the call in hand, then what is in the      *)
(* pipe.                                                                   *)
THEOREM AnswersCorrect == ServerSpec => []AnsweredOnce
<1>1. ServerInv => AnsweredOnce
  BY DEF ServerInv, Answered, InHand, Join, AnsweredOnce
<1>2. ServerSpec => []ServerInv
  BY ServerStarts, ServerKeeps, PTL DEF ServerSpec
<1> QED
  BY <1>1, <1>2, PTL

=============================================================================
