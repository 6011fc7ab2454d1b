-------------------------- MODULE AgentLoopProofs --------------------------
(***************************************************************************)
(* The safety invariants of AgentLoop hold for every registry, every       *)
(* budget and every bound: types, the pairing of calls and results, the    *)
(* presence of the prompt in every request, and what hooks are told.  So   *)
(* do those of SessionReader, which replays what the loop writes, and of   *)
(* ProviderMessages, which translates the history into every request.      *)
(***************************************************************************)
EXTENDS SessionReader, ProviderMessages, CompactorProofs

-----------------------------------------------------------------------------
(* Growing a history by one message.                                       *)

LEMMA AppendShape ==
  ASSUME NEW h \in Seq(Message), NEW m \in Message
  PROVE  /\ Append(h, m) \in Seq(Message)
         /\ Len(Append(h, m)) = Len(h) + 1
         /\ Append(h, m)[Len(h) + 1] = m
         /\ \A i \in 1..Len(h) : Append(h, m)[i] = h[i]
OBVIOUS

\* A user message opens the last round, any other message leaves it open.
LEMMA AppendLastStart ==
  ASSUME NEW h \in Seq(Message), NEW m \in Message
  PROVE  /\ m.role = "user" =>
               /\ LastStart(Append(h, m)) = Len(h) + 1
               /\ Append(h, m)[LastStart(Append(h, m))] = m
         /\ m.role # "user" /\ LastStart(h) # 0 =>
               /\ LastStart(Append(h, m)) = LastStart(h)
               /\ Append(h, m)[LastStart(h)] = h[LastStart(h)]
<1> DEFINE g == Append(h, m)
<1>1. /\ g \in Seq(Message) /\ Len(g) = Len(h) + 1 /\ Len(h) \in Nat
      /\ g[Len(h) + 1] = m
      /\ \A i \in 1..Len(h) : g[i] = h[i]
  BY AppendShape
<1> HIDE DEF g
<1>2. ASSUME m.role = "user"
      PROVE  LastStart(g) = Len(h) + 1 /\ g[LastStart(g)] = m
  <2>1. Len(h) + 1 \in RoundStarts(g)
    BY <1>1, <1>2 DEF RoundStarts
  <2>2. \A j \in RoundStarts(g) : j <= Len(h) + 1
    BY <1>1 DEF RoundStarts
  <2>3. QED
    BY <1>1, <2>1, <2>2, LastStartUnique
<1>3. ASSUME m.role # "user", LastStart(h) # 0
      PROVE  LastStart(g) = LastStart(h) /\ g[LastStart(h)] = h[LastStart(h)]
  <2>1. RoundStarts(h) # {}
    BY <1>3 DEF LastStart
  <2>2. /\ LastStart(h) \in 1..Len(h)
        /\ h[LastStart(h)].role = "user"
        /\ \A j \in RoundStarts(h) : j <= LastStart(h)
    BY <2>1, LastStartIsLast DEF RoundStarts
  <2>3. RoundStarts(g) = RoundStarts(h)
    BY <1>1, <1>3 DEF RoundStarts
  <2>4. QED
    BY <1>1, <2>2, <2>3 DEF LastStart
<1>4. QED
  BY <1>2, <1>3 DEF g

\* A message that answers no call may follow a history without open calls.
LEMMA AppendPaired ==
  ASSUME NEW h \in Seq(Message), Paired(h), Settled(h),
         NEW m \in Message, m.role # "tool"
  PROVE  /\ Paired(Append(h, m))
         /\ m.role # "assistant" \/ m.calls = << >> => Settled(Append(h, m))
<1> DEFINE g == Append(h, m)
<1>1. /\ g \in Seq(Message) /\ Len(g) = Len(h) + 1 /\ Len(h) \in Nat
      /\ g[Len(h) + 1] = m
      /\ \A i \in 1..Len(h) : g[i] = h[i]
      /\ DOMAIN g = 1..(Len(h) + 1) /\ DOMAIN h = 1..Len(h)
  BY AppendShape
<1> HIDE DEF g
<1>2. \A j \in Assistants(g) : j = Len(h) + 1 \/ j \in Assistants(h)
  BY <1>1 DEF Assistants
<1>3. \A j \in Assistants(h) : /\ j \in 1..Len(h) /\ g[j] = h[j]
                               /\ j \in Assistants(g)
                               /\ Len(h[j].calls) \in Nat
                               /\ j + Len(h[j].calls) <= Len(h)
  BY <1>1, AssistantCalls DEF Assistants, Settled
<1>4. CallsAnsweredInOrder(g)
  <2> SUFFICES ASSUME NEW j \in Assistants(g), NEW k \in 1..Len(g[j].calls),
                      j + k <= Len(g)
               PROVE  g[j + k].role = "tool" /\ g[j + k].id = g[j].calls[k].id
    BY DEF CallsAnsweredInOrder
  <2>1. k \in Int /\ k >= 1
    OBVIOUS
  <2>2. j \in Assistants(h)
    BY <1>1, <1>2, <2>1
  <2>3. k <= Len(h[j].calls) /\ j + Len(h[j].calls) <= Len(h)
    BY <1>3, <2>2
  <2>4. j + k <= Len(h) /\ j + k \in 1..Len(h)
    BY <1>1, <1>3, <2>1, <2>2, <2>3
  <2>5. QED
    BY <1>1, <1>3, <2>2, <2>4 DEF Paired, CallsAnsweredInOrder
<1>5. NoOrphanResult(g)
  BY <1>1, <1>3 DEF Paired, NoOrphanResult
<1>6. ASSUME m.role # "assistant" \/ m.calls = << >>
      PROVE  Settled(g)
  BY <1>1, <1>2, <1>3, <1>6 DEF Settled, Assistants
<1>7. QED
  BY <1>4, <1>5, <1>6 DEF Paired, g

\* Only one assistant message can have calls without a result: it is the last.
LEMMA OthersSettled ==
  ASSUME NEW h \in Seq(Message), CallsAnsweredInOrder(h),
         NEW j \in Assistants(h), Len(h) < j + Len(h[j].calls),
         NEW i \in Assistants(h), i # j
  PROVE  i + Len(h[i].calls) <= Len(h)
<1>1. /\ i \in 1..Len(h) /\ Len(h[i].calls) \in Nat
      /\ j \in 1..Len(h) /\ Len(h[j].calls) \in Nat /\ Len(h) \in Nat
  BY AssistantCalls
<1>2. h[i].role = "assistant" /\ h[j].role = "assistant"
  BY DEF Assistants
<1>3. ASSUME i > j
      PROVE  FALSE
  <2>1. i - j \in 1..Len(h[j].calls) /\ j + (i - j) = i
    <3>1. \A n \in Nat : Len(h) < j + n => i - j \in 1..n /\ j + (i - j) = i
      BY <1>1, <1>3
    <3>2. QED
      BY <1>1, <3>1
  <2>2. \A k \in 1..Len(h[j].calls) : j + k <= Len(h) => h[j + k].role = "tool"
    BY DEF CallsAnsweredInOrder
  <2>3. PICK k \in 1..Len(h[j].calls) : j + k = i
    BY <2>1
  <2>4. h[i].role = "tool"
    BY <1>1, <2>2, <2>3, SMTT(30)
  <2>5. QED
    BY <1>2, <2>4
<1>4. ASSUME i < j, ~(i + Len(h[i].calls) <= Len(h))
      PROVE  FALSE
  <2>1. j - i \in 1..Len(h[i].calls) /\ i + (j - i) = j
    <3>1. \A n \in Nat : ~(i + n <= Len(h)) => j - i \in 1..n /\ i + (j - i) = j
      BY <1>1, <1>4
    <3>2. QED
      BY <1>1, <1>4, <3>1
  <2>2. \A k \in 1..Len(h[i].calls) : i + k <= Len(h) => h[i + k].role = "tool"
    BY DEF CallsAnsweredInOrder
  <2>3. PICK k \in 1..Len(h[i].calls) : i + k = j
    BY <2>1
  <2>4. h[j].role = "tool"
    BY <1>1, <2>2, <2>3, SMTT(30)
  <2>5. QED
    BY <1>2, <2>4
<1>5. QED
  BY <1>1, <1>3, <1>4

\* The message that answers the first open call, of those of message j.
LEMMA AppendResult ==
  ASSUME NEW h \in Seq(Message), Paired(h),
         NEW j \in Assistants(h), Len(h) < j + Len(h[j].calls),
         NEW m \in Message, m.role = "tool",
         m.id = h[j].calls[Len(h) - j + 1].id
  PROVE  /\ Paired(Append(h, m))
         /\ j \in Assistants(Append(h, m))
         /\ Append(h, m)[j] = h[j]
         /\ Len(h) + 1 = j + Len(h[j].calls) => Settled(Append(h, m))
<1> DEFINE g == Append(h, m)
<1>1. /\ g \in Seq(Message) /\ Len(g) = Len(h) + 1 /\ Len(h) \in Nat
      /\ g[Len(h) + 1] = m
      /\ \A i \in 1..Len(h) : g[i] = h[i]
      /\ DOMAIN g = 1..(Len(h) + 1) /\ DOMAIN h = 1..Len(h)
  BY AppendShape
<1> HIDE DEF g
<1>2. Assistants(g) = Assistants(h)
  BY <1>1 DEF Assistants
<1>3. \A i \in Assistants(h) : /\ i \in 1..Len(h) /\ g[i] = h[i]
                               /\ Len(h[i].calls) \in Nat
  BY <1>1, AssistantCalls
<1>4. \A i \in Assistants(h) : i # j => i + Len(h[i].calls) <= Len(h)
  BY OthersSettled DEF Paired
<1>5. CallsAnsweredInOrder(g)
  <2> SUFFICES ASSUME NEW i \in Assistants(g), NEW k \in 1..Len(g[i].calls),
                      i + k <= Len(g)
               PROVE  g[i + k].role = "tool" /\ g[i + k].id = g[i].calls[k].id
    BY DEF CallsAnsweredInOrder
  <2>0. i \in Assistants(h) /\ i \in 1..Len(h) /\ g[i] = h[i]
    BY <1>2, <1>3
  <2>1. k \in Int /\ i \in Int /\ k >= 1 /\ k <= Len(h[i].calls)
    BY <1>3, <2>0
  <2>2. CASE i + k <= Len(h)
    <3>1. h[i + k].role = "tool" /\ h[i + k].id = h[i].calls[k].id
      BY <2>0, <2>2 DEF Paired, CallsAnsweredInOrder
    <3>2. i + k \in 1..Len(h)
      BY <2>0, <2>1, <2>2
    <3>3. QED
      BY <1>1, <2>0, <3>1, <3>2
  <2>3. CASE ~(i + k <= Len(h))
    <3>1. i + k = Len(h) + 1
      <4>1. i + k \in Int /\ i + k <= Len(h) + 1 /\ Len(h) \in Int
        BY <1>1, <2>1
      <4>2. QED
        BY <2>3, <4>1
    <3>2. i = j
      BY <1>3, <1>4, <2>0, <2>1, <2>3
    <3>3. k = Len(h) - j + 1
      BY <1>1, <2>1, <3>1, <3>2
    <3>4. QED
      BY <1>1, <2>0, <3>1, <3>2, <3>3
  <2>4. QED
    BY <2>2, <2>3
<1>6. NoOrphanResult(g)
  <2> SUFFICES ASSUME NEW i \in DOMAIN g, g[i].role = "tool"
               PROVE  \E n \in Assistants(h) : n < i /\ i <= n + Len(h[n].calls)
    BY <1>2, <1>3 DEF NoOrphanResult
  <2>1. CASE i = Len(h) + 1
    <3>1. j < i /\ i <= j + Len(h[j].calls)
      BY <1>1, <1>3, <2>1
    <3>2. QED
      BY <3>1
  <2>2. CASE i # Len(h) + 1
    <3>1. i \in DOMAIN h /\ h[i].role = "tool"
      BY <1>1, <2>2
    <3>2. QED
      BY <3>1 DEF Paired, NoOrphanResult
  <2>3. QED
    BY <2>1, <2>2
<1>7. ASSUME Len(h) + 1 = j + Len(h[j].calls)
      PROVE  Settled(g)
  <2> SUFFICES ASSUME NEW i \in Assistants(h)
               PROVE  i + Len(h[i].calls) <= Len(h) + 1
    BY <1>1, <1>2, <1>3 DEF Settled
  <2>1. i # j => i + Len(h[i].calls) <= Len(h)
    BY <1>4
  <2>2. QED
    BY <1>1, <1>3, <1>7, <2>1
<1>8. QED
  BY <1>2, <1>3, <1>5, <1>6, <1>7 DEF Paired, g

\* The calls still to dispatch, of those of message j, one call later.
LEMMA PendingTail ==
  ASSUME NEW calls \in Seq(ToolCall), NEW n \in Nat, n >= 1,
         NEW rest, rest = SubSeq(calls, n, Len(calls)), rest # << >>
  PROVE  /\ n <= Len(calls)
         /\ Head(rest) = calls[n]
         /\ Tail(rest) = SubSeq(calls, n + 1, Len(calls))
         /\ Tail(rest) = << >> <=> n = Len(calls)
<1>1. n <= Len(calls)
  BY SubSeqEmpty
<1>2. Head(rest) = calls[n] /\ Tail(rest) = SubSeq(calls, n + 1, Len(calls))
  BY <1>1, HeadTailOfSubSeq
<1>3. Tail(rest) = << >> <=> n = Len(calls)
  <2>1. CASE n = Len(calls)
    BY <1>2, <2>1, SubSeqEmpty
  <2>2. CASE n # Len(calls)
    <3>1. n + 1 <= Len(calls) /\ \A i \in (n + 1)..Len(calls) : calls[i] \in ToolCall
      BY <1>1, <2>2
    <3>2. Len(SubSeq(calls, n + 1, Len(calls))) = Len(calls) - (n + 1) + 1
      BY <3>1, SubSeqProperties
    <3>3. Len(Tail(rest)) = Len(calls) - (n + 1) + 1 /\ Len(calls) \in Nat
      BY <1>2, <3>2
    <3>4. Len(Tail(rest)) # 0
      BY <3>1, <3>3
    <3>5. QED
      BY <2>2, <3>4
  <2>3. QED
    BY <2>1, <2>2
<1>4. QED
  BY <1>1, <1>2, <1>3

-----------------------------------------------------------------------------
(* The invariants.                                                         *)

LEMMA ConstructorTypes ==
  /\ \A size \in Nat : SystemMessage(size) \in Message
  /\ \A body, size \in Nat : UserMessage(body, size) \in Message
  /\ \A calls \in Seq(ToolCall), size \in Nat :
        AssistantMessage(calls, size) \in Message
  /\ \A id \in CallIds, body, size \in Nat :
        ToolMessage(id, body, size) \in Message
BY DEF SystemMessage, UserMessage, AssistantMessage, ToolMessage, Msg, Message,
       Roles

LEMMA CallSeqsType == CallSeqs \subseteq Seq(ToolCall)
<1>1. SUFFICES ASSUME NEW n \in 0..MaxCalls, NEW s \in [1..n -> ToolCall]
               PROVE  s \in Seq(ToolCall)
  BY DEF CallSeqs
<1>2. n \in Nat
  BY LoopAssumption
<1>3. QED
  BY <1>2

LEMMA DispatchResultsType ==
  ASSUME NEW call \in ToolCall, NEW m \in DispatchResults(call)
  PROVE  m \in Message /\ m.role = "tool" /\ m.id = call.id
<1>1. call.id \in CallIds
  BY DEF ToolCall
<1>2. \/ \E size \in ResultSizes : m = ToolMessage(call.id, Served, size)
      \/ m = ToolMessage(call.id, Refused, RefusalSize)
  BY DEF DispatchResults
<1>3. PICK body, size \in Nat : m = ToolMessage(call.id, body, size)
  BY <1>2, LoopAssumption DEF Served, Refused
<1>4. QED
  BY <1>1, <1>3, ConstructorTypes DEF ToolMessage, Msg

\* No call is pending but those of the message whose results are appended.
LEMMA DispatchStart ==
  ASSUME TypeOK, ToolPairing, pc = "dispatch"
  PROVE  /\ pending \in Seq(ToolCall) /\ pending # << >>
         /\ Head(pending) \in ToolCall /\ Tail(pending) \in Seq(ToolCall)
BY HeadTailProperties DEF TypeOK, ToolPairing

\* The inductive invariant: dispatching needs a pending call, which only the
\* pairing gives, and compaction between turns needs all calls to be settled.
LoopInv == TypeOK /\ ToolPairing /\ RequestHasPrompt

LEMMA InitHolds == Init => LoopInv
<1> SUFFICES ASSUME Init
             PROVE  LoopInv
  OBVIOUS
<1> USE DEF Init
<1>1. SystemMessage(SystemSize) \in Message
  BY ConstructorTypes, LoopAssumption
<1>2. TypeOK
  BY <1>1, LoopAssumption DEF TypeOK, Running
<1>3. history[1].role = "system" /\ DOMAIN history = {1} /\ Len(history) = 1
  BY DEF SystemMessage, Msg
<1>4. ToolPairing
  BY <1>3 DEF ToolPairing, Paired, Settled, CallsAnsweredInOrder, NoOrphanResult,
              Assistants
<1>5. RequestHasPrompt
  BY <1>3 DEF RequestHasPrompt, Running
<1>6. QED
  BY <1>2, <1>4, <1>5 DEF LoopInv

LEMMA TypeStep ==
  ASSUME LoopInv, [Next]_vars
  PROVE  TypeOK'
<1> USE DEF LoopInv, TypeOK, Running
<1>1. CASE SubmitPrompt
  <2>1. \A size \in PromptSizes : UserMessage(prompts + 1, size) \in Message
    BY ConstructorTypes, LoopAssumption
  <2>2. prompts + 1 \in 0..MaxPrompts
    BY <1>1, LoopAssumption DEF SubmitPrompt
  <2>3. RoleTools[agentRole] \in SUBSET Tools
    BY LoopAssumption
  <2>4. history' \in Seq(Message)
    BY <1>1, <2>1, AppendShape DEF SubmitPrompt
  <2>5. QED
    BY <1>1, <2>2, <2>3, <2>4, LoopAssumption DEF SubmitPrompt
<1>2. CASE SwitchRole
  BY <1>2 DEF SwitchRole
<1>3. CASE CompactCommand
  BY <1>3, CompactType DEF CompactCommand
<1>4. CASE SendRequest
  BY <1>4, CompactType DEF SendRequest
<1>5. CASE BridgeAnnounces
  BY <1>5 DEF BridgeAnnounces
<1>6. CASE ProviderFails
  BY <1>6 DEF ProviderFails
<1>7. CASE ProviderAnswers
  <2>1. PICK calls \in CallSeqs, size \in AnswerSizes :
           /\ history' = Append(history, AssistantMessage(calls, size))
           /\ pending' = calls
           /\ pc' = IF calls = << >> THEN "idle" ELSE "dispatch"
    BY <1>7 DEF ProviderAnswers
  <2>2. calls \in Seq(ToolCall) /\ AssistantMessage(calls, size) \in Message
    BY CallSeqsType, ConstructorTypes, LoopAssumption
  <2>3. header' \in ConvIds \cup {NoConv}
    BY <1>7 DEF ProviderAnswers
  <2>4. QED
    BY <1>7, <2>1, <2>2, <2>3, AppendShape DEF ProviderAnswers
<1>8. CASE DispatchCall
  <2>1. PICK m \in DispatchResults(Head(pending)) : history' = Append(history, m)
    BY <1>8 DEF DispatchCall
  <2>2. /\ Head(pending) \in ToolCall
        /\ Tail(pending) \in Seq(ToolCall)
    BY <1>8, DispatchStart DEF DispatchCall
  <2>3. m \in Message
    BY <2>2, DispatchResultsType
  <2>4. history' \in Seq(Message)
    BY <2>1, <2>3, AppendShape
  <2>5. toolHistory' \in Seq(ToolCall)
    BY <1>8, <2>2 DEF DispatchCall
  <2>6. /\ pc' \in {"idle", "turn", "dispatch"}
        /\ iteration' \in 0..MaxIterations
        /\ pc' \in {"turn", "dispatch"} => iteration' < MaxIterations
    BY <1>8, LoopAssumption, SMTT(30) DEF DispatchCall
  <2>7. QED
    BY <1>8, <2>2, <2>4, <2>5, <2>6 DEF DispatchCall
<1>9. CASE Crash
  BY <1>9 DEF Crash
<1>10. CASE Exit
  BY <1>10 DEF Exit
<1>11. CASE UNCHANGED vars
  BY <1>11 DEF vars
<1>12. QED
  BY <1>1, <1>2, <1>3, <1>4, <1>5, <1>6, <1>7, <1>8, <1>9, <1>10, <1>11
     DEF Next, LoopSteps

LEMMA PairingStep ==
  ASSUME LoopInv, [Next]_vars
  PROVE  ToolPairing'
<1> USE DEF LoopInv, ToolPairing
<1>0. history \in Seq(Message)
  BY DEF TypeOK
<1>1. CASE SubmitPrompt
  <2>1. PICK size \in PromptSizes :
           history' = Append(history, UserMessage(prompts + 1, size))
    BY <1>1 DEF SubmitPrompt
  <2>2. /\ UserMessage(prompts + 1, size) \in Message
        /\ UserMessage(prompts + 1, size).role = "user"
    BY ConstructorTypes, LoopAssumption DEF TypeOK, UserMessage, Msg
  <2>3. Paired(history') /\ Settled(history')
    BY <1>0, <1>1, <2>1, <2>2, AppendPaired DEF SubmitPrompt
  <2>4. QED
    BY <1>1, <2>3 DEF SubmitPrompt
<1>2. CASE SwitchRole
  BY <1>2 DEF SwitchRole
<1>3. CASE CompactCommand
  BY <1>0, <1>3, CompactPairing DEF CompactCommand
<1>4. CASE SendRequest
  BY <1>0, <1>4, CompactPairing DEF SendRequest
<1>5. CASE BridgeAnnounces
  BY <1>5 DEF BridgeAnnounces
<1>6. CASE ProviderFails
  BY <1>6 DEF ProviderFails
<1>7. CASE ProviderAnswers
  <2>1. PICK calls \in CallSeqs, size \in AnswerSizes :
           /\ history' = Append(history, AssistantMessage(calls, size))
           /\ pending' = calls
           /\ pc' = IF calls = << >> THEN "idle" ELSE "dispatch"
    BY <1>7 DEF ProviderAnswers
  <2> DEFINE m == AssistantMessage(calls, size)
  <2>2. /\ calls \in Seq(ToolCall) /\ m \in Message
        /\ m.role = "assistant" /\ m.calls = calls
    BY CallSeqsType, ConstructorTypes, LoopAssumption DEF AssistantMessage, Msg
  <2> HIDE DEF m
  <2>3. Paired(history')
    BY <1>0, <1>7, <2>1, <2>2, AppendPaired DEF ProviderAnswers, m
  <2>4. calls = << >> => Settled(history')
    BY <1>0, <1>7, <2>1, <2>2, AppendPaired DEF ProviderAnswers, m
  <2>5. /\ Len(history') = Len(history) + 1
        /\ history'[Len(history) + 1] = m
        /\ history' \in Seq(Message)
    BY <1>0, <2>1, <2>2, AppendShape DEF m
  <2>6. /\ Len(history') \in Assistants(history')
        /\ history'[Len(history')].calls = calls
    BY <1>0, <2>2, <2>5 DEF Assistants
  <2>7. pending' = SubSeq(calls, 1, Len(calls))
    BY <2>1, <2>2, SubSeqFull
  <2>8. Len(history') - Len(history') + 1 = 1
    BY <1>0, <2>5
  <2>9. QED
    BY <2>1, <2>3, <2>4, <2>6, <2>7, <2>8
<1>8. CASE DispatchCall
  <2>1. PICK m \in DispatchResults(Head(pending)) : history' = Append(history, m)
    BY <1>8 DEF DispatchCall
  <2>2. /\ pending \in Seq(ToolCall) /\ pending # << >>
        /\ Head(pending) \in ToolCall
    BY <1>8, DispatchStart DEF DispatchCall
  <2>3. m \in Message /\ m.role = "tool" /\ m.id = Head(pending).id
    BY <2>2, DispatchResultsType
  <2>4. PICK j \in Assistants(history) :
           pending = SubSeq(history[j].calls, Len(history) - j + 1,
                            Len(history[j].calls))
    BY <1>8 DEF DispatchCall
  <2>5. /\ j \in 1..Len(history) /\ Len(history) \in Nat
        /\ history[j].calls \in Seq(ToolCall)
        /\ Len(history[j].calls) \in Nat
    <3>1. j \in 1..Len(history) /\ history[j] \in Message
      BY <1>0 DEF Assistants
    <3>2. history[j].calls \in Seq(ToolCall)
      BY <3>1 DEF Message
    <3>3. QED
      BY <1>0, <3>1, <3>2
  <2> DEFINE n == Len(history) - j + 1
  <2>6. /\ n \in Nat /\ n >= 1 /\ n = Len(history) - j + 1
        /\ pending = SubSeq(history[j].calls, n, Len(history[j].calls))
    BY <2>4, <2>5
  <2> HIDE DEF n
  <2>7. /\ n <= Len(history[j].calls)
        /\ Head(pending) = history[j].calls[n]
        /\ Tail(pending) = SubSeq(history[j].calls, n + 1, Len(history[j].calls))
        /\ Tail(pending) = << >> <=> n = Len(history[j].calls)
    BY <2>2, <2>5, <2>6, PendingTail, ZenonT(30)
  <2>8. Len(history) < j + Len(history[j].calls)
    BY <2>5, <2>6, <2>7
  <2>9. /\ Paired(history')
        /\ j \in Assistants(history')
        /\ history'[j] = history[j]
        /\ Len(history) + 1 = j + Len(history[j].calls) => Settled(history')
    BY <1>0, <2>1, <2>3, <2>6, <2>7, <2>8, AppendResult
  <2>10. Len(history') = Len(history) + 1
    BY <1>0, <2>1, <2>3, AppendShape
  <2>11. CASE Tail(pending) = << >>
    <3>1. Len(history) + 1 = j + Len(history[j].calls)
      BY <2>5, <2>6, <2>7, <2>11
    <3>2. QED
      BY <1>8, <2>9, <2>11, <3>1 DEF DispatchCall
  <2>12. CASE Tail(pending) # << >>
    <3>1. n + 1 = Len(history') - j + 1
      BY <2>5, <2>6, <2>10
    <3>2. pending' = SubSeq(history'[j].calls, Len(history') - j + 1,
                            Len(history'[j].calls))
      BY <1>8, <2>7, <2>9, <3>1 DEF DispatchCall
    <3>3. pc' = "dispatch" /\ pending' # << >>
      BY <1>8, <2>12 DEF DispatchCall
    <3>4. QED
      BY <2>9, <3>2, <3>3
  <2>13. QED
    BY <2>11, <2>12
<1>9. CASE Crash
  BY <1>9 DEF Crash
<1>10. CASE Exit
  BY <1>10 DEF Exit
<1>11. CASE UNCHANGED vars
  BY <1>11 DEF vars
<1>12. QED
  BY <1>1, <1>2, <1>3, <1>4, <1>5, <1>6, <1>7, <1>8, <1>9, <1>10, <1>11
     DEF Next, LoopSteps

\* Any message but a prompt leaves the system prompt and the last prompt alone.
LEMMA AppendKeepsEnds ==
  ASSUME NEW h \in Seq(Message), h # << >>, NEW m \in Message
  PROVE  /\ Append(h, m) # << >> /\ Append(h, m)[1] = h[1]
         /\ m.role # "user" /\ LastStart(h) # 0 =>
               /\ LastStart(Append(h, m)) # 0
               /\ Append(h, m)[LastStart(Append(h, m))] = h[LastStart(h)]
<1>1. 1 \in 1..Len(h)
  OBVIOUS
<1>2. Append(h, m) # << >> /\ Append(h, m)[1] = h[1]
  BY <1>1, AppendShape
<1>3. ASSUME m.role # "user", LastStart(h) # 0
      PROVE  /\ LastStart(Append(h, m)) # 0
             /\ Append(h, m)[LastStart(Append(h, m))] = h[LastStart(h)]
  BY <1>3, AppendLastStart
<1>4. QED
  BY <1>2, <1>3

\* Compacting leaves them alone too.
LEMMA CompactKeepsPrompt ==
  ASSUME NEW h \in Seq(Message), h # << >>, h[1].role = "system",
         NEW g \in {Compact(h), Prune(Condense(h))}
  PROVE  /\ g # << >> /\ g[1] = h[1]
         /\ KeepRecentRounds > 0 /\ LastStart(h) # 0 =>
               LastStart(g) # 0 /\ g[LastStart(g)] = h[LastStart(h)]
<1>1. CASE g = h
  BY <1>1
<1>2. CASE g = Prune(Condense(h))
  <2>1. g \in Seq(Message) /\ g # << >> /\ g[1] = h[1]
    BY <1>2, CompactType, CompactKeepsEnds
  <2>2. ASSUME KeepRecentRounds > 0, LastStart(h) # 0
        PROVE  LastStart(g) # 0 /\ g[LastStart(g)] = h[LastStart(h)]
    <3>1. RoundStarts(h) # {}
      BY <2>2 DEF LastStart
    <3>2. RoundStarts(g) # {} /\ g[LastStart(g)] = h[LastStart(h)]
      BY <1>2, <2>2, <3>1, CompactKeepsEnds
    <3>3. LastStart(g) # 0
      BY <2>1, <3>2, LastStartIsLast DEF RoundStarts
    <3>4. QED
      BY <3>2, <3>3
  <2>3. QED
    BY <2>1, <2>2
<1>3. QED
  BY <1>1, <1>2 DEF Compact

LEMMA PromptStep ==
  ASSUME LoopInv, [Next]_vars
  PROVE  RequestHasPrompt'
<1> USE DEF RequestHasPrompt, Running
<1>0. /\ history \in Seq(Message) /\ history # << >>
      /\ history[1] = SystemMessage(SystemSize) /\ history[1].role = "system"
      /\ (pc \in {"turn", "chat", "dispatch"} /\ KeepRecentRounds > 0) =>
            LastStart(history) # 0 /\ history[LastStart(history)].body = prompts
  BY DEF LoopInv, TypeOK, SystemMessage, Msg
<1>1. CASE SubmitPrompt
  <2>1. PICK size \in PromptSizes :
           history' = Append(history, UserMessage(prompts + 1, size))
    BY <1>1 DEF SubmitPrompt
  <2> DEFINE m == UserMessage(prompts + 1, size)
  <2>2. m \in Message /\ m.role = "user" /\ m.body = prompts + 1
    <3>1. prompts + 1 \in Nat /\ size \in Nat
      BY LoopAssumption DEF LoopInv, TypeOK
    <3>2. QED
      BY <3>1, ConstructorTypes DEF UserMessage, Msg
  <2>3. history' = Append(history, m)
    BY <2>1
  <2> HIDE DEF m
  <2>4. LastStart(history') = Len(history) + 1 /\ history'[LastStart(history')] = m
    BY <1>0, <2>2, <2>3, AppendLastStart
  <2>5. history' # << >> /\ history'[1] = history[1]
    BY <1>0, <2>2, <2>3, AppendKeepsEnds
  <2>6. Len(history) + 1 # 0
    BY <1>0
  <2>7. QED
    BY <1>0, <1>1, <2>2, <2>4, <2>5, <2>6 DEF SubmitPrompt
<1>2. CASE SwitchRole
  BY <1>0, <1>2 DEF SwitchRole
<1>3. CASE CompactCommand
  BY <1>0, <1>3, CompactKeepsPrompt DEF CompactCommand
<1>4. CASE SendRequest
  BY <1>0, <1>4, CompactKeepsPrompt DEF SendRequest
<1>5. CASE BridgeAnnounces
  BY <1>0, <1>5 DEF BridgeAnnounces
<1>6. CASE ProviderFails
  BY <1>0, <1>6 DEF ProviderFails
<1>7. CASE ProviderAnswers
  <2>1. PICK calls \in CallSeqs, size \in AnswerSizes :
           history' = Append(history, AssistantMessage(calls, size))
    BY <1>7 DEF ProviderAnswers
  <2> DEFINE m == AssistantMessage(calls, size)
  <2>2. m \in Message /\ m.role = "assistant"
    BY CallSeqsType, ConstructorTypes, LoopAssumption DEF AssistantMessage, Msg
  <2>3. history' = Append(history, m)
    BY <2>1
  <2> HIDE DEF m
  <2>4. QED
    BY <1>0, <1>7, <2>2, <2>3, AppendKeepsEnds DEF ProviderAnswers
<1>8. CASE DispatchCall
  <2>1. PICK m \in DispatchResults(Head(pending)) : history' = Append(history, m)
    BY <1>8 DEF DispatchCall
  <2>2. Head(pending) \in ToolCall
    BY <1>8, DispatchStart DEF DispatchCall, LoopInv
  <2>3. m \in Message /\ m.role = "tool"
    BY <2>2, DispatchResultsType
  <2>4. QED
    BY <1>0, <1>8, <2>1, <2>3, AppendKeepsEnds DEF DispatchCall
<1>9. CASE Crash
  BY <1>0, <1>9 DEF Crash
<1>10. CASE Exit
  BY <1>0, <1>10 DEF Exit
<1>11. CASE UNCHANGED vars
  BY <1>0, <1>11 DEF vars
<1>12. QED
  BY <1>1, <1>2, <1>3, <1>4, <1>5, <1>6, <1>7, <1>8, <1>9, <1>10, <1>11
     DEF Next, LoopSteps

\* The inductive invariant, from which the theorems below follow.
THEOREM LoopInvariant == Spec => []LoopInv
<1>1. LoopInv /\ [Next]_vars => LoopInv'
  BY TypeStep, PairingStep, PromptStep DEF LoopInv
<1>2. QED
  BY InitHolds, <1>1, PTL DEF Spec

\* Every variable keeps its type; the run never exceeds its iteration cap.
THEOREM TypeCorrect == Spec => []TypeOK
<1>1. LoopInv => TypeOK
  BY DEF LoopInv
<1>2. QED
  BY <1>1, LoopInvariant, PTL

\* Whatever the providers ask for, the registry refuses, the compactor removes
\* and the user does, the calls without a result are those still to dispatch.
THEOREM PairingCorrect == Spec => []ToolPairing
<1>1. LoopInv => ToolPairing
  BY DEF LoopInv
<1>2. QED
  BY <1>1, LoopInvariant, PTL

\* A request holds the system prompt and the prompt it is made for, if at least
\* one recent round is kept.
THEOREM PromptCorrect == Spec => []RequestHasPrompt
<1>1. LoopInv => RequestHasPrompt
  BY DEF LoopInv
<1>2. QED
  BY <1>1, LoopInvariant, PTL

-----------------------------------------------------------------------------
(* The round in hand.                                                      *)

Begins(r, q) == SubSeq(q, 1, Len(r)) = r

\* A round has grown if it is the same, or has one message more.
LEMMA RoundGrown ==
  ASSUME NEW r \in Seq(Message), NEW m \in Message
  PROVE  Begins(r, r) /\ Begins(r, Append(r, m))
<1>1. Len(r) \in Nat /\ Append(r, m) \in Seq(Message) /\ Len(Append(r, m)) = Len(r) + 1
  OBVIOUS
<1>2. \A i \in 1..Len(r) : Append(r, m)[i] = r[i]
  OBVIOUS
<1>3. /\ SubSeq(r, 1, Len(r)) \in Seq(Message)
      /\ Len(SubSeq(r, 1, Len(r))) = Len(r)
      /\ \A i \in 1..Len(r) : SubSeq(r, 1, Len(r))[i] = r[i]
  <2>1. \A i \in 1..Len(r) : r[i] \in Message
    OBVIOUS
  <2>2. QED
    BY <1>1, <2>1, SubSeqProperties
<1>4. /\ SubSeq(Append(r, m), 1, Len(r)) \in Seq(Message)
      /\ Len(SubSeq(Append(r, m), 1, Len(r))) = Len(r)
      /\ \A i \in 1..Len(r) : SubSeq(Append(r, m), 1, Len(r))[i] = r[i]
  <2>1. \A i \in 1..Len(r) : Append(r, m)[i] \in Message
    BY <1>2
  <2>2. QED
    BY <1>1, <1>2, <2>1, SubSeqProperties
<1>5. QED
  BY <1>3, <1>4, SameSequence DEF Begins

\* A message that is no prompt comes to the end of the last round.
LEMMA AppendLastRound ==
  ASSUME NEW h \in Seq(Message), RoundStarts(h) # {},
         NEW m \in Message, m.role # "user"
  PROVE  Begins(From(h, LastStart(h)), From(Append(h, m), LastStart(Append(h, m))))
<1> DEFINE g == Append(h, m)
           u == LastStart(h)
<1>1. u \in 1..Len(h)
  BY LastStartIsLast DEF RoundStarts
<1>2. LastStart(g) = u
  BY <1>1, AppendLastStart
<1>3. /\ g \in Seq(Message) /\ Len(g) = Len(h) + 1 /\ Len(h) \in Nat
      /\ g[Len(h) + 1] = m
      /\ \A i \in 1..Len(h) : g[i] = h[i]
  BY AppendShape
<1> HIDE DEF g, u
<1>4. /\ From(h, u) \in Seq(Message) /\ Len(From(h, u)) = Len(h) + 1 - u
      /\ \A i \in 1..(Len(h) + 1 - u) : From(h, u)[i] = h[u + i - 1]
  BY <1>1, FromShape
<1>5. /\ From(g, u) \in Seq(Message) /\ Len(From(g, u)) = Len(g) + 1 - u
      /\ \A i \in 1..(Len(g) + 1 - u) : From(g, u)[i] = g[u + i - 1]
  <2>1. u \in 1..(Len(g) + 1)
    BY <1>1, <1>3
  <2>2. QED
    BY <1>3, <2>1, FromShape
<1>6. /\ SubSeq(From(g, u), 1, Len(From(h, u))) \in Seq(Message)
      /\ Len(SubSeq(From(g, u), 1, Len(From(h, u)))) = Len(From(h, u))
      /\ \A i \in 1..Len(From(h, u)) :
            SubSeq(From(g, u), 1, Len(From(h, u)))[i] = From(g, u)[i]
  <2>1. \A i \in 1..Len(From(h, u)) : From(g, u)[i] \in Message
    BY <1>1, <1>3, <1>4, <1>5
  <2>2. Len(From(h, u)) \in Nat /\ 1 \in Nat
    BY <1>4
  <2>3. QED
    BY <1>4, <1>5, <2>1, <2>2, SubSeqProperties
<1>7. \A i \in 1..Len(From(h, u)) : From(g, u)[i] = From(h, u)[i]
  <2> TAKE i \in 1..Len(From(h, u))
  <2>1. /\ i \in 1..(Len(h) + 1 - u) /\ i \in 1..(Len(g) + 1 - u)
        /\ u + i - 1 \in 1..Len(h)
    BY <1>1, <1>3, <1>4
  <2>2. QED
    BY <1>3, <1>4, <1>5, <2>1
<1>8. SubSeq(From(g, u), 1, Len(From(h, u))) = From(h, u)
  BY <1>4, <1>6, <1>7, SameSequence
<1>9. QED
  BY <1>2, <1>8 DEF Begins, g, u

\* No step rewrites the round in hand.
LEMMA RoundStep ==
  ASSUME LoopInv, [Next]_vars, prompts' = prompts, KeepRecentRounds > 0,
         RoundStarts(history) # {}
  PROVE  Begins(LastRound, LastRound')
<1>1. /\ history \in Seq(Message) /\ LastRound \in Seq(Message) /\ prompts \in Nat
  <2>1. history \in Seq(Message) /\ prompts \in Nat
    BY LoopAssumption DEF LoopInv, TypeOK
  <2>2. LastStart(history) \in 1..(Len(history) + 1)
    BY <2>1, LastStartIsLast DEF RoundStarts
  <2>3. QED
    BY <2>1, <2>2, FromShape DEF LastRound
<1>2. LastRound' = LastRound => Begins(LastRound, LastRound')
  BY <1>1, RoundGrown, ConstructorTypes, LoopAssumption DEF Begins
<1>3. CASE history' = history
  BY <1>2, <1>3 DEF LastRound
<1>4. CASE history' = Compact(history) \/ history' = Prune(Condense(history))
  <2>1. From(Prune(Condense(history)), LastStart(Prune(Condense(history))))
          = From(history, LastStart(history))
    BY <1>1, CompactKeepsLastRound
  <2>2. LastRound' = LastRound
    BY <1>4, <2>1 DEF LastRound, Compact
  <2>3. QED
    BY <1>2, <2>2
<1>5. CASE SubmitPrompt
  BY <1>1, <1>5 DEF SubmitPrompt
<1>6. CASE ProviderAnswers
  <2>1. PICK calls \in CallSeqs, size \in AnswerSizes :
           history' = Append(history, AssistantMessage(calls, size))
    BY <1>6 DEF ProviderAnswers
  <2> DEFINE m == AssistantMessage(calls, size)
  <2>2. m \in Message /\ m.role = "assistant"
    BY CallSeqsType, ConstructorTypes, LoopAssumption DEF AssistantMessage, Msg
  <2> HIDE DEF m
  <2>3. history' = Append(history, m)
    BY <2>1 DEF m
  <2>4. QED
    BY <1>1, <2>2, <2>3, AppendLastRound DEF LastRound
<1>7. CASE DispatchCall
  <2>1. PICK m \in DispatchResults(Head(pending)) : history' = Append(history, m)
    BY <1>7 DEF DispatchCall
  <2>2. Head(pending) \in ToolCall
    BY <1>7, DispatchStart DEF DispatchCall, LoopInv
  <2>3. m \in Message /\ m.role = "tool"
    BY <2>2, DispatchResultsType
  <2>4. QED
    BY <1>1, <2>1, <2>3, AppendLastRound DEF LastRound
<1>8. QED
  BY <1>3, <1>4, <1>5, <1>6, <1>7
  DEF Next, LoopSteps, SwitchRole, CompactCommand, SendRequest, BridgeAnnounces,
      ProviderFails, Crash, Exit, vars

\* The task in hand is never rewritten, whatever is compacted while it runs
\* (loop.run, /compact), if at least one recent round is kept.
THEOREM RoundCorrect == Spec => LastRoundOnlyGrows
<1>1. ASSUME LoopInv, [Next]_vars
      PROVE  [(prompts' = prompts /\ KeepRecentRounds > 0 /\ RoundStarts(history) # {})
                => SubSeq(LastRound', 1, Len(LastRound)) = LastRound]_vars
  BY <1>1, RoundStep DEF Begins
<1>2. QED
  BY <1>1, LoopInvariant, PTL DEF Spec, LastRoundOnlyGrows

\* A run never goes back: every step of loop.run that does not end it uses up
\* an iteration, a part of one or a pending call, for any cap and any answers.
THEOREM ProgressCorrect == Spec => RunProgresses
<1> DEFINE state == << pc, history, iteration, pending, toolHistory >>
           Progress ==
             \/ ~Running'
             \/ iteration' = iteration + 1
             \/ /\ iteration' = iteration
                /\ \/ Ahead' < Ahead
                   \/ Ahead' = Ahead /\ Len(pending') < Len(pending)
<1>1. ASSUME LoopInv, [Next]_vars
      PROVE  [Running => Progress]_state
  <2> SUFFICES ASSUME Running, state' # state, Running'
               PROVE  \/ iteration' = iteration + 1
                      \/ /\ iteration' = iteration
                         /\ \/ Ahead' < Ahead
                            \/ Ahead' = Ahead /\ Len(pending') < Len(pending)
    OBVIOUS
  <2>1. CASE SubmitPrompt \/ SwitchRole \/ CompactCommand \/ Exit
    BY <2>1 DEF SubmitPrompt, SwitchRole, CompactCommand, Exit, Running
  <2>2. CASE SendRequest
    BY <2>2 DEF SendRequest, Ahead
  <2>3. CASE ProviderFails
    BY <2>3 DEF ProviderFails, Running
  <2>4. CASE ProviderAnswers
    <3>1. pc = "chat" /\ pc' = "dispatch" /\ UNCHANGED iteration
      BY <2>4 DEF ProviderAnswers, Running
    <3> QED
      BY <3>1 DEF Ahead
  <2>5. CASE DispatchCall
    <3>1. CASE Tail(pending) # << >>
      <4>1. pc = "dispatch" /\ UNCHANGED << pc, iteration >> /\ pending' = Tail(pending)
        BY <2>5, <3>1 DEF DispatchCall
      <4>2. pending \in Seq(ToolCall) /\ pending # << >>
        BY <1>1, <4>1 DEF LoopInv, TypeOK, ToolPairing
      <4>3. Len(pending') < Len(pending)
        BY <4>1, <4>2
      <4> QED
        BY <4>1, <4>3 DEF Ahead
    <3>2. CASE Tail(pending) = << >>
      BY <2>5, <3>2 DEF DispatchCall
    <3> QED
      BY <3>1, <3>2
  <2>6. CASE BridgeAnnounces
    BY <2>6 DEF BridgeAnnounces
  <2>7. CASE Crash
    BY <2>7 DEF Crash, Running
  <2>8. CASE UNCHANGED vars
    BY <2>8 DEF vars
  <2> QED
    BY <1>1, <2>1, <2>2, <2>3, <2>4, <2>5, <2>6, <2>7, <2>8 DEF Next, LoopSteps
<1>2. QED
  BY <1>1, LoopInvariant, PTL DEF Spec, RunProgresses

-----------------------------------------------------------------------------
(* What a prompt has cost.                                                 *)

\* A message that is no prompt is appended to the last round.
LEMMA AppendRound ==
  ASSUME NEW h \in Seq(Message), RoundStarts(h) # {},
         NEW m \in Message, m.role # "user"
  PROVE  /\ From(h, LastStart(h)) \in Seq(Message)
         /\ From(Append(h, m), LastStart(Append(h, m))) = Append(From(h, LastStart(h)), m)
         /\ RoundStarts(Append(h, m)) # {}
<1> DEFINE g == Append(h, m)
           u == LastStart(h)
           r == From(h, u)
           s == Append(r, m)
<1>1. u \in 1..Len(h) /\ u \in RoundStarts(h)
  BY LastStartIsLast DEF RoundStarts
<1>2. LastStart(g) = u
  BY <1>1, AppendLastStart
<1>3. /\ g \in Seq(Message) /\ Len(g) = Len(h) + 1 /\ Len(h) \in Nat
      /\ g[Len(h) + 1] = m
      /\ \A i \in 1..Len(h) : g[i] = h[i]
  BY AppendShape
<1>4. RoundStarts(g) # {}
  BY <1>1, <1>3 DEF RoundStarts
<1> HIDE DEF g, u
<1>5. /\ r \in Seq(Message) /\ Len(r) = Len(h) + 1 - u
      /\ \A i \in 1..(Len(h) + 1 - u) : r[i] = h[u + i - 1]
  BY <1>1, FromShape
<1>6. /\ From(g, u) \in Seq(Message) /\ Len(From(g, u)) = Len(g) + 1 - u
      /\ \A i \in 1..(Len(g) + 1 - u) : From(g, u)[i] = g[u + i - 1]
  <2>1. u \in 1..(Len(g) + 1)
    BY <1>1, <1>3
  <2> QED
    BY <1>3, <2>1, FromShape
<1> HIDE DEF r
<1>7. /\ s \in Seq(Message) /\ Len(s) = Len(r) + 1 /\ s[Len(r) + 1] = m
      /\ \A i \in 1..Len(r) : s[i] = r[i]
  BY <1>5, AppendShape
<1> HIDE DEF s
<1>8. Len(s) = Len(From(g, u))
  BY <1>1, <1>3, <1>5, <1>6, <1>7
<1>9. \A i \in 1..Len(s) : s[i] = From(g, u)[i]
  <2> TAKE i \in 1..Len(s)
  <2>1. CASE i \in 1..Len(r)
    <3>1. /\ i \in 1..(Len(h) + 1 - u) /\ i \in 1..(Len(g) + 1 - u)
          /\ u + i - 1 \in 1..Len(h)
      BY <1>1, <1>3, <1>5, <2>1
    <3> QED
      BY <1>3, <1>5, <1>6, <1>7, <2>1, <3>1
  <2>2. CASE i = Len(r) + 1
    <3>1. i \in 1..(Len(g) + 1 - u) /\ u + i - 1 = Len(h) + 1
      BY <1>1, <1>3, <1>5, <2>2
    <3> QED
      BY <1>3, <1>6, <1>7, <2>2, <3>1
  <2> QED
    BY <1>5, <1>7, <2>1, <2>2
<1>10. s = From(g, u)
  BY <1>6, <1>7, <1>8, <1>9, SameSequence
<1> QED
  BY <1>2, <1>4, <1>5, <1>10 DEF g, u, r, s

\* One more message in a round: what it adds to the answers and the results.
LEMMA RoundCounts ==
  ASSUME NEW r \in Seq(Message), NEW m \in Message
  PROVE  /\ IsFiniteSet(Assistants(r)) /\ Cardinality(Assistants(r)) \in Nat
         /\ IsFiniteSet(Results(r)) /\ Cardinality(Results(r)) \in Nat
         /\ Cardinality(Assistants(Append(r, m))) =
              IF m.role = "assistant" THEN Cardinality(Assistants(r)) + 1
                                      ELSE Cardinality(Assistants(r))
         /\ Cardinality(Results(Append(r, m))) =
              IF m.role = "tool" THEN Cardinality(Results(r)) + 1
                                 ELSE Cardinality(Results(r))
<1> DEFINE g == Append(r, m)
           l == Len(r) + 1
<1>1. /\ g \in Seq(Message) /\ Len(g) = l /\ Len(r) \in Nat /\ g[l] = m
      /\ \A i \in 1..Len(r) : g[i] = r[i]
      /\ DOMAIN g = 1..l /\ DOMAIN r = 1..Len(r) /\ l \notin 1..Len(r)
      /\ 1..l = 1..Len(r) \cup {l}
  BY AppendShape
<1> HIDE DEF g, l
<1>2. IsFiniteSet(1..Len(r))
  BY <1>1, FS_Interval
<1>3. IsFiniteSet(Assistants(r)) /\ IsFiniteSet(Results(r))
  <2>1. Assistants(r) \subseteq 1..Len(r) /\ Results(r) \subseteq 1..Len(r)
    BY <1>1 DEF Assistants, Results
  <2> QED
    BY <1>2, <2>1, FS_Subset
<1>4. Cardinality(Assistants(r)) \in Nat /\ Cardinality(Results(r)) \in Nat
  BY <1>3, FS_CardinalityType
<1>5. l \notin Assistants(r) /\ l \notin Results(r)
  BY <1>1 DEF Assistants, Results
<1>6. Assistants(g) = IF m.role = "assistant" THEN Assistants(r) \cup {l} ELSE Assistants(r)
  BY <1>1 DEF Assistants
<1>7. Results(g) = IF m.role = "tool" THEN Results(r) \cup {l} ELSE Results(r)
  BY <1>1 DEF Results
<1>8. /\ Cardinality(Assistants(r) \cup {l}) = Cardinality(Assistants(r)) + 1
      /\ Cardinality(Results(r) \cup {l}) = Cardinality(Results(r)) + 1
  BY <1>3, <1>5, FS_AddElement
<1> QED
  BY <1>3, <1>4, <1>6, <1>7, <1>8 DEF g

\* The results up to one of them: as many as that one's place among them says,
\* and no message behind it changes that.
LEMMA PlaceOfResult ==
  ASSUME NEW r \in Seq(Message), NEW m \in Message
  PROVE  /\ \A i \in Results(r) :
               /\ ResultsUpTo(r, i) \in 1..Cardinality(Results(r))
               /\ ResultsUpTo(Append(r, m), i) = ResultsUpTo(r, i)
         /\ m.role = "tool" =>
               ResultsUpTo(Append(r, m), Len(r) + 1) = Cardinality(Results(r)) + 1
<1> DEFINE g == Append(r, m)
           l == Len(r) + 1
<1>1. /\ g \in Seq(Message) /\ Len(g) = l /\ Len(r) \in Nat /\ g[l] = m
      /\ \A i \in 1..Len(r) : g[i] = r[i]
      /\ DOMAIN g = 1..l /\ DOMAIN r = 1..Len(r)
  BY AppendShape
<1>2. /\ IsFiniteSet(Results(r)) /\ Cardinality(Results(r)) \in Nat
      /\ m.role = "tool" => Cardinality(Results(g)) = Cardinality(Results(r)) + 1
  BY RoundCounts
<1>3. l \in Nat
  BY <1>1
<1> HIDE DEF g, l
<1>4. ASSUME NEW i \in Results(r)
      PROVE  /\ ResultsUpTo(r, i) \in 1..Cardinality(Results(r))
             /\ ResultsUpTo(g, i) = ResultsUpTo(r, i)
  <2> DEFINE U == {j \in Results(r) : j <= i}
  <2>1. i \in 1..Len(r) /\ i \in U /\ U \subseteq Results(r)
    BY <1>1 DEF Results
  <2>2. IsFiniteSet(U) /\ Cardinality(U) <= Cardinality(Results(r))
    BY <1>2, <2>1, FS_Subset
  <2>3. Cardinality(U) \in Nat /\ Cardinality(U) # 0
    BY <2>1, <2>2, FS_CardinalityType, FS_EmptySet
  <2>4. {j \in Results(g) : j <= i} = U
    <3>1. \A j \in 1..l : j <= i => j \in 1..Len(r)
      BY <1>1, <1>3, <2>1
    <3>2. \A j \in 1..Len(r) : j \in 1..l
      BY <1>1 DEF l
    <3> QED
      BY <1>1, <3>1, <3>2 DEF Results
  <2> HIDE DEF U
  <2>5. Cardinality(U) \in 1..Cardinality(Results(r))
    BY <1>2, <2>2, <2>3
  <2> QED
    BY <2>4, <2>5 DEF ResultsUpTo, U
<1>5. ASSUME m.role = "tool"
      PROVE  ResultsUpTo(g, l) = Cardinality(Results(r)) + 1
  <2>1. {j \in Results(g) : j <= l} = Results(g)
    BY <1>1, <1>3 DEF Results
  <2> QED
    BY <1>2, <1>5, <2>1 DEF ResultsUpTo
<1> QED
  BY <1>4, <1>5 DEF g, l

\* The result of one more call, at the end of the round and of the calls.
LEMMA ResultAppended ==
  ASSUME NEW r \in Seq(Message), NEW calls \in Seq(ToolCall), NEW names,
         ResultsMatch(r, calls, names), NEW m \in Message,
         NEW call \in ToolCall, m.role = "tool", m.id = call.id,
         m.body = Refused <=> call.name \notin names
  PROVE  ResultsMatch(Append(r, m), Append(calls, call), names)
<1> DEFINE g == Append(r, m)
           l == Len(r) + 1
           n == Cardinality(Results(r))
           c == Append(calls, call)
<1>1. /\ g \in Seq(Message) /\ Len(g) = l /\ Len(r) \in Nat /\ g[l] = m
      /\ \A i \in 1..Len(r) : g[i] = r[i]
      /\ DOMAIN g = 1..l /\ DOMAIN r = 1..Len(r)
      /\ \A i \in 1..l : i = l \/ i \in 1..Len(r)
  BY AppendShape
<1>2. /\ n \in Nat
      /\ Cardinality(Results(g)) = n + 1
  BY RoundCounts
<1>3. n = Len(calls)
  BY DEF ResultsMatch
<1>4. /\ Len(c) = n + 1 /\ c[n + 1] = call
      /\ \A k \in 1..n : c[k] = calls[k]
  BY <1>3
<1>5. /\ \A i \in Results(r) : ResultsUpTo(r, i) \in 1..n
                               /\ ResultsUpTo(g, i) = ResultsUpTo(r, i)
      /\ ResultsUpTo(g, l) = n + 1
  BY PlaceOfResult
<1> HIDE DEF g, l, n, c
<1>6. \A i \in Results(g) : i \in Results(r) \/ i = l
  BY <1>1 DEF Results
<1>7. \A i \in Results(r) : g[i] = r[i]
  BY <1>1 DEF Results
<1>8. \A i \in Results(r) :
         /\ r[i].id = calls[ResultsUpTo(r, i)].id
         /\ r[i].body = Refused <=> calls[ResultsUpTo(r, i)].name \notin names
  BY DEF ResultsMatch
<1>9. \A i \in Results(r) : c[ResultsUpTo(g, i)] = calls[ResultsUpTo(r, i)]
  BY <1>4, <1>5
<1>10. c[ResultsUpTo(g, l)] = call /\ g[l] = m
  BY <1>1, <1>4, <1>5
<1>11. ASSUME NEW i \in Results(g)
       PROVE  /\ g[i].id = c[ResultsUpTo(g, i)].id
              /\ g[i].body = Refused <=> c[ResultsUpTo(g, i)].name \notin names
  <2>1. CASE i \in Results(r)
    BY <1>7, <1>8, <1>9, <2>1
  <2>2. CASE i = l
    BY <1>10, <2>2
  <2> QED
    BY <1>6, <2>1, <2>2
<1>12. Cardinality(Results(g)) = Len(c)
  BY <1>2, <1>4
<1> QED
  BY <1>11, <1>12 DEF ResultsMatch, g, c

\* A message that is no result changes none of them.
LEMMA AppendedOther ==
  ASSUME NEW r \in Seq(Message), NEW calls \in Seq(ToolCall), NEW names,
         ResultsMatch(r, calls, names), NEW m \in Message, m.role # "tool"
  PROVE  ResultsMatch(Append(r, m), calls, names)
<1> DEFINE g == Append(r, m)
<1>1. /\ g \in Seq(Message) /\ Len(r) \in Nat /\ g[Len(r) + 1] = m
      /\ \A i \in 1..Len(r) : g[i] = r[i]
      /\ DOMAIN g = 1..(Len(r) + 1) /\ DOMAIN r = 1..Len(r)
  BY AppendShape
<1>2. Cardinality(Results(g)) = Cardinality(Results(r))
  BY RoundCounts
<1>3. \A i \in Results(r) : ResultsUpTo(g, i) = ResultsUpTo(r, i)
  BY PlaceOfResult
<1> HIDE DEF g
<1>4. \A i \in Results(g) : i \in Results(r) /\ g[i] = r[i]
  BY <1>1 DEF Results
<1> QED
  BY <1>2, <1>3, <1>4 DEF ResultsMatch, g

\* A compacted history has no round if the history had none.
LEMMA CompactAddsNoRound ==
  ASSUME NEW h \in Seq(Message), NEW p, p \in {Compact(h), Prune(Condense(h))},
         RoundStarts(p) # {}
  PROVE  RoundStarts(h) # {}
<1>1. CASE p = h
  BY <1>1
<1>2. CASE p = Prune(Condense(h))
  <2> DEFINE g == Condense(h)
             L == Len(Lead(g))
             s == Cut(g) - 1 - L
  <2>1. /\ g \in Seq(Message) /\ Len(g) = Len(h) /\ DOMAIN h = 1..Len(h)
        /\ \A i \in 1..Len(h) : g[i].role = h[i].role
    BY CondenseShape
  <2>2. p \in Seq(Message) /\ SuffixOf(p, g, Cut(g), L, s)
    BY <1>2, <2>1, PruneIsSuffix
  <2>3. Len(g) \in Nat /\ L \in {0, 1} /\ Cut(g) \in 1..(Len(g) + 1)
    BY <2>1, PruneShape, CutStartsRound
  <2>4. s \in Int /\ L \in Int
    BY <2>3
  <2>5. PICK i \in 1..Len(p) : p[i].role = "user"
    BY <2>2 DEF RoundStarts
  <2> HIDE DEF g, L, s
  <2>6. i > L /\ Len(p) = Len(g) - s
    BY <2>2, <2>5, <2>4 DEF SuffixOf
  <2>7. p[i] = g[i + s]
    BY <2>2, <2>4, <2>5, <2>6, SMTT(30) DEF SuffixOf
  <2>8. i + s \in 1..Len(g)
    BY <2>3, <2>4, <2>5, <2>6 DEF s
  <2>9. i + s \in DOMAIN h /\ h[i + s].role = "user"
    BY <2>1, <2>5, <2>7, <2>8
  <2> QED
    BY <2>9 DEF RoundStarts
<1> QED
  BY <1>1, <1>2 DEF Compact

\* A run is offered the tools of the active role, which only changes between
\* runs, and the answers of a prompt are counted while its results come in.
CountersInv ==
  /\ Running => offered = RoleTools[agentRole]
  /\ (RoundStarts(history) # {} /\ KeepRecentRounds > 0) =>
       /\ ResultsMatch(LastRound, toolHistory, offered)
       /\ Cardinality(Assistants(LastRound)) <= MaxIterations
       /\ pc \in {"turn", "chat"} =>
            Cardinality(Assistants(LastRound)) = iteration
       /\ pc = "dispatch" =>
            Cardinality(Assistants(LastRound)) = iteration + 1

\* A new prompt is a round of its own, without answers and without results.
LEMMA FreshRound ==
  ASSUME NEW h \in Seq(Message), NEW m \in Message, m.role = "user", NEW names
  PROVE  LET r == From(Append(h, m), LastStart(Append(h, m)))
         IN  ResultsMatch(r, << >>, names) /\ Cardinality(Assistants(r)) = 0
<1> DEFINE g == Append(h, m)
           l == Len(h) + 1
           r == From(g, l)
<1>1. g \in Seq(Message) /\ Len(g) = l /\ g[l] = m /\ l \in 1..(Len(g) + 1)
  BY AppendShape
<1>2. LastStart(g) = l
  BY AppendLastStart
<1>3. /\ r \in Seq(Message) /\ Len(r) = Len(g) + 1 - l
      /\ \A i \in 1..(Len(g) + 1 - l) : r[i] = g[l + i - 1]
  BY <1>1, FromShape
<1> HIDE DEF g, l, r
<1>4. Len(r) = 1 /\ r[1] = m /\ DOMAIN r = {1}
  BY <1>1, <1>3
<1>5. Assistants(r) = {} /\ Results(r) = {}
  BY <1>4 DEF Assistants, Results
<1>6. Cardinality(Assistants(r)) = 0 /\ ResultsMatch(r, << >>, names)
  BY <1>5, FS_EmptySet DEF ResultsMatch
<1> QED
  BY <1>2, <1>6 DEF g, r

\* The round in hand as it is when an answer or a result has come.
LEMMA LastRoundAppended ==
  ASSUME TypeOK, RoundStarts(history) # {},
         NEW m \in Message, m.role # "user", history' = Append(history, m)
  PROVE  /\ LastRound \in Seq(Message) /\ LastRound' = Append(LastRound, m)
         /\ RoundStarts(history') # {}
BY AppendRound DEF TypeOK, LastRound

LEMMA CountersInit == Init => CountersInv
<1> SUFFICES ASSUME Init
             PROVE  CountersInv
  OBVIOUS
<1>1. history[1].role = "system" /\ DOMAIN history = {1}
  BY DEF Init, SystemMessage, Msg
<1>2. RoundStarts(history) = {}
  BY <1>1 DEF RoundStarts
<1> QED
  BY <1>2 DEF CountersInv, Init, Running

LEMMA CountersStep ==
  ASSUME LoopInv, CountersInv, [Next]_vars
  PROVE  CountersInv'
<1>0. /\ TypeOK /\ TypeOK' /\ history \in Seq(Message) /\ toolHistory \in Seq(ToolCall)
      /\ iteration \in Nat /\ MaxIterations \in Nat
      /\ (Running /\ KeepRecentRounds > 0) => RoundStarts(history) # {}
      /\ Running => offered = RoleTools[agentRole] /\ iteration < MaxIterations
  <2>1. (Running /\ KeepRecentRounds > 0) => RoundStarts(history) # {}
    BY DEF LoopInv, RequestHasPrompt, LastStart
  <2> QED
    BY <2>1, TypeStep, LoopAssumption DEF LoopInv, TypeOK, CountersInv
<1>1. CASE SubmitPrompt
  <2>1. PICK size \in PromptSizes :
           history' = Append(history, UserMessage(prompts + 1, size))
    BY <1>1 DEF SubmitPrompt
  <2> DEFINE m == UserMessage(prompts + 1, size)
  <2>2. m \in Message /\ m.role = "user"
    <3>1. prompts + 1 \in Nat /\ size \in Nat
      BY <1>0, LoopAssumption DEF TypeOK
    <3> QED
      BY <3>1, ConstructorTypes DEF UserMessage, Msg
  <2>3. history' = Append(history, m)
    BY <2>1 DEF m
  <2> HIDE DEF m
  <2>4. /\ ResultsMatch(LastRound', << >>, offered')
        /\ Cardinality(Assistants(LastRound')) = 0
    BY <1>0, <2>2, <2>3, FreshRound DEF LastRound
  <2> QED
    BY <1>0, <1>1, <2>4 DEF SubmitPrompt, CountersInv, Running
<1>2. CASE history' = history /\ UNCHANGED << toolHistory, offered, iteration >>
           /\ (pc' = pc \/ pc' \notin {"turn", "chat", "dispatch"})
           /\ (Running => agentRole' = agentRole)
  BY <1>2 DEF CountersInv, LastRound, Running
<1>3. CASE SendRequest \/ CompactCommand
  <2>1. history' \in {Compact(history), Prune(Condense(history))}
    BY <1>3 DEF SendRequest, CompactCommand
  <2>2. ASSUME RoundStarts(history') # {}, KeepRecentRounds > 0
        PROVE  LastRound' = LastRound /\ RoundStarts(history) # {}
    <3>1. RoundStarts(history) # {}
      BY <1>0, <2>1, <2>2, CompactAddsNoRound
    <3>2. From(Prune(Condense(history)), LastStart(Prune(Condense(history))))
            = From(history, LastStart(history))
      BY <1>0, <2>2, <3>1, CompactKeepsLastRound
    <3> QED
      BY <2>1, <3>1, <3>2 DEF LastRound, Compact
  <2>3. /\ UNCHANGED << toolHistory, offered, iteration, agentRole >>
        /\ \/ pc = "turn" /\ pc' = "chat"
           \/ pc = "idle" /\ pc' = "idle"
    BY <1>3 DEF SendRequest, CompactCommand
  <2> QED
    BY <2>2, <2>3 DEF CountersInv, Running
<1>4. CASE ProviderAnswers
  <2>1. PICK calls \in CallSeqs, size \in AnswerSizes :
           /\ history' = Append(history, AssistantMessage(calls, size))
           /\ pc' = IF calls = << >> THEN "idle" ELSE "dispatch"
    BY <1>4 DEF ProviderAnswers
  <2> DEFINE m == AssistantMessage(calls, size)
  <2>2. m \in Message /\ m.role = "assistant"
    BY CallSeqsType, ConstructorTypes, LoopAssumption DEF AssistantMessage, Msg
  <2>3. history' = Append(history, m)
    BY <2>1 DEF m
  <2> HIDE DEF m
  <2>4. /\ UNCHANGED << toolHistory, offered, iteration, agentRole >>
        /\ pc = "chat" /\ pc' \in {"idle", "dispatch"}
    BY <1>4, <2>1 DEF ProviderAnswers
  <2>5. ASSUME KeepRecentRounds > 0
        PROVE  /\ ResultsMatch(LastRound', toolHistory, offered)
               /\ Cardinality(Assistants(LastRound')) = iteration + 1
    <3>1. RoundStarts(history) # {}
      BY <1>0, <2>4, <2>5 DEF Running
    <3>2. /\ LastRound \in Seq(Message) /\ LastRound' = Append(LastRound, m)
      BY <1>0, <2>2, <2>3, <3>1, LastRoundAppended
    <3>3. /\ ResultsMatch(LastRound, toolHistory, offered)
          /\ Cardinality(Assistants(LastRound)) = iteration
      BY <2>4, <2>5, <3>1 DEF CountersInv
    <3>4. Cardinality(Assistants(LastRound')) = iteration + 1
      BY <2>2, <3>2, <3>3, RoundCounts
    <3>5. ResultsMatch(LastRound', toolHistory, offered)
      BY <1>0, <2>2, <3>2, <3>3, AppendedOther
    <3> QED
      BY <3>4, <3>5
  <2>6. iteration + 1 <= MaxIterations
    BY <1>0, <2>4 DEF Running
  <2> QED
    BY <1>0, <2>4, <2>5, <2>6 DEF CountersInv, Running
<1>5. CASE DispatchCall
  <2>1. PICK m \in DispatchResults(Head(pending)) : history' = Append(history, m)
    BY <1>5 DEF DispatchCall
  <2>2. Head(pending) \in ToolCall /\ pc = "dispatch"
    BY <1>5, DispatchStart DEF DispatchCall, LoopInv
  <2>3. m \in Message /\ m.role = "tool" /\ m.id = Head(pending).id
    BY <2>2, DispatchResultsType
  <2>4. m.body = Refused <=> Head(pending).name \notin RoleTools[agentRole]
    <3>1. CASE Head(pending).name \in RoleTools[agentRole]
      <4>1. PICK size \in ResultSizes : m = ToolMessage(Head(pending).id, Served, size)
        BY <3>1 DEF DispatchResults
      <4>2. m.body = Served
        BY <4>1 DEF ToolMessage, Msg
      <4> QED
        BY <3>1, <4>2 DEF Served, Refused
    <3>2. CASE Head(pending).name \notin RoleTools[agentRole]
      BY <3>2 DEF DispatchResults, ToolMessage, Msg
    <3> QED
      BY <3>1, <3>2
  <2>5. /\ toolHistory' = Append(toolHistory, Head(pending))
        /\ UNCHANGED << agentRole, offered >>
        /\ \/ pc' = "dispatch" /\ iteration' = iteration
           \/ pc' \in {"idle", "turn"} /\ iteration' = iteration + 1
    BY <1>5, <2>2 DEF DispatchCall
  <2>6. ASSUME KeepRecentRounds > 0
        PROVE  /\ ResultsMatch(LastRound', toolHistory', offered')
               /\ Cardinality(Assistants(LastRound')) = iteration + 1
    <3>1. RoundStarts(history) # {}
      BY <1>0, <2>2, <2>6 DEF Running
    <3>2. LastRound \in Seq(Message) /\ LastRound' = Append(LastRound, m)
      BY <1>0, <2>1, <2>3, <3>1, LastRoundAppended
    <3>3. /\ ResultsMatch(LastRound, toolHistory, offered)
          /\ Cardinality(Assistants(LastRound)) = iteration + 1
      BY <2>2, <2>6, <3>1 DEF CountersInv
    <3>4. Cardinality(Assistants(LastRound')) = iteration + 1
      BY <2>3, <3>2, <3>3, RoundCounts
    <3>5. m.body = Refused <=> Head(pending).name \notin offered
      BY <1>0, <2>2, <2>4 DEF Running
    <3>6. ResultsMatch(LastRound', toolHistory', offered)
      BY <1>0, <2>2, <2>3, <2>5, <3>2, <3>3, <3>5, ResultAppended
    <3> QED
      BY <2>5, <3>4, <3>6
  <2>7. iteration + 1 <= MaxIterations
    BY <1>0, <2>2 DEF Running
  <2> QED
    BY <1>0, <2>2, <2>5, <2>6, <2>7 DEF CountersInv, Running
<1> QED
  BY <1>1, <1>2, <1>3, <1>4, <1>5
  DEF Next, LoopSteps, SwitchRole, BridgeAnnounces, ProviderFails, Crash, Exit,
      vars, Running

\* What a prompt has cost is what its round shows (loop.run, run_tool_loop,
\* HookContext.tool_history): the answers in it are the iterations counted,
\* never more than the cap, and its results are those of the calls that hooks
\* see, in their order, refused exactly where the role was not offered the tool.
THEOREM CountersCorrect == Spec => []RoundMatchesCounters
<1>1. LoopInv /\ CountersInv /\ [Next]_vars => CountersInv'
  BY CountersStep
<1>2. CountersInv => RoundMatchesCounters
  BY DEF CountersInv, RoundMatchesCounters
<1> QED
  BY CountersInit, LoopInvariant, <1>1, <1>2, PTL DEF Spec

-----------------------------------------------------------------------------
(* Replaying the log.                                                      *)

LEMMA Slice ==
  ASSUME NEW T, NEW s \in Seq(T), NEW a \in 1..(Len(s) + 1), NEW b \in Nat,
         b <= Len(s), a <= b + 1
  PROVE  /\ SubSeq(s, a, b) \in Seq(T)
         /\ Len(SubSeq(s, a, b)) = b + 1 - a
         /\ \A i \in 1..(b + 1 - a) : SubSeq(s, a, b)[i] = s[a + i - 1]
<1>1. \A i \in a..b : s[i] \in T
  OBVIOUS
<1>2. a \in Int /\ b \in Int /\ b - a + 1 = b + 1 - a
  OBVIOUS
<1>3. b + 1 - a = IF a <= b THEN b - a + 1 ELSE 0
  OBVIOUS
<1> QED
  BY <1>1, <1>2, <1>3, SubSeqProperties

\* A set of naturals with a bound has a greatest member.
LEMMA Greatest ==
  ASSUME NEW n \in Nat, NEW S, S \subseteq 1..n, S # {}
  PROVE  Max(S) \in S /\ \A y \in S : Max(S) >= y
<1> DEFINE D == {n - x : x \in S}
<1>0. \A x \in S : x \in 1..n /\ n - x \in Nat
  OBVIOUS
<1>1. D \subseteq Nat /\ D # {}
  BY <1>0
<1>2. \E x \in D : \A y \in D : x <= y
  BY <1>1, LeastNatural
<1>3. PICK i \in S : \A y \in D : n - i <= y
  BY <1>2
<1>4. ASSUME NEW j \in S
      PROVE  i >= j
  <2>1. n - i <= n - j
    BY <1>3
  <2> QED
    BY <2>1
<1> QED
  BY <1>4 DEF Max

LEMMA ExtendShape ==
  ASSUME NEW T, NEW s \in Seq(T), NEW m \in T
  PROVE  /\ Extend(s, m) \in Seq(T) /\ Len(Extend(s, m)) >= Len(s)
         /\ ToSet(s) \subseteq ToSet(Extend(s, m)) /\ m \in ToSet(Extend(s, m))
<1>1. CASE s # << >> /\ Last(s) = m
  <2>1. Extend(s, m) = s
    BY <1>1 DEF Extend
  <2>2. Len(s) \in 1..Len(s)
    BY <1>1
  <2>3. m \in ToSet(s)
    BY <1>1, <2>2 DEF ToSet, Last
  <2> QED
    BY <2>1, <2>3
<1>2. CASE ~(s # << >> /\ Last(s) = m)
  <2> DEFINE t == Append(s, m)
  <2>1. Extend(s, m) = t
    BY <1>2 DEF Extend
  <2>2. /\ t \in Seq(T) /\ Len(t) = Len(s) + 1 /\ t[Len(s) + 1] = m
        /\ \A i \in 1..Len(s) : t[i] = s[i] /\ i \in 1..(Len(s) + 1)
        /\ Len(s) \in Nat /\ DOMAIN t = 1..(Len(s) + 1) /\ DOMAIN s = 1..Len(s)
    OBVIOUS
  <2> HIDE DEF t
  <2>3. ToSet(s) \subseteq ToSet(t)
    BY <2>2 DEF ToSet
  <2>4. m \in ToSet(t)
    <3>1. Len(s) + 1 \in 1..(Len(s) + 1)
      BY <2>2
    <3> QED
      BY <2>2, <3>1 DEF ToSet
  <2> QED
    BY <2>1, <2>2, <2>3, <2>4
<1> QED
  BY <1>1, <1>2

\* AppendTail through its partial results.
TailParts(f, base, incoming) ==
  /\ f[0] = base
  /\ \A i \in 1..Len(incoming) : f[i] = Extend(f[i - 1], incoming[i])

LEMMA AppendTailParts ==
  ASSUME NEW T, NEW base \in Seq(T), NEW incoming \in Seq(T)
  PROVE  \E f \in [0..Len(incoming) -> Seq(T)] :
            TailParts(f, base, incoming) /\ AppendTail(base, incoming) = f[Len(incoming)]
<1> DEFINE n == Len(incoming)
           G == [p \in (1..n) \X Seq(T) |-> Extend(p[2], incoming[p[1]])]
           Body(g, i) == IF i = 0 THEN base ELSE Extend(g[i - 1], incoming[i])
           It == CHOOSE g : g = [i \in 0..n |-> Body(g, i)]
<1>1. n \in Nat /\ \A i \in 1..n : incoming[i] \in T
  OBVIOUS
<1>2. AppendTail(base, incoming) = It[n]
  BY DEF AppendTail
<1> HIDE DEF n
<1>3. \A i \in 1..n, t \in Seq(T) :
         G[<< i, t >>] = Extend(t, incoming[i]) /\ Extend(t, incoming[i]) \in Seq(T)
  BY <1>1, ExtendShape
<1>4. G \in [(1..n) \X Seq(T) -> Seq(T)]
  BY <1>3
<1> HIDE DEF G
<1>5. PICK f \in [0..n -> Seq(T)] : Iteration(f, n, base, G)
  <2> DEFINE TT == Seq(T)
  <2>1. base \in TT /\ G \in [(1..n) \X TT -> TT]
    BY <1>4
  <2> HIDE DEF TT
  <2>2. \E f \in [0..n -> TT] : Iteration(f, n, base, G)
    BY <1>1, <2>1, Iterates
  <2> QED
    BY <2>2 DEF TT
<1>6. f[0] = base /\ \A i \in 1..n : f[i] = Extend(f[i - 1], incoming[i])
  <2>1. \A i \in 1..n : i - 1 \in 0..n
    BY <1>1
  <2> QED
    BY <1>3, <1>5, <2>1 DEF Iteration
<1>7. \A i \in 0..n : f[i] = Body(f, i)
  <2>1. \A i \in 0..n : i = 0 \/ i \in 1..n
    BY <1>1
  <2>2. \A i \in 1..n : i # 0
    BY <1>1
  <2> QED
    BY <1>6, <2>1, <2>2
<1>8. f = [i \in 0..n |-> Body(f, i)]
  BY <1>7
<1>9. It = [i \in 0..n |-> Body(It, i)]
  BY <1>8
<1> HIDE DEF It
<1>10. \A i \in 0..n : It[i] = Body(It, i)
  BY <1>9
<1> DEFINE N == {i \in Nat : i <= n => It[i] = f[i]}
<1>11. 0 \in N
  BY <1>1, <1>6, <1>10
<1>12. ASSUME NEW i \in Nat, i \in N
       PROVE  i + 1 \in N
  <2> SUFFICES ASSUME i + 1 <= n
               PROVE  It[i + 1] = f[i + 1]
    OBVIOUS
  <2>1. i + 1 \in 0..n /\ i + 1 \in 1..n /\ i + 1 # 0 /\ (i + 1) - 1 = i /\ i <= n
    BY <1>1
  <2>2. It[i + 1] = Extend(It[i], incoming[i + 1])
    BY <1>10, <2>1
  <2>3. f[i + 1] = Extend(f[i], incoming[i + 1])
    BY <1>6, <2>1
  <2> QED
    BY <1>12, <2>1, <2>2, <2>3
<1> HIDE DEF N
<1>13. n \in N
  BY <1>1, <1>11, <1>12, NaturalInduction
<1>14. It[n] = f[n]
  BY <1>1, <1>13 DEF N
<1> QED
  BY <1>2, <1>6, <1>14 DEF TailParts, n

\* What is appended contains both sequences; nothing and one message.
LEMMA AppendTailShape ==
  ASSUME NEW T, NEW base \in Seq(T), NEW incoming \in Seq(T)
  PROVE  /\ AppendTail(base, incoming) \in Seq(T)
         /\ Len(AppendTail(base, incoming)) >= Len(base)
         /\ ToSet(base) \cup ToSet(incoming) \subseteq ToSet(AppendTail(base, incoming))
         /\ Len(incoming) = 0 => AppendTail(base, incoming) = base
         /\ Len(incoming) = 1 => AppendTail(base, incoming) = Extend(base, incoming[1])
<1> DEFINE n == Len(incoming)
<1>1. PICK f \in [0..n -> Seq(T)] :
         TailParts(f, base, incoming) /\ AppendTail(base, incoming) = f[n]
  BY AppendTailParts
<1>2. n \in Nat /\ \A i \in 1..n : incoming[i] \in T
  OBVIOUS
<1>3. f[0] = base /\ \A i \in 1..n : f[i] = Extend(f[i - 1], incoming[i])
  BY <1>1 DEF TailParts
<1>4. \A x \in ToSet(incoming) : \E i \in 1..n : x = incoming[i]
  BY DEF ToSet
<1> HIDE DEF n
<1> DEFINE Holds(i) == /\ Len(f[i]) >= Len(base)
                       /\ ToSet(base) \subseteq ToSet(f[i])
                       /\ \A k \in 1..i : incoming[k] \in ToSet(f[i])
           N == {i \in Nat : i <= n => Holds(i)}
<1>5. 0 \in N
  <2>1. \A k \in 1..0 : FALSE
    OBVIOUS
  <2>2. Len(base) >= Len(base)
    OBVIOUS
  <2> QED
    BY <1>3, <2>1, <2>2
<1>6. ASSUME NEW i \in Nat, i \in N
      PROVE  i + 1 \in N
  <2> SUFFICES ASSUME i + 1 <= n
               PROVE  Holds(i + 1)
    OBVIOUS
  <2>1. /\ i \in 0..n /\ i <= n /\ i + 1 \in 1..n /\ (i + 1) - 1 = i
        /\ \A k \in 1..(i + 1) : k \in 1..i \/ k = i + 1
    BY <1>2
  <2>2. f[i + 1] = Extend(f[i], incoming[i + 1])
    BY <1>3, <2>1
  <2>3. f[i] \in Seq(T) /\ incoming[i + 1] \in T
    BY <1>1, <1>2, <2>1
  <2>4. /\ f[i + 1] \in Seq(T) /\ Len(f[i + 1]) >= Len(f[i])
        /\ ToSet(f[i]) \subseteq ToSet(f[i + 1])
        /\ incoming[i + 1] \in ToSet(f[i + 1])
    <3>1. PICK y \in Seq(T), m \in T : y = f[i] /\ m = incoming[i + 1]
      BY <2>3
    <3>2. /\ Extend(y, m) \in Seq(T) /\ Len(Extend(y, m)) >= Len(y)
          /\ ToSet(y) \subseteq ToSet(Extend(y, m)) /\ m \in ToSet(Extend(y, m))
      BY ExtendShape
    <3>3. f[i + 1] = Extend(y, m)
      BY <2>2, <3>1
    <3> QED
      BY <3>1, <3>2, <3>3
  <2>5. /\ Len(f[i]) >= Len(base) /\ ToSet(base) \subseteq ToSet(f[i])
        /\ \A k \in 1..i : incoming[k] \in ToSet(f[i])
    BY <1>6, <2>1
  <2>6. Len(f[i + 1]) >= Len(base)
    <3>1. Len(f[i + 1]) \in Nat /\ Len(f[i]) \in Nat /\ Len(base) \in Nat
      BY <2>3, <2>4
    <3> QED
      BY <2>4, <2>5, <3>1
  <2> QED
    BY <2>1, <2>4, <2>5, <2>6
<1>7. n \in N
  <2> HIDE DEF N
  <2> QED
    BY <1>2, <1>5, <1>6, NaturalInduction
<1>8. /\ Len(f[n]) >= Len(base) /\ ToSet(base) \subseteq ToSet(f[n])
      /\ \A k \in 1..n : incoming[k] \in ToSet(f[n])
  BY <1>2, <1>7
<1>9. ASSUME n = 1
      PROVE  f[n] = Extend(base, incoming[1])
  <2>1. 1 \in 1..n /\ 1 - 1 = 0
    BY <1>9
  <2> QED
    BY <1>3, <1>9, <2>1
<1>10. f[n] \in Seq(T) /\ (n = 0 => f[n] = base)
  BY <1>1, <1>2, <1>3
<1> QED
  BY <1>1, <1>4, <1>8, <1>9, <1>10 DEF n

\* The longest common prefix, and the rest of the incoming messages.
LEMMA BeyondCovers ==
  ASSUME NEW T, NEW current \in Seq(T), NEW incoming \in Seq(T),
         NEW n \in 1..Len(incoming),
         NEW s \in Seq(T), ToSet(SubSeq(incoming, 1, n)) \subseteq ToSet(s),
         ToSet(Beyond(incoming, n)) \subseteq ToSet(s)
  PROVE  ToSet(incoming) \subseteq ToSet(s)
<1>1. Len(incoming) \in Nat /\ n \in Nat /\ n <= Len(incoming)
  OBVIOUS
<1>2. /\ Len(SubSeq(incoming, 1, n)) = n
      /\ SubSeq(incoming, 1, n) \in Seq(T)
      /\ \A i \in 1..n : SubSeq(incoming, 1, n)[i] = incoming[i]
  <2>1. n + 1 - 1 = n /\ \A i \in 1..n : 1 + i - 1 = i
    BY <1>1
  <2>2. 1 \in 1..(Len(incoming) + 1) /\ 1 <= n + 1
    BY <1>1
  <2> QED
    BY <1>1, <2>1, <2>2, Slice
<1>3. /\ Beyond(incoming, n) \in Seq(T)
      /\ Len(Beyond(incoming, n)) = Len(incoming) - n
      /\ \A i \in 1..(Len(incoming) - n) : Beyond(incoming, n)[i] = incoming[n + i]
  <2>1. /\ n + 1 \in 1..(Len(incoming) + 1) /\ n + 1 <= Len(incoming) + 1
        /\ Len(incoming) + 1 - (n + 1) = Len(incoming) - n
        /\ \A i \in 1..(Len(incoming) - n) : (n + 1) + i - 1 = n + i
    BY <1>1
  <2> QED
    BY <1>1, <2>1, Slice DEF Beyond
<1>4. ASSUME NEW i \in 1..Len(incoming)
      PROVE  incoming[i] \in ToSet(s)
  <2>1. CASE i <= n
    <3>1. i \in DOMAIN SubSeq(incoming, 1, n) /\ SubSeq(incoming, 1, n)[i] = incoming[i]
      BY <1>1, <1>2, <2>1
    <3> QED
      BY <3>1 DEF ToSet
  <2>2. CASE ~(i <= n)
    <3>1. i - n \in 1..(Len(incoming) - n) /\ n + (i - n) = i
      BY <1>1, <2>2
    <3>2. i - n \in DOMAIN Beyond(incoming, n) /\ Beyond(incoming, n)[i - n] = incoming[i]
      BY <1>3, <3>1
    <3> QED
      BY <3>2 DEF ToSet
  <2> QED
    BY <2>1, <2>2
<1> QED
  BY <1>4 DEF ToSet

LEMMA BeyondType ==
  ASSUME NEW T, NEW s \in Seq(T), NEW n \in 0..Len(s)
  PROVE  /\ Beyond(s, n) \in Seq(T)
         /\ Len(Beyond(s, n)) = Len(s) - n
         /\ \A i \in 1..(Len(s) - n) : Beyond(s, n)[i] = s[n + i]
<1>1. /\ n + 1 \in 1..(Len(s) + 1) /\ n + 1 <= Len(s) + 1
      /\ Len(s) + 1 - (n + 1) = Len(s) - n /\ Len(s) \in Nat /\ Len(s) <= Len(s)
      /\ \A i \in 1..(Len(s) - n) : (n + 1) + i - 1 = n + i
  OBVIOUS
<1> QED
  BY <1>1, Slice DEF Beyond

\* A part of a sequence has no members of its own.
LEMMA PartOf ==
  ASSUME NEW T, NEW s \in Seq(T), NEW a \in 1..(Len(s) + 1), NEW b \in Nat,
         b <= Len(s), a <= b + 1
  PROVE  ToSet(SubSeq(s, a, b)) \subseteq ToSet(s)
<1>1. /\ Len(SubSeq(s, a, b)) = b + 1 - a /\ SubSeq(s, a, b) \in Seq(T)
      /\ \A i \in 1..(b + 1 - a) : SubSeq(s, a, b)[i] = s[a + i - 1]
  BY Slice
<1>2. DOMAIN SubSeq(s, a, b) = 1..(b + 1 - a) /\ DOMAIN s = 1..Len(s)
  BY <1>1
<1>3. \A i \in 1..(b + 1 - a) : a + i - 1 \in 1..Len(s)
  OBVIOUS
<1> QED
  BY <1>1, <1>2, <1>3 DEF ToSet

LEMMA ConcatMembers ==
  ASSUME NEW T, NEW s \in Seq(T), NEW t \in Seq(T)
  PROVE  /\ s \o t \in Seq(T)
         /\ ToSet(s) \subseteq ToSet(s \o t) /\ ToSet(t) \subseteq ToSet(s \o t)
<1>1. /\ s \o t \in Seq(T) /\ Len(s \o t) = Len(s) + Len(t)
      /\ Len(s) \in Nat /\ Len(t) \in Nat
      /\ DOMAIN s = 1..Len(s) /\ DOMAIN t = 1..Len(t)
      /\ DOMAIN (s \o t) = 1..(Len(s) + Len(t))
  OBVIOUS
<1>2. \A i \in 1..Len(s) : (s \o t)[i] = s[i]
  OBVIOUS
<1>3. ASSUME NEW i \in 1..Len(t)
      PROVE  (s \o t)[Len(s) + i] = t[i]
  <2>1. Len(s) + i > Len(s) /\ (Len(s) + i) - Len(s) = i
    BY <1>1
  <2> QED
    BY <1>1, <2>1
<1>4. \A i \in 1..Len(s) : i \in 1..(Len(s) + Len(t))
  BY <1>1
<1>5. \A i \in 1..Len(t) : Len(s) + i \in 1..(Len(s) + Len(t))
  BY <1>1
<1> QED
  BY <1>1, <1>2, <1>3, <1>4, <1>5 DEF ToSet

\* A merge has the messages of both sequences.
LEMMA MergeKeepsBoth ==
  ASSUME NEW T, NEW current \in Seq(T), NEW incoming \in Seq(T)
  PROVE  /\ Merge(current, incoming) \in Seq(T)
         /\ ToSet(current) \cup ToSet(incoming) \subseteq ToSet(Merge(current, incoming))
<1> DEFINE M == Merge(current, incoming)
<1>0. Len(current) \in Nat /\ Len(incoming) \in Nat
  OBVIOUS
<1>1. CASE current = << >>
  <2>1. M = incoming
    BY <1>1 DEF Merge
  <2>2. ToSet(current) = {}
    BY <1>1 DEF ToSet
  <2> QED
    BY <2>1, <2>2
<1>2. CASE current # << >> /\ incoming = << >>
  <2>1. M = current
    BY <1>2 DEF Merge
  <2>2. ToSet(incoming) = {}
    BY <1>2 DEF ToSet
  <2> QED
    BY <2>1, <2>2
<1>3. CASE current # << >> /\ incoming # << >> /\ CommonPrefix(current, incoming) # {}
  <2>1. PICK n \in CommonPrefix(current, incoming) :
           M = AppendTail(current, Beyond(incoming, n))
    <3>1. CommonPrefix(current, incoming) \subseteq 1..Len(current)
      BY DEF CommonPrefix
    <3>2. Max(CommonPrefix(current, incoming)) \in CommonPrefix(current, incoming)
      BY <1>0, <1>3, <3>1, Greatest
    <3> QED
      BY <1>3, <3>2 DEF Merge
  <2>2. n \in 1..Len(current) /\ n <= Len(incoming)
    BY DEF CommonPrefix
  <2>3. /\ n \in 1..Len(current) /\ n \in 1..Len(incoming)
        /\ SubSeq(current, 1, n) = SubSeq(incoming, 1, n)
    <3>1. SubSeq(current, 1, n) = SubSeq(incoming, 1, n)
      BY Zenon DEF CommonPrefix
    <3> QED
      BY <1>0, <2>2, <3>1
  <2> HIDE DEF M
  <2>4. Beyond(incoming, n) \in Seq(T)
    BY <2>3, BeyondType
  <2>5. /\ M \in Seq(T) /\ ToSet(current) \subseteq ToSet(M)
        /\ ToSet(Beyond(incoming, n)) \subseteq ToSet(M)
    BY <2>1, <2>4, AppendTailShape
  <2>6. ToSet(SubSeq(incoming, 1, n)) \subseteq ToSet(current)
    <3>1. /\ 1 \in 1..(Len(current) + 1) /\ n \in Nat
          /\ n <= Len(current) /\ 1 <= n + 1
      BY <1>0, <2>2
    <3>2. ToSet(SubSeq(current, 1, n)) \subseteq ToSet(current)
      BY <3>1, PartOf
    <3> QED
      BY <2>3, <3>2
  <2>7. ToSet(SubSeq(incoming, 1, n)) \subseteq ToSet(M)
    BY <2>5, <2>6
  <2>8. ToSet(incoming) \subseteq ToSet(M)
    BY <2>3, <2>5, <2>7, BeyondCovers
  <2> QED
    BY <2>5, <2>8 DEF M
<1>4. CASE /\ current # << >> /\ incoming # << >> /\ CommonPrefix(current, incoming) = {}
           /\ Overlaps(current, incoming) # {}
  <2>0. PICK n \in Overlaps(current, incoming) : M = current \o Beyond(incoming, n)
    <3>1. Overlaps(current, incoming) \subseteq 1..Len(current)
      BY DEF Overlaps
    <3>2. Max(Overlaps(current, incoming)) \in Overlaps(current, incoming)
      BY <1>0, <1>4, <3>1, Greatest
    <3> QED
      BY <1>4, <3>2 DEF Merge
  <2> DEFINE B == Beyond(incoming, n)
  <2>1. M = current \o B
    BY <2>0
  <2>2. n \in 1..Len(current) /\ n <= Len(incoming)
    BY DEF Overlaps
  <2>3. /\ n \in 1..Len(current) /\ n \in 1..Len(incoming)
        /\ SubSeq(current, Len(current) - n + 1, Len(current)) = SubSeq(incoming, 1, n)
    <3>1. SubSeq(current, Len(current) - n + 1, Len(current)) = SubSeq(incoming, 1, n)
      BY Zenon DEF Overlaps
    <3> QED
      BY <1>0, <2>2, <3>1
  <2> HIDE DEF M
  <2>4. B \in Seq(T)
    BY <2>3, BeyondType
  <2> HIDE DEF B
  <2>5. /\ M \in Seq(T) /\ ToSet(current) \subseteq ToSet(M)
        /\ ToSet(B) \subseteq ToSet(M)
    BY <2>1, <2>4, ConcatMembers
  <2>6. ToSet(SubSeq(incoming, 1, n)) \subseteq ToSet(current)
    <3>1. /\ Len(current) - n + 1 \in 1..(Len(current) + 1)
          /\ Len(current) \in Nat /\ Len(current) <= Len(current)
          /\ Len(current) - n + 1 <= Len(current) + 1
      BY <1>0, <2>3
    <3> QED
      BY <2>3, <3>1, PartOf
  <2>7. ToSet(SubSeq(incoming, 1, n)) \subseteq ToSet(M)
    BY <2>5, <2>6
  <2>8. ToSet(incoming) \subseteq ToSet(M)
    BY <2>3, <2>5, <2>7, BeyondCovers DEF B
  <2> QED
    BY <2>5, <2>8 DEF M
<1>5. CASE /\ current # << >> /\ incoming # << >> /\ CommonPrefix(current, incoming) = {}
           /\ Overlaps(current, incoming) = {}
  <2>1. M = AppendTail(current, incoming)
    BY <1>5 DEF Merge
  <2> QED
    BY <2>1, AppendTailShape
<1> QED
  BY <1>1, <1>2, <1>3, <1>4, <1>5

\* Replay through its partial results.
ReplayParts(f, events) ==
  /\ f[0] = << >>
  /\ \A i \in 1..Len(events) : f[i] = Merge(f[i - 1], events[i])

LEMMA ReplaysInParts ==
  ASSUME NEW T, NEW events \in Seq(Seq(T))
  PROVE  \E f \in [0..Len(events) -> Seq(T)] :
            ReplayParts(f, events) /\ Replay(events) = f[Len(events)]
<1> DEFINE n == Len(events)
           G == [p \in (1..n) \X Seq(T) |-> Merge(p[2], events[p[1]])]
           Body(g, i) == IF i = 0 THEN << >> ELSE Merge(g[i - 1], events[i])
           It == CHOOSE g : g = [i \in 0..n |-> Body(g, i)]
<1>1. n \in Nat /\ \A i \in 1..n : events[i] \in Seq(T)
  OBVIOUS
<1>2. Replay(events) = It[n]
  BY DEF Replay
<1> HIDE DEF n
<1>3. \A i \in 1..n, t \in Seq(T) :
         G[<< i, t >>] = Merge(t, events[i]) /\ Merge(t, events[i]) \in Seq(T)
  BY <1>1, MergeKeepsBoth
<1>4. G \in [(1..n) \X Seq(T) -> Seq(T)]
  BY <1>3
<1> HIDE DEF G
<1>5. PICK f \in [0..n -> Seq(T)] : f[0] = << >> /\ \A i \in 1..n : f[i] = G[<< i, f[i - 1] >>]
  <2> DEFINE TT == Seq(T)
             b == << >>
  <2>1. b \in TT /\ G \in [(1..n) \X TT -> TT]
    BY <1>4
  <2> HIDE DEF TT, b
  <2>2. \E f \in [0..n -> TT] : Iteration(f, n, b, G)
    BY <1>1, <2>1, Iterates
  <2> QED
    BY <2>2 DEF TT, b, Iteration
<1>6. f[0] = << >> /\ \A i \in 1..n : f[i] = Merge(f[i - 1], events[i])
  <2>1. \A i \in 1..n : i - 1 \in 0..n
    BY <1>1
  <2> QED
    BY <1>3, <1>5, <2>1
<1>7. \A i \in 0..n : f[i] = Body(f, i)
  <2>1. \A i \in 0..n : i = 0 \/ i \in 1..n
    BY <1>1
  <2>2. \A i \in 1..n : i # 0
    BY <1>1
  <2> QED
    BY <1>6, <2>1, <2>2
<1>8. f = [i \in 0..n |-> Body(f, i)]
  BY <1>7
<1>9. It = [i \in 0..n |-> Body(It, i)]
  BY <1>8
<1> HIDE DEF It
<1>10. \A i \in 0..n : It[i] = Body(It, i)
  BY <1>9
<1> DEFINE N == {i \in Nat : i <= n => It[i] = f[i]}
<1>11. 0 \in N
  BY <1>1, <1>6, <1>10
<1>12. ASSUME NEW i \in Nat, i \in N
       PROVE  i + 1 \in N
  <2> SUFFICES ASSUME i + 1 <= n
               PROVE  It[i + 1] = f[i + 1]
    OBVIOUS
  <2>1. i + 1 \in 0..n /\ i + 1 \in 1..n /\ i + 1 # 0 /\ (i + 1) - 1 = i /\ i <= n
    BY <1>1
  <2>2. It[i + 1] = Merge(It[i], events[i + 1])
    BY <1>10, <2>1
  <2>3. f[i + 1] = Merge(f[i], events[i + 1])
    BY <1>6, <2>1
  <2> QED
    BY <1>12, <2>1, <2>2, <2>3
<1> HIDE DEF N
<1>13. n \in N
  BY <1>1, <1>11, <1>12, NaturalInduction
<1>14. It[n] = f[n]
  BY <1>1, <1>13 DEF N
<1> QED
  BY <1>2, <1>6, <1>14 DEF ReplayParts, n

\* One more event is merged into what the events before it replay to.
LEMMA ReplayAppend ==
  ASSUME NEW T, NEW events \in Seq(Seq(T)), NEW e \in Seq(T)
  PROVE  /\ Replay(events) \in Seq(T)
         /\ Replay(Append(events, e)) = Merge(Replay(events), e)
<1> DEFINE n == Len(events)
           s == Append(events, e)
<1>1. /\ s \in Seq(Seq(T)) /\ Len(s) = n + 1 /\ s[n + 1] = e /\ n \in Nat
      /\ \A i \in 1..n : s[i] = events[i]
  OBVIOUS
<1> HIDE DEF s
<1>2. PICK f \in [0..n -> Seq(T)] : ReplayParts(f, events) /\ Replay(events) = f[n]
  BY ReplaysInParts
<1>3. PICK g \in [0..Len(s) -> Seq(T)] : ReplayParts(g, s) /\ Replay(s) = g[Len(s)]
  BY <1>1, ReplaysInParts
<1>4. f[0] = << >> /\ \A i \in 1..n : f[i] = Merge(f[i - 1], events[i])
  BY <1>2 DEF ReplayParts
<1>5. g[0] = << >> /\ \A i \in 1..(n + 1) : g[i] = Merge(g[i - 1], s[i])
  BY <1>1, <1>3 DEF ReplayParts
<1> HIDE DEF n
<1> DEFINE N == {i \in Nat : i <= n => g[i] = f[i]}
<1>6. 0 \in N
  BY <1>4, <1>5
<1>7. ASSUME NEW i \in Nat, i \in N
      PROVE  i + 1 \in N
  <2> SUFFICES ASSUME i + 1 <= n
               PROVE  g[i + 1] = f[i + 1]
    OBVIOUS
  <2>1. i + 1 \in 1..n /\ i + 1 \in 1..(n + 1) /\ (i + 1) - 1 = i /\ i <= n
    BY <1>1
  <2>2. f[i + 1] = Merge(f[i], events[i + 1])
    BY <1>4, <2>1
  <2>3. g[i + 1] = Merge(g[i], s[i + 1])
    BY <1>5, <2>1
  <2> QED
    BY <1>1, <1>7, <2>1, <2>2, <2>3
<1> HIDE DEF N
<1>8. n \in N
  BY <1>1, <1>6, <1>7, NaturalInduction
<1>9. g[n] = f[n] /\ n + 1 \in 1..(n + 1) /\ (n + 1) - 1 = n /\ n \in 0..n
  BY <1>1, <1>8 DEF N
<1>10. g[n + 1] = Merge(f[n], e)
  BY <1>1, <1>5, <1>9
<1> QED
  BY <1>1, <1>2, <1>3, <1>9, <1>10 DEF s

LEMMA ReplayNothing == Replay(<< >>) = << >>
<1> DEFINE T == {}
           s == << >>
<1>1. s \in Seq(Seq(T)) /\ Len(s) = 0
  OBVIOUS
<1> HIDE DEF T, s
<1>2. PICK f \in [0..Len(s) -> Seq(T)] : ReplayParts(f, s) /\ Replay(s) = f[Len(s)]
  BY <1>1, ReplaysInParts
<1>3. f[0] = << >>
  BY <1>2 DEF ReplayParts
<1>4. Replay(s) = << >>
  BY <1>1, <1>2, <1>3
<1> QED
  BY <1>4 DEF s

\* A request after another, a message after a request.
LEMMA MergeSame ==
  ASSUME NEW T, NEW w \in Seq(T), w # << >>
  PROVE  Merge(w, w) = w
<1> DEFINE n == Len(w)
           C == CommonPrefix(w, w)
<1>1. n \in Nat /\ n \in 1..n
  OBVIOUS
<1>2. n \in C /\ C \subseteq 1..n
  BY <1>1 DEF CommonPrefix
<1>3. Max(C) \in 1..n /\ Max(C) >= n
  <2> HIDE DEF C
  <2>1. C # {}
    BY <1>2
  <2> QED
    BY <1>1, <1>2, <2>1, Greatest
<1>4. Max(C) = n
  BY <1>1, <1>3
<1>5. Merge(w, w) = AppendTail(w, Beyond(w, n))
  BY <1>2, <1>4 DEF Merge
<1>6. Beyond(w, n) \in Seq(T) /\ Len(Beyond(w, n)) = 0
  <2>1. n \in 0..Len(w) /\ Len(w) - n = 0
    BY <1>1
  <2> QED
    BY <2>1, BeyondType
<1> QED
  BY <1>5, <1>6, AppendTailShape

LEMMA MergeNext ==
  ASSUME NEW T, NEW v \in Seq(T), v # << >>, NEW m \in T
  PROVE  Merge(v, Append(v, m)) = Extend(v, m)
<1> DEFINE n == Len(v)
           w == Append(v, m)
           C == CommonPrefix(v, w)
<1>1. n \in Nat /\ n \in 1..n /\ w \in Seq(T) /\ Len(w) = n + 1 /\ w[n + 1] = m
      /\ \A i \in 1..n : w[i] = v[i]
  OBVIOUS
<1>2. w # << >>
  BY <1>1
<1> HIDE DEF w
<1>3. SubSeq(v, 1, n) = SubSeq(w, 1, n)
  <2>1. /\ 1 \in 1..(Len(v) + 1) /\ 1 \in 1..(Len(w) + 1) /\ n <= Len(w) /\ 1 <= n + 1
        /\ n + 1 - 1 = n /\ n <= Len(v)
        /\ \A i \in 1..n : 1 + i - 1 = i
    BY <1>1
  <2>2. /\ SubSeq(v, 1, n) \in Seq(T) /\ Len(SubSeq(v, 1, n)) = n
        /\ \A i \in 1..n : SubSeq(v, 1, n)[i] = v[i]
    BY <1>1, <2>1, Slice
  <2>3. /\ SubSeq(w, 1, n) \in Seq(T) /\ Len(SubSeq(w, 1, n)) = n
        /\ \A i \in 1..n : SubSeq(w, 1, n)[i] = w[i]
    BY <1>1, <2>1, Slice
  <2> QED
    BY <1>1, <2>2, <2>3, SameSequence
<1>4. n \in C /\ C \subseteq 1..n
  <2>1. n <= Len(w)
    BY <1>1
  <2> QED
    BY <1>1, <1>3, <2>1 DEF CommonPrefix
<1>5. Max(C) \in 1..n /\ Max(C) >= n
  <2> HIDE DEF C
  <2>1. C # {}
    BY <1>4
  <2> QED
    BY <1>1, <1>4, <2>1, Greatest
<1>6. Max(C) = n
  BY <1>1, <1>5
<1>7. Merge(v, w) = AppendTail(v, Beyond(w, n))
  BY <1>2, <1>4, <1>6 DEF Merge
<1>8. Beyond(w, n) \in Seq(T) /\ Len(Beyond(w, n)) = 1 /\ Beyond(w, n)[1] = m
  <2>1. n \in 0..Len(w) /\ Len(w) - n = 1 /\ 1 \in 1..(Len(w) - n)
    BY <1>1
  <2> QED
    BY <1>1, <2>1, BeyondType
<1> QED
  BY <1>7, <1>8, AppendTailShape DEF w

LEMMA MergeOne ==
  ASSUME NEW T, NEW w \in Seq(T), w # << >>, NEW m \in T, m # w[1]
  PROVE  Merge(w, << m >>) = Extend(w, m)
<1> DEFINE n == Len(w)
           e == << m >>
<1>1. n \in Nat /\ n \in 1..n /\ 1 \in 1..n
  OBVIOUS
<1>2. e \in Seq(T) /\ Len(e) = 1 /\ e[1] = m /\ e # << >>
  OBVIOUS
<1> HIDE DEF e
<1>3. ASSUME NEW s \in Seq(T), NEW a \in 1..Len(s)
      PROVE  /\ SubSeq(s, a, a) \in Seq(T) /\ Len(SubSeq(s, a, a)) = 1
             /\ SubSeq(s, a, a)[1] = s[a]
  <2>1. /\ a \in 1..(Len(s) + 1) /\ a \in Nat /\ a <= Len(s) /\ a <= a + 1
        /\ a + 1 - a = 1 /\ 1 \in 1..(a + 1 - a) /\ a + 1 - 1 = a
    OBVIOUS
  <2> QED
    BY <2>1, Slice
<1>4. CommonPrefix(w, e) = {}
  <2> SUFFICES ASSUME NEW k \in CommonPrefix(w, e)
               PROVE  FALSE
    OBVIOUS
  <2>1. k \in 1..n /\ k <= Len(e) /\ SubSeq(w, 1, k) = SubSeq(e, 1, k)
    BY DEF CommonPrefix
  <2>2. k = 1
    BY <1>1, <1>2, <2>1
  <2>3. SubSeq(w, 1, 1)[1] = SubSeq(e, 1, 1)[1]
    BY <2>1, <2>2
  <2>4. SubSeq(w, 1, 1)[1] = w[1] /\ SubSeq(e, 1, 1)[1] = e[1]
    BY <1>1, <1>2, <1>3
  <2> QED
    BY <1>2, <2>3, <2>4
<1>5. n - 1 + 1 = n /\ SubSeq(w, n, n)[1] = w[n] /\ SubSeq(e, 1, 1)[1] = m
      /\ SubSeq(w, n, n) \in Seq(T) /\ Len(SubSeq(w, n, n)) = 1
      /\ SubSeq(e, 1, 1) \in Seq(T) /\ Len(SubSeq(e, 1, 1)) = 1
  BY <1>1, <1>2, <1>3
<1>6. CASE w[n] = m
  <2>1. SubSeq(w, n, n) = SubSeq(e, 1, 1)
    <3>1. \A i \in 1..1 : SubSeq(w, n, n)[i] = SubSeq(e, 1, 1)[i]
      BY <1>5, <1>6
    <3> QED
      BY <1>5, <3>1, SameSequence
  <2> DEFINE O == Overlaps(w, e)
  <2>2. 1 \in O
    <3>1. SubSeq(w, n - 1 + 1, n) = SubSeq(e, 1, 1)
      BY <1>5, <2>1
    <3> QED
      BY <1>1, <1>2, <3>1 DEF Overlaps
  <2>3. \A k \in O : k = 1
    BY <1>1, <1>2 DEF Overlaps
  <2>4. O \subseteq 1..n
    BY DEF Overlaps
  <2>5. Max(O) = 1 /\ O # {}
    <3> HIDE DEF O
    <3> QED
      BY <1>1, <2>2, <2>3, <2>4, Greatest
  <2>6. Merge(w, e) = w \o Beyond(e, 1)
    BY <1>2, <1>4, <2>5 DEF Merge
  <2>7. Beyond(e, 1) \in Seq(T) /\ Len(Beyond(e, 1)) = 0
    <3>1. 1 \in 0..Len(e) /\ Len(e) - 1 = 0
      BY <1>2
    <3> QED
      BY <1>2, <3>1, BeyondType
  <2>8. w \o Beyond(e, 1) = w
    <3>1. Beyond(e, 1) = << >>
      BY <2>7
    <3> QED
      BY <3>1
  <2> QED
    BY <1>6, <2>6, <2>8 DEF Extend, Last, e
<1>7. CASE w[n] # m
  <2>1. Overlaps(w, e) = {}
    <3> SUFFICES ASSUME NEW k \in Overlaps(w, e)
                 PROVE  FALSE
      OBVIOUS
    <3>1. /\ k \in 1..n /\ k <= Len(e)
          /\ SubSeq(w, n - k + 1, n) = SubSeq(e, 1, k)
      BY DEF Overlaps
    <3>2. k = 1
      BY <1>1, <1>2, <3>1
    <3>3. SubSeq(w, n, n) = SubSeq(e, 1, 1)
      BY <1>5, <3>1, <3>2
    <3> QED
      BY <1>5, <1>7, <3>3
  <2>2. Merge(w, e) = AppendTail(w, e)
    BY <1>2, <1>4, <2>1 DEF Merge
  <2>3. AppendTail(w, e) = Extend(w, e[1])
    BY <1>2, AppendTailShape
  <2> QED
    BY <1>2, <2>2, <2>3 DEF e
<1> QED
  BY <1>6, <1>7

\* A message that is no repetition is always appended.
LEMMA ExtendFresh ==
  ASSUME NEW T, NEW w \in Seq(T), w # << >>, NEW m \in T
  PROVE  /\ Extend(w, m) \in {w, Append(w, m)}
         /\ ~Repeats(Append(w, m)) => ~Repeats(w) /\ Extend(w, m) = Append(w, m)
         /\ Front(Append(w, m)) = w
<1> DEFINE n == Len(w)
           g == Append(w, m)
<1>1. n \in Nat /\ n >= 1 /\ Len(g) = n + 1 /\ g[n + 1] = m
      /\ \A i \in 1..n : g[i] = w[i]
  OBVIOUS
<1>2. g \in Seq(T)
  OBVIOUS
<1>3. Extend(w, m) \in {w, g}
  BY DEF Extend
<1> HIDE DEF g
<1>4. ASSUME ~Repeats(g)
      PROVE  ~Repeats(w) /\ Extend(w, m) = g
  <2>1. \A i \in 1..n : g[i] # g[i + 1]
    BY <1>1, <1>4 DEF Repeats
  <2>2. w[n] # m
    BY <1>1, <2>1
  <2>3. ASSUME NEW i \in 1..(n - 1)
        PROVE  w[i] # w[i + 1]
    <3>1. i \in 1..n /\ i + 1 \in 1..n
      BY <1>1
    <3> QED
      BY <1>1, <2>1, <3>1
  <2> QED
    BY <2>2, <2>3 DEF Repeats, Extend, Last, g
<1>5. Front(g) = w
  <2>1. /\ 1 \in 1..(Len(g) + 1) /\ n <= Len(g) /\ 1 <= n + 1 /\ n + 1 - 1 = n
        /\ \A i \in 1..n : 1 + i - 1 = i
    BY <1>1
  <2>2. /\ SubSeq(g, 1, n) \in Seq(T) /\ Len(SubSeq(g, 1, n)) = n
        /\ \A i \in 1..n : SubSeq(g, 1, n)[i] = g[i]
    BY <1>1, <1>2, <2>1, Slice
  <2>3. SubSeq(g, 1, n) = w
    BY <1>1, <2>2, SameSequence
  <2>4. Len(g) - 1 = n
    BY <1>1
  <2> QED
    BY <2>3, <2>4 DEF Front
<1> QED
  BY <1>3, <1>4, <1>5 DEF g

\* The texts of messages, and the history as the log has it.
Texts == {Written(m) : m \in Message}

LEMMA WrittenShape ==
  ASSUME NEW h \in Seq(Message)
  PROVE  /\ WrittenAll(h) \in Seq(Texts) /\ Len(WrittenAll(h)) = Len(h)
         /\ \A i \in 1..Len(h) : /\ WrittenAll(h)[i] = Written(h[i])
                                 /\ WrittenAll(h)[i].role = h[i].role
<1>1. DOMAIN h = 1..Len(h) /\ Len(h) \in Nat /\ \A i \in 1..Len(h) : h[i] \in Message
  OBVIOUS
<1>2. WrittenAll(h) = [i \in 1..Len(h) |-> Written(h[i])]
  BY <1>1 DEF WrittenAll
<1>3. \A i \in 1..Len(h) : Written(h[i]) \in Texts
  BY <1>1 DEF Texts
<1>4. \A m \in Message : Written(m).role = m.role
  BY DEF Written, Message
<1>5. WrittenAll(h) \in [1..Len(h) -> Texts]
  BY <1>2, <1>3
<1>6. WrittenAll(h) \in Seq(Texts)
  BY <1>1, <1>5
<1>7. Len(WrittenAll(h)) = Len(h)
  BY <1>1, <1>5
<1> QED
  BY <1>1, <1>2, <1>4, <1>6, <1>7

LEMMA WrittenAppend ==
  ASSUME NEW h \in Seq(Message), NEW m \in Message
  PROVE  WrittenAll(Append(h, m)) = Append(WrittenAll(h), Written(m))
<1> DEFINE g == Append(h, m)
           w == WrittenAll(h)
           v == Append(w, Written(m))
<1>1. /\ g \in Seq(Message) /\ Len(g) = Len(h) + 1 /\ Len(h) \in Nat
      /\ g[Len(h) + 1] = m
      /\ \A i \in 1..Len(h) : g[i] = h[i]
  BY AppendShape
<1>2. w \in Seq(Texts) /\ Len(w) = Len(h) /\ \A i \in 1..Len(h) : w[i] = Written(h[i])
  BY WrittenShape
<1>3. Written(m) \in Texts
  BY DEF Texts
<1> HIDE DEF g, w
<1>4. /\ v \in Seq(Texts) /\ Len(v) = Len(h) + 1 /\ v[Len(h) + 1] = Written(m)
      /\ \A i \in 1..Len(h) : v[i] = w[i]
  BY <1>1, <1>2, <1>3
<1> HIDE DEF v
<1>5. /\ WrittenAll(g) \in Seq(Texts) /\ Len(WrittenAll(g)) = Len(g)
      /\ \A i \in 1..Len(g) : WrittenAll(g)[i] = Written(g[i])
  BY <1>1, WrittenShape
<1>6. \A i \in 1..Len(v) : WrittenAll(g)[i] = v[i]
  <2> TAKE i \in 1..Len(v)
  <2>1. i \in 1..Len(g) /\ (i \in 1..Len(h) \/ i = Len(h) + 1)
    BY <1>1, <1>4
  <2> QED
    BY <1>1, <1>2, <1>4, <1>5, <2>1
<1>7. WrittenAll(g) = v
  BY <1>1, <1>4, <1>5, <1>6, SameSequence
<1> QED
  BY <1>7 DEF g, w, v

\* Compaction never makes a history longer, so that one which has the old
\* history for a prefix is the old history.
LEMMA IntactIsSame ==
  ASSUME NEW h \in Seq(Message), h # << >>, h[1].role = "system",
         NEW p, p \in {Compact(h), Prune(Condense(h))}, IsPrefix(h, p)
  PROVE  p = h
<1>1. CASE p = h
  BY <1>1
<1>2. CASE p = Prune(Condense(h))
  <2> DEFINE g == Condense(h)
             L == Len(Lead(g))
             s == Cut(g) - 1 - L
  <2>1. /\ g \in Seq(Message) /\ Len(g) = Len(h) /\ Len(h) \in Nat /\ Len(h) >= 1
        /\ \A i \in 1..Len(h) : g[i].role = h[i].role
    BY CondenseShape
  <2>2. p \in Seq(Message) /\ SuffixOf(p, g, Cut(g), L, s)
    BY <1>2, <2>1, PruneIsSuffix
  <2>3. g # << >> /\ g[1].role = "system"
    BY <2>1
  <2>4. L = 1 /\ Cut(g) \in 1..(Len(g) + 1) /\ (Cut(g) \in DOMAIN g => g[Cut(g)].role = "user")
    BY <2>1, <2>3, PruneShape, CutStartsRound
  <2>5. Cut(g) # 1
    BY <2>1, <2>3, <2>4
  <2> HIDE DEF g, L
  <2>6. s \in Int /\ s >= 0
    BY <2>1, <2>4, <2>5
  <2>7. Len(p) = Len(g) - s
    BY <2>2 DEF SuffixOf
  <2>8. Len(h) <= Len(p) /\ SubSeq(h, 1, Len(h)) = SubSeq(p, 1, Len(h))
    BY DEF IsPrefix
  <2>9. Len(p) = Len(h)
    BY <2>1, <2>2, <2>6, <2>7, <2>8
  <2>10. SubSeq(h, 1, Len(h)) = h /\ SubSeq(p, 1, Len(p)) = p
    BY <2>2, SubSeqFull
  <2> QED
    BY <2>8, <2>9, <2>10
<1> QED
  BY <1>1, <1>2 DEF Compact

-----------------------------------------------------------------------------
(* The invariants of the log.                                              *)

\* All that is written are texts, the model has seen nothing that is not in the
\* replay, and what is replayed while nothing was compacted is the history: it
\* may lack a prompt that was not sent, or one that repeats the message before
\* it.
OpenPrompt == Last(history).role = "user"

LogTyped == log \in Seq(Seq(Texts)) /\ (log = << >> => pc \in {"idle", "turn", "down"})

Copied ==
  (intact /\ log # << >>) =>
     LET W == WrittenAll(history)
     IN  /\ (OpenPrompt /\ ~Repeats(Front(W))) => Replayed \in {Front(W), W}
         /\ (pc = "turn" /\ OpenPrompt /\ ~Repeats(Front(W))) => Replayed = Front(W)
         /\ (~(pc \in {"turn", "down"} /\ OpenPrompt) /\ ~Repeats(W)) => Replayed = W

ReaderInv == LoopInv /\ LogTyped /\ NothingLost /\ Copied

LEMMA ReaderInit == LogInit => ReaderInv
<1> SUFFICES ASSUME LogInit
             PROVE  ReaderInv
  OBVIOUS
<1>1. LoopInv
  BY InitHolds DEF LogInit
<1>2. log = << >> /\ pc = "idle"
  BY DEF LogInit, Init
<1> QED
  BY <1>1, <1>2 DEF ReaderInv, LogTyped, NothingLost, Copied

\* What the steps of the loop do to the log.
LEMMA LogSteps ==
  ASSUME [LogNext]_allVars
  PROVE  /\ [Next]_vars
         /\ intact' => intact
         /\ \/ LogRequest /\ (intact' => IsPrefix(history, history'))
            \/ /\ ProviderAnswers \/ DispatchCall
               /\ log' = Append(log, << Last(history') >>)
            \/ SubmitPrompt /\ UNCHANGED log
            \/ CompactCommand /\ UNCHANGED log /\ (intact' => IsPrefix(history, history'))
            \/ /\ UNCHANGED << history, log >>
               /\ \/ pc' = pc
                  \/ pc = "chat" /\ pc' = "idle"
                  \/ pc' = "down"
<1>1. CASE LogNext
  BY <1>1 DEF LogNext, NotLogged, LogRequest, LogResponse, LogToolResult, Next, LoopSteps,
     SwitchRole, BridgeAnnounces, ProviderFails, Crash, Exit
<1>2. CASE UNCHANGED allVars
  BY <1>2 DEF allVars, vars
<1> QED
  BY <1>1, <1>2

LEMMA FrontAndLast ==
  ASSUME NEW T, NEW w \in Seq(T), Len(w) >= 2
  PROVE  /\ Front(w) \in Seq(T) /\ Front(w) # << >> /\ Last(w) \in T
         /\ w = Append(Front(w), Last(w))
<1> DEFINE n == Len(w) - 1
           v == Front(w)
           g == Append(v, Last(w))
<1>1. n \in Nat /\ n >= 1 /\ Len(w) = n + 1 /\ w[n + 1] \in T
  OBVIOUS
<1>2. v \in Seq(T) /\ Len(v) = n /\ \A i \in 1..n : v[i] = w[i]
  <2>1. /\ 1 \in 1..(Len(w) + 1) /\ n <= Len(w) /\ 1 <= n + 1 /\ n + 1 - 1 = n
        /\ \A i \in 1..n : 1 + i - 1 = i
    BY <1>1
  <2> QED
    BY <1>1, <2>1, Slice DEF Front
<1> HIDE DEF v, n
<1>3. Last(w) = w[n + 1]
  BY <1>1 DEF Last
<1>4. /\ g \in Seq(T) /\ Len(g) = n + 1 /\ g[n + 1] = w[n + 1]
      /\ \A i \in 1..n : g[i] = v[i]
  BY <1>1, <1>2, <1>3
<1> HIDE DEF g
<1>5. \A i \in 1..(n + 1) : g[i] = w[i]
  <2>1. \A i \in 1..(n + 1) : i \in 1..n \/ i = n + 1
    BY <1>1
  <2> QED
    BY <1>2, <1>4, <2>1
<1>6. g = w
  BY <1>1, <1>4, <1>5, SameSequence
<1>7. v # << >>
  BY <1>1, <1>2
<1> QED
  BY <1>1, <1>2, <1>3, <1>6, <1>7 DEF v, g

LEMMA AppendGrows ==
  ASSUME NEW T, NEW w \in Seq(T), NEW m \in T
  PROVE  Append(w, m) \in Seq(T) /\ Append(w, m) # << >>
<1>1. Append(w, m) \in Seq(T) /\ Len(Append(w, m)) = Len(w) + 1 /\ Len(w) \in Nat
  OBVIOUS
<1> QED
  BY <1>1

LEMMA AppendMembers ==
  ASSUME NEW T, NEW w \in Seq(T), NEW m \in T
  PROVE  ToSet(Append(w, m)) \subseteq ToSet(w) \cup {m}
<1>1. /\ DOMAIN Append(w, m) = 1..(Len(w) + 1) /\ Append(w, m)[Len(w) + 1] = m
      /\ \A i \in 1..Len(w) : Append(w, m)[i] = w[i]
      /\ DOMAIN w = 1..Len(w) /\ Len(w) \in Nat
  OBVIOUS
<1>2. \A i \in 1..(Len(w) + 1) : i \in 1..Len(w) \/ i = Len(w) + 1
  BY <1>1
<1> QED
  BY <1>1, <1>2 DEF ToSet

\* A request that is logged.
LEMMA RequestLogged ==
  ASSUME ReaderInv, LogRequest, intact' => intact /\ IsPrefix(history, history'),
         history' \in Seq(Message)
  PROVE  LogTyped' /\ NothingLost' /\ Copied'
<1> DEFINE W == WrittenAll(history)
           V == WrittenAll(history')
<1>1. /\ history \in Seq(Message) /\ history # << >> /\ history[1].role = "system"
      /\ log \in Seq(Seq(Texts)) /\ pc = "turn" /\ pc' = "chat"
      /\ history' = Compact(history)
      /\ log' = Append(log, V)
  BY DEF ReaderInv, LoopInv, TypeOK, RequestHasPrompt, SystemMessage, Msg, LogTyped,
         LogRequest, SendRequest
<1>2. W \in Seq(Texts) /\ V \in Seq(Texts) /\ Len(W) = Len(history)
      /\ \A i \in 1..Len(history) : W[i].role = history[i].role
  BY <1>1, WrittenShape
<1> HIDE DEF W, V
<1>3. Replayed \in Seq(Texts) /\ Replayed' = Merge(Replayed, V)
  BY <1>1, <1>2, ReplayAppend DEF Replayed
<1>4. LogTyped'
  <2>1. log' \in Seq(Seq(Texts)) /\ log' # << >>
    BY <1>1, <1>2, AppendGrows
  <2> QED
    BY <2>1 DEF LogTyped
<1>5. NothingLost'
  <2>1. ToSet(V) \subseteq ToSet(Replayed')
    BY <1>2, <1>3, MergeKeepsBoth
  <2> QED
    BY <2>1 DEF NothingLost, V
<1>6. Copied'
  <2> SUFFICES ASSUME intact'
               PROVE  /\ (OpenPrompt' /\ ~Repeats(Front(V))) => Replayed' \in {Front(V), V}
                      /\ ~Repeats(V) => Replayed' = V
    BY <1>1 DEF Copied, V
  <2>1. history' = history /\ V = W /\ intact
    BY <1>1, IntactIsSame DEF V, W
  <2>2. CASE log = << >>
    <3>1. Replayed = << >>
      BY <2>2, ReplayNothing DEF Replayed
    <3>2. Replayed' = V
      BY <1>3, <3>1 DEF Merge
    <3> QED
      BY <3>2
  <2>3. CASE log # << >> /\ OpenPrompt
    <3> DEFINE v == Front(W)
               m == Last(W)
    <3>1. /\ v \in Seq(Texts) /\ v # << >> /\ m \in Texts /\ W = Append(v, m)
      <4>1. Len(history) # 1
        BY <1>1, <2>3 DEF OpenPrompt, Last
      <4>2. Len(W) \in Nat /\ Len(W) >= 2 /\ W[Len(W)] \in Texts
        BY <1>1, <1>2, <4>1
      <4> QED
        BY <1>2, <4>2, FrontAndLast
    <3>2. ~Repeats(v) => Replayed = v
      BY <1>1, <2>1, <2>3 DEF ReaderInv, Copied, W
    <3> HIDE DEF v, m
    <3>3. Merge(v, W) = Extend(v, m)
      BY <3>1, MergeNext
    <3>4. /\ Extend(v, m) \in {v, W}
          /\ ~Repeats(W) => ~Repeats(v) /\ Extend(v, m) = W
      BY <3>1, ExtendFresh
    <3>5. ~Repeats(v) => Replayed' \in {v, W}
      BY <1>3, <2>1, <3>2, <3>3, <3>4
    <3>6. ~Repeats(W) => Replayed' = W
      BY <1>3, <2>1, <3>2, <3>3, <3>4
    <3> QED
      BY <2>1, <3>5, <3>6 DEF v
  <2>4. CASE log # << >> /\ ~OpenPrompt
    <3>1. ~Repeats(W) => Replayed = W
      BY <2>1, <2>4 DEF ReaderInv, Copied, W
    <3>2. W # << >>
      BY <1>1, <1>2
    <3>3. ~Repeats(W) => Replayed' = W
      BY <1>2, <1>3, <2>1, <3>1, <3>2, MergeSame
    <3>4. OpenPrompt' = OpenPrompt
      BY <2>1 DEF OpenPrompt
    <3> QED
      BY <2>1, <2>4, <3>3, <3>4
  <2> QED
    BY <2>2, <2>3, <2>4
<1> QED
  BY <1>4, <1>5, <1>6

\* An answer or a result that is logged.
LEMMA MessageLogged ==
  ASSUME ReaderInv, ProviderAnswers \/ DispatchCall,
         log' = Append(log, << Last(history') >>), intact' => intact
  PROVE  LogTyped' /\ NothingLost' /\ Copied'
<1> DEFINE W == WrittenAll(history)
           V == WrittenAll(history')
<1>1. /\ history \in Seq(Message) /\ history # << >> /\ history[1].role = "system"
      /\ log \in Seq(Seq(Texts)) /\ log # << >>
      /\ pc \in {"chat", "dispatch"} /\ pc' \in {"idle", "turn", "dispatch"}
  <2>1. pc \in {"chat", "dispatch"} /\ pc' \in {"idle", "turn", "dispatch"}
    BY DEF ProviderAnswers, DispatchCall
  <2>2. /\ history \in Seq(Message) /\ history # << >>
        /\ history[1].role = "system"
    BY DEF ReaderInv, LoopInv, TypeOK, RequestHasPrompt, SystemMessage, Msg
  <2> QED
    BY <2>1, <2>2 DEF ReaderInv, LogTyped
<1>2. PICK m \in Message : m.role \in {"assistant", "tool"} /\ history' = Append(history, m)
  <2>1. CASE ProviderAnswers
    <3>1. PICK calls \in CallSeqs, size \in AnswerSizes :
             history' = Append(history, AssistantMessage(calls, size))
      BY <2>1 DEF ProviderAnswers
    <3>2. /\ AssistantMessage(calls, size) \in Message
          /\ AssistantMessage(calls, size).role = "assistant"
      BY CallSeqsType, ConstructorTypes, LoopAssumption DEF AssistantMessage, Msg
    <3> QED
      BY <3>1, <3>2
  <2>2. CASE DispatchCall
    <3>1. PICK r \in DispatchResults(Head(pending)) : history' = Append(history, r)
      BY <2>2 DEF DispatchCall
    <3>2. Head(pending) \in ToolCall
      BY <2>2, DispatchStart DEF DispatchCall, ReaderInv, LoopInv
    <3>3. r \in Message /\ r.role = "tool"
      BY <3>2, DispatchResultsType
    <3> QED
      BY <3>1, <3>3
  <2> QED
    BY <2>1, <2>2
<1>3. /\ Last(history') = m /\ Written(m) = m /\ m \in Texts
  <2>1. history'[Len(history) + 1] = m /\ Len(history') = Len(history) + 1
    BY <1>1, <1>2, AppendShape
  <2>2. Written(m) = m
    BY <1>2 DEF Written
  <2>3. m \in Texts
    BY <2>2 DEF Texts
  <2> QED
    BY <2>1, <2>2, <2>3 DEF Last
<1>4. /\ W \in Seq(Texts) /\ Len(W) = Len(history) /\ W[1].role = "system" /\ W # << >>
      /\ V = Append(W, m)
  <2>1. 1 \in 1..Len(history)
    BY <1>1
  <2>2. W \in Seq(Texts) /\ Len(W) = Len(history) /\ W[1].role = history[1].role
    BY <1>1, <2>1, WrittenShape
  <2>3. V = Append(W, m)
    BY <1>1, <1>2, <1>3, WrittenAppend
  <2>4. W # << >>
    BY <2>1, <2>2
  <2> QED
    BY <1>1, <2>2, <2>3, <2>4
<1> HIDE DEF W, V
<1> DEFINE e == << m >>
<1>5. e \in Seq(Texts) /\ log' = Append(log, e) /\ ToSet(e) = {m}
  BY <1>3 DEF ToSet
<1>6. Merge(W, e) = Extend(W, m)
  <2>1. m # W[1]
    BY <1>2, <1>4
  <2> QED
    BY <1>3, <1>4, <2>1, MergeOne
<1> HIDE DEF e
<1>7. Replayed \in Seq(Texts) /\ Replayed' = Merge(Replayed, e)
  BY <1>1, <1>5, ReplayAppend DEF Replayed
<1>8. LogTyped'
  <2>1. log' \in Seq(Seq(Texts)) /\ log' # << >>
    BY <1>1, <1>5, AppendGrows
  <2> QED
    BY <2>1 DEF LogTyped
<1>9. NothingLost'
  <2>1. ToSet(Replayed) \cup ToSet(e) \subseteq ToSet(Replayed')
    BY <1>5, <1>7, MergeKeepsBoth
  <2>2. ToSet(W) \subseteq ToSet(Replayed)
    BY <1>1 DEF ReaderInv, NothingLost, W
  <2>3. ToSet(V) \subseteq ToSet(W) \cup {m}
    BY <1>3, <1>4, AppendMembers
  <2>4. ToSet(V) \subseteq ToSet(Replayed')
    BY <1>5, <2>1, <2>2, <2>3
  <2> QED
    BY <2>4 DEF NothingLost, V
<1>10. Copied'
  <2>1. ~OpenPrompt'
    BY <1>2, <1>3 DEF OpenPrompt
  <2> SUFFICES ASSUME intact', ~Repeats(V)
               PROVE  Replayed' = V
    BY <2>1 DEF Copied, V
  <2>2. ~Repeats(W) /\ Extend(W, m) = V
    BY <1>3, <1>4, ExtendFresh
  <2>3. Replayed = W
    BY <1>1, <2>2 DEF ReaderInv, Copied, W
  <2> QED
    BY <1>6, <1>7, <2>2, <2>3
<1> QED
  BY <1>8, <1>9, <1>10

LEMMA ReaderStep ==
  ASSUME ReaderInv, [LogNext]_allVars
  PROVE  ReaderInv'
<1>1. [Next]_vars /\ (intact' => intact)
  BY LogSteps
<1>2. LoopInv'
  BY <1>1, TypeStep, PairingStep, PromptStep DEF ReaderInv, LoopInv
<1>3. history' \in Seq(Message)
  BY <1>2 DEF LoopInv, TypeOK
<1>4. CASE LogRequest /\ (intact' => IsPrefix(history, history'))
  BY <1>1, <1>2, <1>3, <1>4, RequestLogged DEF ReaderInv
<1>5. CASE (ProviderAnswers \/ DispatchCall) /\ log' = Append(log, << Last(history') >>)
  BY <1>1, <1>2, <1>5, MessageLogged DEF ReaderInv
<1>6. CASE SubmitPrompt /\ UNCHANGED log
  <2>1. PICK size \in PromptSizes :
           history' = Append(history, UserMessage(prompts + 1, size))
    BY <1>6 DEF SubmitPrompt
  <2> DEFINE m == UserMessage(prompts + 1, size)
             W == WrittenAll(history)
             V == WrittenAll(history')
  <2>2. m \in Message
    <3>1. prompts + 1 \in Nat /\ size \in Nat
      BY LoopAssumption DEF ReaderInv, LoopInv, TypeOK
    <3> QED
      BY <3>1, ConstructorTypes
  <2>3. history' = Append(history, m) /\ history \in Seq(Message) /\ history # << >>
    BY <2>1 DEF m, ReaderInv, LoopInv, TypeOK, RequestHasPrompt
  <2> HIDE DEF m
  <2>4. W \in Seq(Texts) /\ Len(W) = Len(history) /\ V = Append(W, Written(m))
        /\ Written(m) \in Texts
    BY <2>2, <2>3, WrittenShape, WrittenAppend DEF Texts
  <2>5. W # << >>
    BY <2>3, <2>4
  <2> HIDE DEF W, V
  <2>6. Front(V) = W
    BY <2>4, <2>5, ExtendFresh
  <2>7. Replayed' = Replayed /\ pc = "idle" /\ pc' = "turn"
    BY <1>6 DEF Replayed, SubmitPrompt
  <2>8. LogTyped' /\ NothingLost'
    BY <1>6, <2>7 DEF ReaderInv, LogTyped, NothingLost
  <2>9. Copied'
    <3> SUFFICES ASSUME intact', log' # << >>, OpenPrompt'
                 PROVE  ~Repeats(Front(V)) => Replayed' = Front(V)
      <4>1. Last(history').role = "user"
        <5>1. history'[Len(history) + 1] = m /\ Len(history') = Len(history) + 1
          BY <2>2, <2>3, AppendShape
        <5> QED
          BY <5>1 DEF Last, m, UserMessage, Msg
      <4> QED
        BY <2>7, <4>1 DEF Copied, V, OpenPrompt
    <3>1. ~Repeats(W) => Replayed = W
      BY <1>1, <1>6, <2>7 DEF ReaderInv, Copied, W
    <3> QED
      BY <2>6, <2>7, <3>1
  <2> QED
    BY <1>2, <2>8, <2>9 DEF ReaderInv
<1>7. CASE CompactCommand /\ UNCHANGED log /\ (intact' => IsPrefix(history, history'))
  <2>1. pc = "idle" /\ pc' = "idle" /\ history' = Prune(Condense(history))
    BY <1>7 DEF CompactCommand
  <2>2. intact' => history' = history
    <3>1. history \in Seq(Message) /\ history # << >> /\ history[1].role = "system"
      BY DEF ReaderInv, LoopInv, TypeOK, RequestHasPrompt, SystemMessage, Msg
    <3> QED
      BY <1>7, <2>1, <3>1, IntactIsSame
  <2>3. LogTyped' /\ NothingLost'
    BY <1>7, <2>1 DEF ReaderInv, LogTyped, NothingLost
  <2>4. Copied'
    BY <1>1, <1>7, <2>1, <2>2 DEF ReaderInv, Copied, OpenPrompt, Replayed
  <2> QED
    BY <1>2, <2>3, <2>4 DEF ReaderInv
<1>8. CASE /\ UNCHANGED << history, log >>
           /\ pc' = pc \/ (pc = "chat" /\ pc' = "idle") \/ pc' = "down"
  <2>1. LogTyped'
    BY <1>8 DEF ReaderInv, LogTyped
  <2>2. NothingLost'
    BY <1>8 DEF ReaderInv, NothingLost, Replayed
  <2>3. Copied'
    BY <1>1, <1>8 DEF ReaderInv, Copied, OpenPrompt, Replayed
  <2> QED
    BY <1>2, <2>1, <2>2, <2>3 DEF ReaderInv
<1> QED
  BY <1>4, <1>5, <1>6, <1>7, <1>8, LogSteps

\* What read_session_messages makes of the log of a run (SessionStore.log_event,
\* loop.run) has every message that the provider was sent or has answered,
\* whatever was compacted, repeated or refused before.
THEOREM ReplayComplete == LogSpec => []NothingLost
<1>1. ReaderInv /\ [LogNext]_allVars => ReaderInv'
  BY ReaderStep
<1>2. ReaderInv => NothingLost
  BY DEF ReaderInv
<1> QED
  BY ReaderInit, <1>1, <1>2, PTL DEF LogSpec

\* It is the history, each message once, in order, as long as nothing was
\* compacted and no message equals the one before it, although the log holds
\* the messages again with every request.
THEOREM ReplayCorrect == LogSpec => []ReplayFaithful
<1>1. ReaderInv /\ [LogNext]_allVars => ReaderInv'
  BY ReaderStep
<1>2. ReaderInv => ReplayFaithful
  <2> SUFFICES ASSUME ReaderInv, intact, ~Repeats(Sent)
               PROVE  Replayed \in {Sent, WrittenAll(history)}
    BY DEF ReplayFaithful
  <2>1. CASE log = << >>
    BY <2>1, ReplayNothing DEF Replayed, Sent
  <2>2. CASE log # << >>
    BY <2>2 DEF Sent, ReaderInv, Copied, OpenPrompt
  <2> QED
    BY <2>1, <2>2
<1> QED
  BY ReaderInit, <1>1, <1>2, PTL DEF LogSpec

-----------------------------------------------------------------------------
(* Blocks and the entries of a request.                                    *)

\* Blocks, and entries as the translators build them.
BlockSet == [kind : {"text", "use", "result", "call", "response"},
             id   : CallIds \cup {NoCall},
             name : Tools \cup Roles \cup {"unknown"},
             body : Nat]

EntrySet == [role : {"user", "assistant", "model"}, blocks : Seq(BlockSet)]

\* A sequence of one element is what Append makes of the empty one.
LEMMA Singleton ==
  ASSUME NEW T, NEW x \in T
  PROVE  << x >> \in Seq(T) /\ Len(<< x >>) = 1 /\ << x >>[1] = x
<1>1. Append(<< >>, x) = << x >>
  OBVIOUS
<1>2. << >> \in Seq(T)
  OBVIOUS
<1> QED
  BY <1>1, <1>2

\* A block more makes an entry of an entry.
LEMMA EntryExtended ==
  ASSUME NEW e \in EntrySet, NEW b \in BlockSet
  PROVE  LET E == [e EXCEPT !.blocks = Append(@, b)]
         IN  E \in EntrySet /\ E.role = e.role /\ E.blocks = Append(e.blocks, b)
<1>1. e.role \in {"user", "assistant", "model"} /\ e.blocks \in Seq(BlockSet)
  BY DEF EntrySet
<1>2. PICK B \in Seq(BlockSet) : B = Append(e.blocks, b)
  BY <1>1, AppendGrows
<1> QED
  BY <1>1, <1>2 DEF EntrySet

\* A block goes to the end of the last entry, and to no other.
LEMMA AddBlockShape ==
  ASSUME NEW R \in Seq(EntrySet), R # << >>, NEW b \in BlockSet
  PROVE  LET Q == AddBlock(R, b)
         IN  /\ Q \in Seq(EntrySet) /\ Len(Q) = Len(R) /\ Q # << >>
             /\ \A i \in 1..(Len(R) - 1) : Q[i] = R[i]
             /\ Q[Len(R)].role = R[Len(R)].role
             /\ Q[Len(R)].blocks = Append(R[Len(R)].blocks, b)
<1> DEFINE n == Len(R)
           E == [R[n] EXCEPT !.blocks = Append(@, b)]
           Q == [R EXCEPT ![n] = E]
<1>1. n \in 1..n /\ n \in Nat /\ R[n] \in EntrySet
  OBVIOUS
<1>2. E \in EntrySet /\ E.role = R[n].role /\ E.blocks = Append(R[n].blocks, b)
  BY <1>1, EntryExtended
<1>3. AddBlock(R, b) = Q
  BY DEF AddBlock
<1> HIDE DEF E
<1>4. Q \in Seq(EntrySet)
  BY <1>2, ReplaceLast
<1>5. Len(Q) = n /\ Q[n] = E /\ \A i \in 1..(n - 1) : Q[i] = R[i]
  BY <1>1
<1>6. Q # << >>
  <2>1. n # 0
    BY <1>1
  <2> HIDE DEF Q
  <2>2. Len(Q) # 0
    BY <1>5, <2>1
  <2> QED
    BY <1>4, <2>2
<1> QED
  BY <1>2, <1>3, <1>4, <1>5, <1>6

\* The block of a text, and that of a result.
LEMMA BlockTypes ==
  ASSUME NEW m \in Message
  PROVE  /\ Text(m) \in BlockSet
         /\ \A kind \in {"result", "response"}, id \in CallIds \cup {NoCall},
               name \in Tools \cup {"unknown", "tool"} :
               Block(kind, id, name, m.body) \in BlockSet
BY DEF Text, Block, BlockSet, Message, Roles

\* E is the entry of the answer m: its text, if it has one or nothing else, and
\* then its calls in order.
Turned(E, m, call) ==
  /\ E \in EntrySet
  /\ \E t \in {0, 1} :
       /\ t = 1 <=> (m.size > 0 \/ m.calls = << >>)
       /\ Len(E.blocks) = t + Len(m.calls)
       /\ \A k \in 1..t : E.blocks[k].kind = "text" /\ E.blocks[k].body = m.body
       /\ \A k \in 1..Len(m.calls) :
            LET b == E.blocks[t + k]
            IN  /\ b.kind = call /\ b.name = m.calls[k].name /\ b.body = 0
                /\ call = "use" => b.id = m.calls[k].id

\* A text, if there is to be one, and blocks for the calls.
LEMMA TextAndCalls ==
  ASSUME NEW m \in Message, NEW role \in {"assistant", "model"},
         NEW call \in {"use", "call"}, NEW ids \in Seq(CallIds \cup {NoCall}),
         Len(ids) = Len(m.calls),
         call = "use" => \A k \in 1..Len(m.calls) : ids[k] = m.calls[k].id
  PROVE  LET text == IF m.size > 0 THEN << Text(m) >> ELSE << >>
             uses == [k \in DOMAIN m.calls |-> Block(call, ids[k], m.calls[k].name, 0)]
         IN  Turned(Entry(role, IF text \o uses = << >> THEN << Text(m) >> ELSE text \o uses),
                    m, call)
<1> DEFINE n == Len(m.calls)
           text == IF m.size > 0 THEN << Text(m) >> ELSE << >>
           uses == [k \in DOMAIN m.calls |-> Block(call, ids[k], m.calls[k].name, 0)]
           all == text \o uses
           E == Entry(role, IF all = << >> THEN << Text(m) >> ELSE all)
<1>1. /\ n \in Nat /\ m.calls \in Seq(ToolCall) /\ m.size \in Nat
      /\ DOMAIN m.calls = 1..n
      /\ \A k \in 1..n : m.calls[k] \in ToolCall
      /\ m.calls = << >> <=> n = 0
  BY DEF Message
<1>2. Text(m) \in BlockSet /\ Text(m).kind = "text" /\ Text(m).body = m.body
  BY BlockTypes DEF Text, Block
<1>3. \A k \in 1..n : Block(call, ids[k], m.calls[k].name, 0) \in BlockSet
  <2> SUFFICES ASSUME NEW k \in 1..n
               PROVE  Block(call, ids[k], m.calls[k].name, 0) \in BlockSet
    OBVIOUS
  <2>1. ids[k] \in CallIds \cup {NoCall} /\ m.calls[k].name \in Tools
    BY <1>1 DEF ToolCall
  <2> QED
    BY <2>1 DEF Block, BlockSet
<1>4. /\ uses \in Seq(BlockSet) /\ Len(uses) = n
      /\ \A k \in 1..n : uses[k] = Block(call, ids[k], m.calls[k].name, 0)
  BY <1>1, <1>3
<1> HIDE DEF uses
<1>5. PICK x \in BlockSet : x = Text(m)
  BY <1>2
<1>6. CASE m.size > 0
  <2>1. all = << x >> \o uses
    BY <1>5, <1>6
  <2> HIDE DEF all
  <2>2. /\ all \in Seq(BlockSet) /\ Len(all) = 1 + n /\ all[1] = x
        /\ \A k \in 1..n : all[1 + k] = uses[k]
    BY <1>1, <1>4, <2>1
  <2>3. all # << >>
    BY <1>1, <2>2
  <2>4. E = [role |-> role, blocks |-> all]
    BY <2>3 DEF Entry
  <2>5. E \in EntrySet /\ E.blocks = all
    BY <2>2, <2>4 DEF EntrySet
  <2> HIDE DEF E
  <2>6. \A k \in 1..1 : all[k].kind = "text" /\ all[k].body = m.body
    BY <1>2, <1>5, <2>2
  <2>7. \A k \in 1..n :
          LET b == all[1 + k]
          IN  /\ b.kind = call /\ b.name = m.calls[k].name /\ b.body = 0
              /\ call = "use" => b.id = m.calls[k].id
    <3> SUFFICES ASSUME NEW k \in 1..n
                 PROVE  LET b == all[1 + k]
                        IN  /\ b.kind = call /\ b.name = m.calls[k].name /\ b.body = 0
                            /\ call = "use" => b.id = m.calls[k].id
      OBVIOUS
    <3>1. all[1 + k] = Block(call, ids[k], m.calls[k].name, 0)
      BY <1>4, <2>2
    <3>2. call = "use" => ids[k] = m.calls[k].id
      BY <1>1
    <3> QED
      BY <3>1, <3>2 DEF Block
  <2>8. Turned(E, m, call)
    BY <1>6, <2>2, <2>5, <2>6, <2>7 DEF Turned
  <2> QED
    BY <2>8 DEF E, all, uses
<1>7. CASE m.size = 0 /\ n > 0
  <2>1. all = uses
    BY <1>4, <1>7
  <2>2. uses # << >>
    BY <1>4, <1>7
  <2>4. E = [role |-> role, blocks |-> uses]
    BY <2>1, <2>2 DEF Entry
  <2>5. E \in EntrySet /\ E.blocks = uses
    BY <1>4, <2>4 DEF EntrySet
  <2> HIDE DEF E
  <2>7. \A k \in 1..n :
          LET b == uses[0 + k]
          IN  /\ b.kind = call /\ b.name = m.calls[k].name /\ b.body = 0
              /\ call = "use" => b.id = m.calls[k].id
    <3> SUFFICES ASSUME NEW k \in 1..n
                 PROVE  LET b == uses[0 + k]
                        IN  /\ b.kind = call /\ b.name = m.calls[k].name /\ b.body = 0
                            /\ call = "use" => b.id = m.calls[k].id
      OBVIOUS
    <3>1. uses[0 + k] = Block(call, ids[k], m.calls[k].name, 0)
      <4>1. 0 + k = k
        OBVIOUS
      <4> QED
        BY <1>4, <4>1
    <3>2. call = "use" => ids[k] = m.calls[k].id
      BY <1>1
    <3> QED
      BY <3>1, <3>2 DEF Block
  <2>8. Turned(E, m, call)
    BY <1>1, <1>4, <1>7, <2>5, <2>7 DEF Turned
  <2> QED
    BY <2>8 DEF E, all, uses
<1>8. CASE m.size = 0 /\ n = 0
  <2>1. all = << >>
    BY <1>4, <1>8
  <2>4. E = [role |-> role, blocks |-> << x >>]
    BY <1>5, <2>1 DEF Entry
  <2>5. E \in EntrySet /\ E.blocks = << x >>
    <3>1. PICK y \in Seq(BlockSet) : y = << x >>
      BY Singleton
    <3>2. E = [role |-> role, blocks |-> y]
      BY <2>4, <3>1
    <3> HIDE DEF E
    <3> QED
      BY <3>1, <3>2 DEF EntrySet
  <2> HIDE DEF E
  <2>6. \A k \in 1..1 : << x >>[k].kind = "text" /\ << x >>[k].body = m.body
    BY <1>2, <1>5
  <2>7. Turned(E, m, call)
    BY <1>1, <1>8, <2>5, <2>6 DEF Turned
  <2> QED
    BY <2>7 DEF E, all, uses
<1> QED
  BY <1>1, <1>6, <1>7, <1>8

\* Both translators make such an entry of an answer.
LEMMA AssistantsTurned ==
  ASSUME NEW m \in Message
  PROVE  /\ Turned(AnthropicAssistant(m), m, "use")
         /\ AnthropicAssistant(m).role = "assistant"
         /\ Turned(GoogleAssistant(m), m, "call")
         /\ GoogleAssistant(m).role = "model"
<1>1. /\ m.calls \in Seq(ToolCall) /\ DOMAIN m.calls = 1..Len(m.calls)
      /\ \A k \in 1..Len(m.calls) : m.calls[k].id \in CallIds
  <2>1. m.calls \in Seq(ToolCall)
    BY DEF Message
  <2>2. \A k \in 1..Len(m.calls) : m.calls[k] \in ToolCall
    BY <2>1
  <2> QED
    BY <2>1, <2>2 DEF ToolCall
<1>2. Turned(AnthropicAssistant(m), m, "use")
  <2> DEFINE ids == [k \in 1..Len(m.calls) |-> m.calls[k].id]
  <2>1. /\ ids \in Seq(CallIds \cup {NoCall}) /\ Len(ids) = Len(m.calls)
        /\ \A k \in 1..Len(m.calls) : ids[k] = m.calls[k].id
    BY <1>1
  <2>2. [k \in DOMAIN m.calls |-> Block("use", ids[k], m.calls[k].name, 0)]
          = [k \in DOMAIN m.calls |-> Block("use", m.calls[k].id, m.calls[k].name, 0)]
    BY <1>1
  <2> HIDE DEF ids
  <2> QED
    BY <2>1, <2>2, TextAndCalls DEF AnthropicAssistant
<1>3. Turned(GoogleAssistant(m), m, "call")
  <2> DEFINE ids == [k \in 1..Len(m.calls) |-> NoCall]
  <2>1. /\ ids \in Seq(CallIds \cup {NoCall}) /\ Len(ids) = Len(m.calls)
        /\ \A k \in 1..Len(m.calls) : ids[k] = NoCall
    BY <1>1
  <2>2. [k \in DOMAIN m.calls |-> Block("call", ids[k], m.calls[k].name, 0)]
          = [k \in DOMAIN m.calls |-> Block("call", NoCall, m.calls[k].name, 0)]
    BY <1>1
  <2> HIDE DEF ids
  <2> QED
    BY <2>1, <2>2, TextAndCalls DEF GoogleAssistant
<1> QED
  BY <1>2, <1>3 DEF AnthropicAssistant, GoogleAssistant, Entry

\* Where the calls of an answer are in its entry.
LEMMA TurnedPlaces ==
  ASSUME NEW m \in Message, NEW E, NEW call \in {"use", "call"}, Turned(E, m, call)
  PROVE  /\ Cardinality(Places(E, call)) = Len(m.calls)
         /\ Places(E, call) = {} <=> m.calls = << >>
         /\ Places(E, "response") = {} /\ E.blocks # << >>
         /\ \A p \in Places(E, call) :
              /\ Rank(E, call, p) \in 1..Len(m.calls)
              /\ E.blocks[p].name = m.calls[Rank(E, call, p)].name
              /\ call = "use" => E.blocks[p].id = m.calls[Rank(E, call, p)].id
         /\ \A p \in Places(E, call), q \in Places(E, call) :
              Rank(E, call, p) = Rank(E, call, q) => p = q
<1>1. PICK n \in Nat : n = Len(m.calls) /\ (m.calls = << >> <=> n = 0)
  BY DEF Message
<1>2. PICK t \in {0, 1} :
       /\ t = 1 <=> (m.size > 0 \/ m.calls = << >>)
       /\ Len(E.blocks) = t + n
       /\ \A k \in 1..t : E.blocks[k].kind = "text" /\ E.blocks[k].body = m.body
       /\ \A k \in 1..n :
            LET b == E.blocks[t + k]
            IN  /\ b.kind = call /\ b.name = m.calls[k].name /\ b.body = 0
                /\ call = "use" => b.id = m.calls[k].id
  BY <1>1 DEF Turned
<1>3. DOMAIN E.blocks = 1..(t + n) /\ E.blocks \in Seq(BlockSet)
  <2>1. E.blocks \in Seq(BlockSet)
    BY DEF Turned, EntrySet
  <2> QED
    BY <1>2, <2>1
<1>4. ASSUME NEW p \in 1..(t + n)
      PROVE  \/ p \in 1..t /\ E.blocks[p].kind = "text"
             \/ p - t \in 1..n /\ p = t + (p - t) /\ E.blocks[p].kind = call
  <2>1. CASE p <= t
    <3>1. p \in 1..t
      BY <2>1
    <3> QED
      BY <1>2, <3>1
  <2>2. CASE p > t
    <3>1. p - t \in 1..n /\ p = t + (p - t)
      BY <2>2
    <3>2. E.blocks[t + (p - t)].kind = call
      BY <1>2, <3>1
    <3> QED
      BY <3>1, <3>2
  <2> QED
    BY <2>1, <2>2
<1>5. Places(E, call) = (t + 1)..(t + n)
  <2>1. ASSUME NEW p \in Places(E, call)
        PROVE  p \in (t + 1)..(t + n)
    <3>1. p \in 1..(t + n) /\ E.blocks[p].kind = call
      BY <1>3 DEF Places
    <3>2. p - t \in 1..n
      BY <1>4, <3>1
    <3> QED
      BY <3>1, <3>2
  <2>2. ASSUME NEW p \in (t + 1)..(t + n)
        PROVE  p \in Places(E, call)
    <3>1. p \in 1..(t + n) /\ ~(p \in 1..t)
      OBVIOUS
    <3>2. E.blocks[p].kind = call
      BY <1>4, <3>1
    <3> QED
      BY <1>3, <3>1, <3>2 DEF Places
  <2> QED
    BY <2>1, <2>2
<1>6. Cardinality(Places(E, call)) = n
  <2>1. t + 1 \in Int /\ t + n \in Int
    OBVIOUS
  <2>2. Cardinality((t + 1)..(t + n)) = IF t + 1 > t + n THEN 0 ELSE (t + n) - (t + 1) + 1
    BY <2>1, FS_Interval
  <2> QED
    BY <1>5, <2>2
<1>7. ASSUME NEW p \in Places(E, call)
      PROVE  /\ Rank(E, call, p) \in 1..n /\ Rank(E, call, p) = p - t
             /\ E.blocks[p].name = m.calls[Rank(E, call, p)].name
             /\ call = "use" => E.blocks[p].id = m.calls[Rank(E, call, p)].id
  <2>1. p - t \in 1..n /\ p = t + (p - t) /\ p \in Int
    BY <1>5
  <2>2. {q \in Places(E, call) : q <= p} = (t + 1)..p
    BY <1>5
  <2>3. Cardinality((t + 1)..p) = p - t
    <3>1. Cardinality((t + 1)..p) = IF t + 1 > p THEN 0 ELSE p - (t + 1) + 1
      BY <2>1, FS_Interval
    <3> QED
      BY <2>1, <3>1
  <2>4. Rank(E, call, p) = p - t
    BY <2>2, <2>3 DEF Rank
  <2>5. /\ E.blocks[t + (p - t)].name = m.calls[p - t].name
        /\ call = "use" => E.blocks[t + (p - t)].id = m.calls[p - t].id
    BY <1>2, <2>1
  <2> QED
    BY <2>1, <2>4, <2>5
<1>8. Places(E, call) = {} <=> n = 0
  BY <1>5
<1>9. Places(E, "response") = {}
  <2> SUFFICES ASSUME NEW p \in Places(E, "response")
               PROVE  FALSE
    OBVIOUS
  <2>1. p \in 1..(t + n) /\ E.blocks[p].kind = "response"
    BY <1>3 DEF Places
  <2> QED
    BY <1>4, <2>1
<1>10. E.blocks # << >>
  BY <1>1, <1>2, <1>3
<1>11. ASSUME NEW p \in Places(E, call), NEW q \in Places(E, call),
              Rank(E, call, p) = Rank(E, call, q)
       PROVE  p = q
  <2>1. p - t = q - t /\ p \in Int /\ q \in Int
    BY <1>5, <1>7, <1>11
  <2> QED
    BY <2>1
<1> QED
  BY <1>1, <1>6, <1>7, <1>8, <1>9, <1>10, <1>11


-----------------------------------------------------------------------------
(* The requests, entry by entry.                                           *)

\* The name for an id is that of a call with the id, if there is one.
LEMMA NameFound ==
  ASSUME NEW h \in Seq(Message), NEW id
  PROVE  \/ /\ NameOf(h, id) = "unknown"
            /\ \A i \in Assistants(h) : \A k \in DOMAIN h[i].calls : h[i].calls[k].id # id
         \/ \E i \in Assistants(h) : \E k \in DOMAIN h[i].calls :
               h[i].calls[k].id = id /\ NameOf(h, id) = h[i].calls[k].name
<1> DEFINE named == {j \in Assistants(h) :
                       \E k \in DOMAIN h[j].calls : h[j].calls[k].id = id}
           j == CHOOSE j \in named : \A i \in named : i <= j
           calls == h[j].calls
           Final(k) == /\ calls[k].id = id
                      /\ \A i \in DOMAIN calls : calls[i].id = id => i <= k
           last == CHOOSE k \in DOMAIN calls : Final(k)
<1>1. CASE named = {}
  BY <1>1 DEF NameOf
<1>2. CASE named # {}
  <2>1. named \subseteq 1..Len(h) /\ Len(h) \in Nat
    BY DEF Assistants
  <2>2. j \in named
    <3>1. \E x \in named : \A y \in named : x >= y
      <4>1. Max(named) \in named /\ \A y \in named : Max(named) >= y
        BY <1>2, <2>1, Greatest
      <4> QED
        BY <4>1
    <3>2. \E x \in named : \A y \in named : y <= x
      BY <2>1, <3>1
    <3> HIDE DEF named
    <3> QED
      BY <3>2
  <2>3. h[j] \in Message /\ \E k \in DOMAIN h[j].calls : h[j].calls[k].id = id
    <3>1. j \in 1..Len(h)
      BY <2>1, <2>2
    <3>2. \E k \in DOMAIN h[j].calls : h[j].calls[k].id = id
      <4> HIDE DEF j
      <4> QED
        BY <2>2
    <3> HIDE DEF j
    <3> QED
      BY <3>1, <3>2
  <2> HIDE DEF j
  <2>4. calls \in Seq(ToolCall) /\ DOMAIN calls = 1..Len(calls) /\ Len(calls) \in Nat
    BY <2>3 DEF Message
  <2> DEFINE S == {k \in 1..Len(calls) : calls[k].id = id}
  <2>5. S # {} /\ S \subseteq 1..Len(calls)
    BY <2>3, <2>4
  <2>6. \E k \in DOMAIN calls : Final(k)
    <3>1. Max(S) \in S /\ \A y \in S : Max(S) >= y
      BY <2>4, <2>5, Greatest
    <3>2. PICK x \in S : \A y \in S : x >= y
      BY <3>1
    <3>3. \A i \in DOMAIN calls : calls[i].id = id => i <= x
      BY <2>4, <3>2
    <3> QED
      BY <2>4, <3>2, <3>3
  <2> HIDE DEF calls
  <2>7. last \in DOMAIN calls /\ Final(last)
    BY <2>6
  <2> HIDE DEF last
  <2>8. NameOf(h, id) = calls[last].name
    BY <1>2 DEF NameOf, last, calls, j, named
  <2>9. j \in Assistants(h)
    BY <2>2
  <2> HIDE DEF j
  <2> QED
    BY <2>7, <2>8, <2>9 DEF calls
<1> QED
  BY <1>1, <1>2

\* It is the name of a tool, or "unknown".
LEMMA NameType ==
  ASSUME NEW h \in Seq(Message), NEW id
  PROVE  NameOf(h, id) \in Tools \cup {"unknown"}
<1> SUFFICES ASSUME NEW i \in Assistants(h), NEW k \in DOMAIN h[i].calls,
                    NameOf(h, id) = h[i].calls[k].name
             PROVE  NameOf(h, id) \in Tools
  BY NameFound
<1>1. h[i] \in Message
  BY AssistantCalls
<1>2. h[i].calls \in Seq(ToolCall)
  BY <1>1 DEF Message
<1>3. h[i].calls[k] \in ToolCall
  BY <1>2
<1> QED
  BY <1>3 DEF ToolCall

\* No two calls with the same id ask for different tools.
NamesKnown(h) ==
  \A i, j \in Assistants(h) :
     \A k \in DOMAIN h[i].calls, l \in DOMAIN h[j].calls :
        h[i].calls[k].id = h[j].calls[l].id => h[i].calls[k].name = h[j].calls[l].name

\* With ids that know their tool it is the name of the call itself.
LEMMA NameRight ==
  ASSUME NEW h \in Seq(Message), NamesKnown(h),
         NEW j \in Assistants(h), NEW k \in DOMAIN h[j].calls
  PROVE  NameOf(h, h[j].calls[k].id) = h[j].calls[k].name
BY NameFound DEF NamesKnown

\* What is appended to a request is an entry, and what is added a block.
LEMMA AnthropicType ==
  ASSUME NEW R \in Seq(EntrySet), NEW m \in Message
  PROVE  AnthropicAppend(R, m) \in Seq(EntrySet)
<1>1. ASSUME NEW b \in BlockSet
      PROVE  AppendUserBlock(R, b) \in Seq(EntrySet)
  <2>1. << b >> \in Seq(BlockSet)
    BY Singleton
  <2>2. Entry("user", << b >>) \in EntrySet
    BY <2>1 DEF Entry, EntrySet
  <2>3. Append(R, Entry("user", << b >>)) \in Seq(EntrySet)
    BY <2>2
  <2>4. R # << >> => AddBlock(R, b) \in Seq(EntrySet)
    BY AddBlockShape
  <2> QED
    BY <2>3, <2>4 DEF AppendUserBlock
<1>2. m.role \in Roles /\ m.id \in CallIds \cup {NoCall}
  BY DEF Message
<1>3. CASE m.role = "system"
  BY <1>3 DEF AnthropicAppend
<1>4. CASE m.role = "user"
  BY <1>1, <1>4, BlockTypes DEF AnthropicAppend
<1>5. CASE m.role = "assistant"
  <2>1. AnthropicAssistant(m) \in EntrySet
    BY AssistantsTurned DEF Turned
  <2>2. Append(R, AnthropicAssistant(m)) \in Seq(EntrySet)
    BY <2>1
  <2> QED
    BY <1>5, <2>2 DEF AnthropicAppend
<1>6. CASE m.role = "tool"
  <2>1. Block("result", m.id, "tool", m.body) \in BlockSet
    BY <1>2, BlockTypes
  <2> QED
    BY <1>1, <1>6, <2>1 DEF AnthropicAppend
<1> QED
  BY <1>2, <1>3, <1>4, <1>5, <1>6 DEF Roles

\* The same for Gemini.
LEMMA GoogleType ==
  ASSUME NEW h \in Seq(Message), NEW R \in Seq(EntrySet), NEW m \in Message
  PROVE  GoogleAppend(h, R, m) \in Seq(EntrySet)
<1>1. ASSUME NEW b \in BlockSet
      PROVE  /\ Append(R, Entry("user", << b >>)) \in Seq(EntrySet)
             /\ AppendToolPart(R, b) \in Seq(EntrySet)
  <2>1. << b >> \in Seq(BlockSet)
    BY Singleton
  <2>2. Entry("user", << b >>) \in EntrySet
    BY <2>1 DEF Entry, EntrySet
  <2>3. Append(R, Entry("user", << b >>)) \in Seq(EntrySet)
    BY <2>2
  <2>4. R # << >> => AddBlock(R, b) \in Seq(EntrySet)
    BY AddBlockShape
  <2> QED
    BY <2>3, <2>4 DEF AppendToolPart
<1>2. m.role \in Roles
  BY DEF Message
<1>3. CASE m.role = "system"
  BY <1>3 DEF GoogleAppend
<1>4. CASE m.role = "user"
  BY <1>1, <1>4, BlockTypes DEF GoogleAppend
<1>5. CASE m.role = "assistant"
  <2>1. GoogleAssistant(m) \in EntrySet
    BY AssistantsTurned DEF Turned
  <2>2. Append(R, GoogleAssistant(m)) \in Seq(EntrySet)
    BY <2>1
  <2> QED
    BY <1>5, <2>2 DEF GoogleAppend
<1>6. CASE m.role = "tool"
  <2>1. Block("response", NoCall, NameOf(h, m.id), m.body) \in BlockSet
    BY NameType, BlockTypes
  <2> QED
    BY <1>1, <1>6, <2>1 DEF GoogleAppend
<1> QED
  BY <1>2, <1>3, <1>4, <1>5, <1>6 DEF Roles

\* The partial results of AnthropicRequest.
AnthropicParts(f, h) ==
  /\ f[0] = << >>
  /\ \A i \in 1..Len(h) : f[i] = AnthropicAppend(f[i - 1], h[i])

\* The recursion of AnthropicRequest has a value for each prefix of the history.
LEMMA AnthropicRequestInParts ==
  ASSUME NEW h \in Seq(Message)
  PROVE  \E f \in [0..Len(h) -> Seq(EntrySet)] :
            AnthropicParts(f, h) /\ AnthropicRequest(h) = f[Len(h)]
<1> DEFINE n == Len(h)
           G == [p \in (1..n) \X Seq(EntrySet) |-> AnthropicAppend(p[2], h[p[1]])]
           Body(g, i) == IF i = 0 THEN << >> ELSE AnthropicAppend(g[i - 1], h[i])
           It == CHOOSE g : g = [i \in 0..n |-> Body(g, i)]
<1>1. n \in Nat /\ \A i \in 1..n : h[i] \in Message
  OBVIOUS
<1>2. AnthropicRequest(h) = It[n]
  BY DEF AnthropicRequest
<1> HIDE DEF n
<1>3. \A i \in 1..n, R \in Seq(EntrySet) :
         G[<< i, R >>] = AnthropicAppend(R, h[i]) /\ AnthropicAppend(R, h[i]) \in Seq(EntrySet)
  BY <1>1, AnthropicType
<1>4. G \in [(1..n) \X Seq(EntrySet) -> Seq(EntrySet)]
  BY <1>3
<1> HIDE DEF G
<1>5. PICK f \in [0..n -> Seq(EntrySet)] : f[0] = << >> /\ \A i \in 1..n : f[i] = G[<< i, f[i - 1] >>]
  <2> DEFINE TT == Seq(EntrySet)
             b == << >>
  <2>1. b \in TT /\ G \in [(1..n) \X TT -> TT]
    BY <1>4
  <2> HIDE DEF TT, b
  <2>2. \E f \in [0..n -> TT] : Iteration(f, n, b, G)
    BY <1>1, <2>1, Iterates
  <2> QED
    BY <2>2 DEF TT, b, Iteration
<1>6. f[0] = << >> /\ \A i \in 1..n : f[i] = AnthropicAppend(f[i - 1], h[i])
  <2>1. \A i \in 1..n : i - 1 \in 0..n
    BY <1>1
  <2> QED
    BY <1>3, <1>5, <2>1
<1>7. \A i \in 0..n : f[i] = Body(f, i)
  <2>1. \A i \in 0..n : i = 0 \/ i \in 1..n
    BY <1>1
  <2>2. \A i \in 1..n : i # 0
    BY <1>1
  <2> QED
    BY <1>6, <2>1, <2>2
<1>8. f = [i \in 0..n |-> Body(f, i)]
  BY <1>7
<1>9. It = [i \in 0..n |-> Body(It, i)]
  BY <1>8
<1> HIDE DEF It
<1>10. \A i \in 0..n : It[i] = Body(It, i)
  BY <1>9
<1> DEFINE N == {i \in Nat : i <= n => It[i] = f[i]}
<1>11. 0 \in N
  BY <1>1, <1>6, <1>10
<1>12. ASSUME NEW i \in Nat, i \in N
       PROVE  i + 1 \in N
  <2> SUFFICES ASSUME i + 1 <= n
               PROVE  It[i + 1] = f[i + 1]
    OBVIOUS
  <2>1. i + 1 \in 0..n /\ i + 1 \in 1..n /\ i + 1 # 0 /\ (i + 1) - 1 = i /\ i <= n
    BY <1>1
  <2>2. It[i + 1] = AnthropicAppend(It[i], h[i + 1])
    BY <1>10, <2>1
  <2>3. f[i + 1] = AnthropicAppend(f[i], h[i + 1])
    BY <1>6, <2>1
  <2> QED
    BY <1>12, <2>1, <2>2, <2>3
<1> HIDE DEF N
<1>13. n \in N
  BY <1>1, <1>11, <1>12, NaturalInduction
<1>14. It[n] = f[n]
  BY <1>1, <1>13 DEF N
<1> QED
  BY <1>2, <1>6, <1>14 DEF AnthropicParts, n

\* The partial results of GoogleRequest.
GoogleParts(f, h) ==
  /\ f[0] = << >>
  /\ \A i \in 1..Len(h) : f[i] = GoogleAppend(h, f[i - 1], h[i])

\* So has that of GoogleRequest.
LEMMA GoogleRequestInParts ==
  ASSUME NEW h \in Seq(Message)
  PROVE  \E f \in [0..Len(h) -> Seq(EntrySet)] :
            GoogleParts(f, h) /\ GoogleRequest(h) = f[Len(h)]
<1> DEFINE n == Len(h)
           G == [p \in (1..n) \X Seq(EntrySet) |-> GoogleAppend(h, p[2], h[p[1]])]
           Body(g, i) == IF i = 0 THEN << >> ELSE GoogleAppend(h, g[i - 1], h[i])
           It == CHOOSE g : g = [i \in 0..n |-> Body(g, i)]
<1>1. n \in Nat /\ \A i \in 1..n : h[i] \in Message
  OBVIOUS
<1>2. GoogleRequest(h) = It[n]
  BY DEF GoogleRequest
<1> HIDE DEF n
<1>3. \A i \in 1..n, R \in Seq(EntrySet) :
         G[<< i, R >>] = GoogleAppend(h, R, h[i]) /\ GoogleAppend(h, R, h[i]) \in Seq(EntrySet)
  BY <1>1, GoogleType
<1>4. G \in [(1..n) \X Seq(EntrySet) -> Seq(EntrySet)]
  BY <1>3
<1> HIDE DEF G
<1>5. PICK f \in [0..n -> Seq(EntrySet)] : f[0] = << >> /\ \A i \in 1..n : f[i] = G[<< i, f[i - 1] >>]
  <2> DEFINE TT == Seq(EntrySet)
             b == << >>
  <2>1. b \in TT /\ G \in [(1..n) \X TT -> TT]
    BY <1>4
  <2> HIDE DEF TT, b
  <2>2. \E f \in [0..n -> TT] : Iteration(f, n, b, G)
    BY <1>1, <2>1, Iterates
  <2> QED
    BY <2>2 DEF TT, b, Iteration
<1>6. f[0] = << >> /\ \A i \in 1..n : f[i] = GoogleAppend(h, f[i - 1], h[i])
  <2>1. \A i \in 1..n : i - 1 \in 0..n
    BY <1>1
  <2> QED
    BY <1>3, <1>5, <2>1
<1>7. \A i \in 0..n : f[i] = Body(f, i)
  <2>1. \A i \in 0..n : i = 0 \/ i \in 1..n
    BY <1>1
  <2>2. \A i \in 1..n : i # 0
    BY <1>1
  <2> QED
    BY <1>6, <2>1, <2>2
<1>8. f = [i \in 0..n |-> Body(f, i)]
  BY <1>7
<1>9. It = [i \in 0..n |-> Body(It, i)]
  BY <1>8
<1> HIDE DEF It
<1>10. \A i \in 0..n : It[i] = Body(It, i)
  BY <1>9
<1> DEFINE N == {i \in Nat : i <= n => It[i] = f[i]}
<1>11. 0 \in N
  BY <1>1, <1>6, <1>10
<1>12. ASSUME NEW i \in Nat, i \in N
       PROVE  i + 1 \in N
  <2> SUFFICES ASSUME i + 1 <= n
               PROVE  It[i + 1] = f[i + 1]
    OBVIOUS
  <2>1. i + 1 \in 0..n /\ i + 1 \in 1..n /\ i + 1 # 0 /\ (i + 1) - 1 = i /\ i <= n
    BY <1>1
  <2>2. It[i + 1] = GoogleAppend(h, It[i], h[i + 1])
    BY <1>10, <2>1
  <2>3. f[i + 1] = GoogleAppend(h, f[i], h[i + 1])
    BY <1>6, <2>1
  <2> QED
    BY <1>12, <2>1, <2>2, <2>3
<1> HIDE DEF N
<1>13. n \in N
  BY <1>1, <1>11, <1>12, NaturalInduction
<1>14. It[n] = f[n]
  BY <1>1, <1>13 DEF N
<1> QED
  BY <1>2, <1>6, <1>14 DEF GoogleParts, n

-----------------------------------------------------------------------------
(* What a request says.                                                    *)

\* What blocks say: a kind, and which message it is from.
Saying == {"text", "use", "result", "call", "response"} \X Nat

SaidAll(R) == [i \in DOMAIN R |-> Said(R[i])]

\* An entry says one thing for each of its blocks.
LEMMA SaidType ==
  ASSUME NEW e \in EntrySet
  PROVE  Said(e) \in Seq(Saying) /\ Len(Said(e)) = Len(e.blocks)
<1>1. e.blocks \in Seq(BlockSet)
  BY DEF EntrySet
<1>2. \A k \in DOMAIN e.blocks : << e.blocks[k].kind, e.blocks[k].body >> \in Saying
  <2> SUFFICES ASSUME NEW k \in DOMAIN e.blocks
               PROVE  << e.blocks[k].kind, e.blocks[k].body >> \in Saying
    OBVIOUS
  <2>1. e.blocks[k] \in BlockSet
    BY <1>1
  <2> QED
    BY <2>1 DEF BlockSet, Saying
<1>3. DOMAIN e.blocks = 1..Len(e.blocks) /\ Len(e.blocks) \in Nat
  BY <1>1
<1>4. Said(e) = [k \in 1..Len(e.blocks) |-> << e.blocks[k].kind, e.blocks[k].body >>]
  BY <1>3 DEF Said
<1>5. Said(e) \in [1..Len(e.blocks) -> Saying]
  BY <1>2, <1>3, <1>4
<1> QED
  BY <1>3, <1>5

\* A request says what its entries say, one after the other.
LEMMA SaidAllType ==
  ASSUME NEW R \in Seq(EntrySet)
  PROVE  /\ SaidAll(R) \in Seq(Seq(Saying)) /\ Len(SaidAll(R)) = Len(R)
         /\ \A i \in 1..Len(R) : SaidAll(R)[i] = Said(R[i])
<1>1. \A i \in 1..Len(R) : R[i] \in EntrySet /\ Said(R[i]) \in Seq(Saying)
  BY SaidType
<1> QED
  BY <1>1 DEF SaidAll

\* An entry more says what the entry says.
LEMMA SaidAppend ==
  ASSUME NEW R \in Seq(EntrySet), NEW e \in EntrySet
  PROVE  FlattenSeq(SaidAll(Append(R, e))) = Join(FlattenSeq(SaidAll(R)), Said(e))
<1> DEFINE Q == Append(R, e)
           s == SaidAll(R)
           t == Append(s, Said(e))
           n == Len(R)
<1>1. /\ Q \in Seq(EntrySet) /\ Len(Q) = n + 1 /\ Q[n + 1] = e
      /\ \A i \in 1..n : Q[i] = R[i]
  OBVIOUS
<1>2. /\ s \in Seq(Seq(Saying)) /\ Len(s) = n /\ n \in Nat
      /\ \A i \in 1..n : s[i] = Said(R[i])
  BY SaidAllType
<1>3. Said(e) \in Seq(Saying)
  BY SaidType
<1>4. /\ SaidAll(Q) \in Seq(Seq(Saying)) /\ Len(SaidAll(Q)) = n + 1
      /\ \A i \in 1..(n + 1) : SaidAll(Q)[i] = Said(Q[i])
  BY <1>1, SaidAllType
<1> HIDE DEF Q, s
<1>5. /\ t \in Seq(Seq(Saying)) /\ Len(t) = n + 1 /\ t[n + 1] = Said(e)
      /\ \A i \in 1..n : t[i] = s[i]
  BY <1>2, <1>3
<1>6. \A i \in 1..(n + 1) : SaidAll(Q)[i] = t[i]
  <2> SUFFICES ASSUME NEW i \in 1..(n + 1)
               PROVE  SaidAll(Q)[i] = t[i]
    OBVIOUS
  <2>1. i \in 1..n \/ i = n + 1
    BY <1>2
  <2> QED
    BY <1>1, <1>2, <1>4, <1>5, <2>1
<1> HIDE DEF t
<1>7. SaidAll(Q) = t
  <2> DEFINE SS == Seq(Saying)
  <2>1. SaidAll(Q) \in Seq(SS) /\ t \in Seq(SS)
    BY <1>4, <1>5
  <2> HIDE DEF SS
  <2> QED
    BY <1>4, <1>5, <1>6, <2>1, SameSequence
<1>8. FlattenSeq(t) = Join(FlattenSeq(s), Said(e))
  BY <1>2, <1>3, FlattenAppend DEF t
<1> QED
  BY <1>7, <1>8 DEF Q, s

\* So does a block more for the last entry.
LEMMA SaidAdded ==
  ASSUME NEW R \in Seq(EntrySet), R # << >>, NEW b \in BlockSet
  PROVE  FlattenSeq(SaidAll(AddBlock(R, b)))
           = Join(FlattenSeq(SaidAll(R)), << << b.kind, b.body >> >>)
<1> DEFINE n == Len(R)
           P == SubSeq(R, 1, n - 1)
           Q == AddBlock(R, b)
           x == << b.kind, b.body >>
<1>1. n \in Nat /\ n >= 1 /\ R[n] \in EntrySet
  OBVIOUS
<1>2. /\ Q \in Seq(EntrySet) /\ Len(Q) = n
      /\ \A i \in 1..(n - 1) : Q[i] = R[i]
      /\ Q[n].blocks = Append(R[n].blocks, b)
  BY AddBlockShape
<1> HIDE DEF Q
<1>3. Q[n] \in EntrySet
  BY <1>1, <1>2
<1>4. P \in Seq(EntrySet) /\ Len(P) = n - 1 /\ \A i \in 1..(n - 1) : P[i] = R[i]
  <2>1. /\ 1 \in 1..(Len(R) + 1) /\ n - 1 \in Nat /\ n - 1 <= Len(R) /\ 1 <= (n - 1) + 1
        /\ (n - 1) + 1 - 1 = n - 1 /\ \A i \in 1..(n - 1) : 1 + i - 1 = i
    BY <1>1
  <2> QED
    BY <2>1, Slice
<1> HIDE DEF P
<1>5. Append(P, R[n]) = R /\ Append(P, Q[n]) = Q
  <2>1. ASSUME NEW W \in Seq(EntrySet), Len(W) = n, \A i \in 1..(n - 1) : P[i] = W[i]
        PROVE  Append(P, W[n]) = W
    <3> DEFINE V == Append(P, W[n])
    <3>1. W[n] \in EntrySet
      BY <1>1, <2>1
    <3>2. V \in Seq(EntrySet) /\ Len(V) = n /\ V[n] = W[n] /\ \A i \in 1..(n - 1) : V[i] = P[i]
      BY <1>1, <1>4, <3>1
    <3> HIDE DEF V
    <3>3. \A i \in 1..n : i \in 1..(n - 1) \/ i = n
      BY <1>1
    <3>4. \A i \in 1..Len(V) : V[i] = W[i]
      BY <2>1, <3>2, <3>3
    <3>5. V = W
      BY <2>1, <3>2, <3>4, SameSequence
    <3> QED
      BY <3>5 DEF V
  <2> QED
    BY <1>2, <1>4, <2>1
<1>6. /\ FlattenSeq(SaidAll(R)) = Join(FlattenSeq(SaidAll(P)), Said(R[n]))
      /\ FlattenSeq(SaidAll(Q)) = Join(FlattenSeq(SaidAll(P)), Said(Q[n]))
  BY <1>1, <1>3, <1>4, <1>5, SaidAppend
<1>7. Said(Q[n]) = Join(Said(R[n]), << x >>)
  <2>1. R[n].blocks \in Seq(BlockSet)
    BY <1>1 DEF EntrySet
  <2> DEFINE B == R[n].blocks
             C == Append(B, b)
             k == Len(B)
  <2>2. k \in Nat /\ Len(C) = k + 1 /\ C[k + 1] = b /\ \A i \in 1..k : C[i] = B[i]
    BY <2>1
  <2>3. Said(R[n]) \in Seq(Saying) /\ Len(Said(R[n])) = k
    BY <1>1, SaidType
  <2>4. Said(Q[n]) \in Seq(Saying) /\ Len(Said(Q[n])) = k + 1
    BY <1>2, <1>3, <2>2, SaidType
  <2>5. /\ \A i \in 1..k : Said(R[n])[i] = << B[i].kind, B[i].body >>
        /\ \A i \in 1..(k + 1) : Said(Q[n])[i] = << C[i].kind, C[i].body >>
    <3>1. DOMAIN C = 1..(k + 1) /\ DOMAIN B = 1..k
      BY <2>1
    <3> QED
      BY <1>2, <3>1 DEF Said
  <2>6. x \in Saying /\ << x >> \in Seq(Saying) /\ Len(<< x >>) = 1 /\ << x >>[1] = x
    <3>1. x \in Saying
      BY DEF BlockSet, Saying
    <3> HIDE DEF x
    <3> QED
      BY <3>1, Singleton
  <2> DEFINE u == Said(R[n])
             v == Said(Q[n])
             w == Join(u, << x >>)
  <2>7. /\ \A i \in 1..k : v[i] = u[i]
        /\ v[k + 1] = x
    <3>1. \A i \in 1..k : i \in 1..(k + 1)
      BY <2>2
    <3>2. k + 1 \in 1..(k + 1)
      BY <2>2
    <3> QED
      BY <2>2, <2>5, <3>1, <3>2
  <2> HIDE DEF u, v, x, k, B, C
  <2>8. w \in Seq(Saying) /\ Len(w) = k + 1 /\ w[k + 1] = x /\ \A i \in 1..k : w[i] = u[i]
    BY <2>2, <2>3, <2>6 DEF u, Join
  <2>9. \A i \in 1..(k + 1) : i \in 1..k \/ i = k + 1
    BY <2>2
  <2> HIDE DEF w
  <2>10. \A i \in 1..Len(v) : v[i] = w[i]
    BY <2>4, <2>7, <2>8, <2>9 DEF v
  <2>11. v = w
    BY <2>4, <2>8, <2>10, SameSequence DEF v
  <2> QED
    BY <2>11 DEF u, v, w
<1>8. /\ FlattenSeq(SaidAll(P)) \in Seq(Saying) /\ Said(R[n]) \in Seq(Saying)
      /\ << x >> \in Seq(Saying)
  <2>1. x \in Saying
    BY DEF BlockSet, Saying
  <2> HIDE DEF x
  <2> QED
    BY <1>1, <1>4, <2>1, Singleton, SaidType, SaidAllType, FlatStep
<1> DEFINE F == FlattenSeq(SaidAll(P))
           u == Said(R[n])
           w == << x >>
<1>9. Join(Join(F, u), w) = Join(F, Join(u, w))
  <2>1. F \in Seq(Saying) /\ u \in Seq(Saying) /\ w \in Seq(Saying)
    BY <1>8
  <2> HIDE DEF F, u, w
  <2> QED
    BY <2>1, Associative
<1>10. FlattenSeq(SaidAll(Q)) = Join(FlattenSeq(SaidAll(R)), w)
  BY <1>6, <1>7, <1>9, Zenon
<1> QED
  BY <1>10 DEF Q

\* What one message adds to a request is what has to be said of it.
LEMMA HeldType ==
  ASSUME NEW m \in Message, NEW call \in {"use", "call"},
         NEW result \in {"result", "response"}
  PROVE  Held(m, call, result) \in Seq(Saying)
<1>1. m.role \in Roles /\ m.body \in Nat /\ m.calls \in Seq(ToolCall)
  BY DEF Message
<1>2. \A kind \in {"text", "use", "result", "call", "response"}, n \in Nat :
         << kind, n >> \in Saying
  BY DEF Saying
<1>3. \A kind \in {"text", "use", "result", "call", "response"} :
         << << kind, m.body >> >> \in Seq(Saying)
  BY <1>1, <1>2, Singleton
<1>4. << >> \in Seq(Saying)
  OBVIOUS
<1>5. CASE m.role = "assistant"
  <2> DEFINE t == IF m.size > 0 \/ m.calls = << >> THEN << << "text", m.body >> >> ELSE << >>
             c == [k \in DOMAIN m.calls |-> << call, 0 >>]
  <2>1. t \in Seq(Saying)
    BY <1>3, <1>4
  <2>2. c \in Seq(Saying)
    <3>1. DOMAIN m.calls = 1..Len(m.calls) /\ Len(m.calls) \in Nat
      BY <1>1
    <3>2. << call, 0 >> \in Saying
      BY <1>2
    <3> QED
      BY <3>1, <3>2
  <2> HIDE DEF t, c
  <2>3. t \o c \in Seq(Saying)
    BY <2>1, <2>2
  <2> QED
    BY <1>5, <2>3 DEF Held, t, c
<1>6. CASE m.role # "assistant"
  BY <1>1, <1>3, <1>4, <1>6 DEF Held, Roles
<1> QED
  BY <1>5, <1>6

\* The entry of an answer says its text and its calls.
LEMMA TurnedSaid ==
  ASSUME NEW m \in Message, m.role = "assistant", NEW E,
         NEW call \in {"use", "call"}, NEW result \in {"result", "response"},
         Turned(E, m, call)
  PROVE  Said(E) = Held(m, call, result)
<1>1. PICK n \in Nat : /\ n = Len(m.calls) /\ (m.calls = << >> <=> n = 0)
                       /\ DOMAIN m.calls = 1..n
  BY DEF Message
<1>2. PICK t \in {0, 1} :
       /\ t = 1 <=> (m.size > 0 \/ m.calls = << >>)
       /\ Len(E.blocks) = t + n
       /\ \A k \in 1..t : E.blocks[k].kind = "text" /\ E.blocks[k].body = m.body
       /\ \A k \in 1..n : E.blocks[t + k].kind = call /\ E.blocks[t + k].body = 0
  BY <1>1 DEF Turned
<1> DEFINE s == Said(E)
           a == IF m.size > 0 \/ m.calls = << >> THEN << << "text", m.body >> >> ELSE << >>
           c == [k \in DOMAIN m.calls |-> << call, 0 >>]
           w == a \o c
<1>3. /\ s \in Seq(Saying) /\ Len(s) = t + n
      /\ \A k \in 1..(t + n) : s[k] = << E.blocks[k].kind, E.blocks[k].body >>
  <2>1. E \in EntrySet
    BY DEF Turned
  <2>2. E.blocks \in Seq(BlockSet)
    BY <2>1 DEF EntrySet
  <2>3. DOMAIN E.blocks = 1..(t + n)
    BY <1>2, <2>2
  <2> QED
    BY <1>2, <2>1, <2>3, SaidType DEF Said
<1>4. w = Held(m, call, result)
  BY DEF Held
<1>5. a \in Seq(Saying) /\ Len(a) = t /\ \A k \in 1..t : a[k] = << "text", m.body >>
  <2>1. << "text", m.body >> \in Saying
    BY DEF Saying, Message
  <2> DEFINE x == << "text", m.body >>
  <2> HIDE DEF x
  <2>2. << x >> \in Seq(Saying) /\ Len(<< x >>) = 1 /\ << x >>[1] = x
    BY <2>1, Singleton DEF x
  <2>3. CASE t = 1
    <3>1. a = << x >>
      BY <1>2, <2>3 DEF x
    <3>2. \A k \in 1..t : k = 1
      BY <2>3
    <3> QED
      BY <2>2, <2>3, <3>1, <3>2 DEF x
  <2>4. CASE t = 0
    <3>1. a = << >>
      BY <1>2, <2>4
    <3> QED
      BY <2>4, <3>1
  <2> QED
    BY <2>3, <2>4
<1>6. c \in Seq(Saying) /\ Len(c) = n /\ \A k \in 1..n : c[k] = << call, 0 >>
  <2>1. << call, 0 >> \in Saying
    BY DEF Saying
  <2> QED
    BY <1>1, <2>1
<1> HIDE DEF s, a, c
<1>7. /\ w \in Seq(Saying) /\ Len(w) = t + n
      /\ \A k \in 1..t : w[k] = a[k]
      /\ \A k \in 1..n : w[t + k] = c[k]
  BY <1>5, <1>6
<1> HIDE DEF w
<1>8. \A k \in 1..(t + n) : s[k] = w[k]
  <2> SUFFICES ASSUME NEW k \in 1..(t + n)
               PROVE  s[k] = w[k]
    OBVIOUS
  <2>1. CASE k <= t
    <3>1. k \in 1..t
      BY <2>1
    <3> QED
      BY <1>2, <1>3, <1>5, <1>7, <3>1
  <2>2. CASE k > t
    <3>1. PICK i \in 1..n : k = t + i
      <4>1. k - t \in 1..n /\ k = t + (k - t)
        BY <2>2
      <4> QED
        BY <4>1
    <3>2. s[k] = << call, 0 >>
      BY <1>2, <1>3, <3>1
    <3>3. w[k] = << call, 0 >>
      BY <1>6, <1>7, <3>1
    <3> QED
      BY <3>2, <3>3
  <2> QED
    BY <2>1, <2>2
<1>9. s = w
  BY <1>3, <1>7, <1>8, SameSequence
<1> QED
  BY <1>4, <1>9 DEF s

\* A block that opens an entry of its own, or joins the last one.
LEMMA BlockSaid ==
  ASSUME NEW R \in Seq(EntrySet), NEW b \in BlockSet,
         NEW Q, \/ Q = Append(R, Entry("user", << b >>))
                \/ R # << >> /\ Q = AddBlock(R, b)
  PROVE  FlattenSeq(SaidAll(Q)) = Join(FlattenSeq(SaidAll(R)), << << b.kind, b.body >> >>)
<1> DEFINE e == Entry("user", << b >>)
<1>1. e \in EntrySet /\ e.blocks = << b >>
  BY Singleton DEF Entry, EntrySet
<1>2. Said(e) = << << b.kind, b.body >> >>
  <2>1. << b >> \in Seq(BlockSet) /\ Len(<< b >>) = 1 /\ << b >>[1] = b
    BY Singleton
  <2>2. DOMAIN << b >> = 1..1
    BY <2>1
  <2> DEFINE x == << b.kind, b.body >>
  <2>3. Said(e) = [k \in 1..1 |-> << << b >>[k].kind, << b >>[k].body >>]
    BY <1>1, <2>2 DEF Said
  <2>4. \A k \in 1..1 : k = 1
    OBVIOUS
  <2>5. Said(e) = [k \in 1..1 |-> x]
    BY <2>1, <2>3, <2>4
  <2> HIDE DEF x, e
  <2>6. << x >> = [k \in 1..1 |-> x]
    OBVIOUS
  <2> QED
    BY <2>5, <2>6 DEF x
<1> HIDE DEF e
<1>3. CASE Q = Append(R, e)
  BY <1>1, <1>2, <1>3, SaidAppend
<1> QED
  BY <1>3, SaidAdded DEF e

\* A message appended for Anthropic: all of it is said, at the end.
LEMMA AnthropicSays ==
  ASSUME NEW R \in Seq(EntrySet), NEW m \in Message
  PROVE  FlattenSeq(SaidAll(AnthropicAppend(R, m)))
           = Join(FlattenSeq(SaidAll(R)), Held(m, "use", "result"))
<1>1. m.role \in Roles /\ m.id \in CallIds \cup {NoCall}
  BY DEF Message
<1>2. FlattenSeq(SaidAll(R)) \in Seq(Saying)
  BY SaidAllType, FlatStep
<1>3. ASSUME NEW b \in BlockSet
      PROVE  FlattenSeq(SaidAll(AppendUserBlock(R, b)))
               = Join(FlattenSeq(SaidAll(R)), << << b.kind, b.body >> >>)
  BY BlockSaid DEF AppendUserBlock
<1>4. CASE m.role = "system"
  BY <1>2, <1>4, EmptyNeutral DEF AnthropicAppend, Held
<1>5. CASE m.role = "user"
  <2>1. Text(m) \in BlockSet /\ Text(m).kind = "text" /\ Text(m).body = m.body
    BY BlockTypes DEF Text, Block
  <2>2. AnthropicAppend(R, m) = AppendUserBlock(R, Text(m))
    BY <1>5 DEF AnthropicAppend
  <2>3. Held(m, "use", "result") = << << "text", m.body >> >>
    BY <1>5 DEF Held
  <2> QED
    BY <1>3, <2>1, <2>2, <2>3
<1>6. CASE m.role = "assistant"
  <2>1. Turned(AnthropicAssistant(m), m, "use")
    BY AssistantsTurned
  <2>2. AnthropicAssistant(m) \in EntrySet
    BY <2>1 DEF Turned
  <2>3. Said(AnthropicAssistant(m)) = Held(m, "use", "result")
    BY <1>6, <2>1, TurnedSaid
  <2>4. AnthropicAppend(R, m) = Append(R, AnthropicAssistant(m))
    BY <1>6 DEF AnthropicAppend
  <2> QED
    BY <2>2, <2>3, <2>4, SaidAppend
<1>7. CASE m.role = "tool"
  <2> DEFINE b == Block("result", m.id, "tool", m.body)
  <2>1. b \in BlockSet /\ b.kind = "result" /\ b.body = m.body
    BY <1>1, BlockTypes DEF Block
  <2>2. AnthropicAppend(R, m) = AppendUserBlock(R, b)
    BY <1>7 DEF AnthropicAppend
  <2>3. Held(m, "use", "result") = << << "result", m.body >> >>
    BY <1>7 DEF Held
  <2> QED
    BY <1>3, <2>1, <2>2, <2>3
<1> QED
  BY <1>1, <1>4, <1>5, <1>6, <1>7 DEF Roles

\* And for Gemini.
LEMMA GoogleSays ==
  ASSUME NEW h \in Seq(Message), NEW R \in Seq(EntrySet), NEW m \in Message
  PROVE  FlattenSeq(SaidAll(GoogleAppend(h, R, m)))
           = Join(FlattenSeq(SaidAll(R)), Held(m, "call", "response"))
<1>1. m.role \in Roles
  BY DEF Message
<1>2. FlattenSeq(SaidAll(R)) \in Seq(Saying)
  BY SaidAllType, FlatStep
<1>4. CASE m.role = "system"
  BY <1>2, <1>4, EmptyNeutral DEF GoogleAppend, Held
<1>5. CASE m.role = "user"
  <2>1. Text(m) \in BlockSet /\ Text(m).kind = "text" /\ Text(m).body = m.body
    BY BlockTypes DEF Text, Block
  <2>2. GoogleAppend(h, R, m) = Append(R, Entry("user", << Text(m) >>))
    BY <1>5 DEF GoogleAppend
  <2>3. Held(m, "call", "response") = << << "text", m.body >> >>
    BY <1>5 DEF Held
  <2> QED
    BY <2>1, <2>2, <2>3, BlockSaid
<1>6. CASE m.role = "assistant"
  <2>1. Turned(GoogleAssistant(m), m, "call")
    BY AssistantsTurned
  <2>2. GoogleAssistant(m) \in EntrySet
    BY <2>1 DEF Turned
  <2>3. Said(GoogleAssistant(m)) = Held(m, "call", "response")
    BY <1>6, <2>1, TurnedSaid
  <2>4. GoogleAppend(h, R, m) = Append(R, GoogleAssistant(m))
    BY <1>6 DEF GoogleAppend
  <2> QED
    BY <2>2, <2>3, <2>4, SaidAppend
<1>7. CASE m.role = "tool"
  <2> DEFINE b == Block("response", NoCall, NameOf(h, m.id), m.body)
  <2>1. b \in BlockSet /\ b.kind = "response" /\ b.body = m.body
    BY NameType, BlockTypes DEF Block
  <2>2. GoogleAppend(h, R, m) = AppendToolPart(R, b)
    BY <1>7 DEF GoogleAppend
  <2>3. Held(m, "call", "response") = << << "response", m.body >> >>
    BY <1>7 DEF Held
  <2> HIDE DEF b
  <2>4. FlattenSeq(SaidAll(AppendToolPart(R, b)))
               = Join(FlattenSeq(SaidAll(R)), << << b.kind, b.body >> >>)
    BY <2>1, BlockSaid DEF AppendToolPart
  <2> QED
    BY <2>1, <2>2, <2>3, <2>4
<1> QED
  BY <1>1, <1>4, <1>5, <1>6, <1>7 DEF Roles

\* Message by message, a request says all of the history.
LEMMA SaysAll ==
  ASSUME NEW h \in Seq(Message), NEW call \in {"use", "call"},
         NEW result \in {"result", "response"},
         NEW f \in [0..Len(h) -> Seq(EntrySet)], f[0] = << >>,
         \A i \in 1..Len(h) :
            FlattenSeq(SaidAll(f[i]))
              = Join(FlattenSeq(SaidAll(f[i - 1])), Held(h[i], call, result))
  PROVE  Complete(f[Len(h)], h, call, result)
<1> DEFINE n == Len(h)
           s == [j \in DOMAIN h |-> Held(h[j], call, result)]
           g == Flat(Saying, s)
           N == {i \in Nat : i <= n => FlattenSeq(SaidAll(f[i])) = g[i]}
<1>1. /\ s \in Seq(Seq(Saying)) /\ Len(s) = n /\ n \in Nat
      /\ \A i \in 1..n : s[i] = Held(h[i], call, result)
  <2>1. \A i \in 1..n : h[i] \in Message /\ Held(h[i], call, result) \in Seq(Saying)
    BY HeldType
  <2>2. DOMAIN h = 1..n /\ n \in Nat
    OBVIOUS
  <2> QED
    BY <2>1, <2>2
<1> HIDE DEF s
<1>2. /\ g[0] = << >> /\ \A i \in 1..n : g[i] = Join(g[i - 1], s[i])
      /\ FlattenSeq(s) = g[n]
  BY <1>1, FlatStep
<1> HIDE DEF g
<1>3. 0 \in N
  <2>1. SaidAll(<< >>) = << >>
    BY DEF SaidAll
  <2>2. FlattenSeq(<< >>) = << >>
    <3>1. << >> \in Seq(Seq(Saying)) /\ Len(<< >>) = 0
      OBVIOUS
    <3> QED
      BY <3>1, FlatStep
  <2> QED
    BY <1>2, <2>1, <2>2
<1>4. ASSUME NEW i \in Nat, i \in N
      PROVE  i + 1 \in N
  <2> SUFFICES ASSUME i + 1 <= n
               PROVE  FlattenSeq(SaidAll(f[i + 1])) = g[i + 1]
    OBVIOUS
  <2>1. i + 1 \in 1..n /\ (i + 1) - 1 = i /\ i <= n
    BY <1>1
  <2>2. FlattenSeq(SaidAll(f[i + 1]))
          = Join(FlattenSeq(SaidAll(f[i])), Held(h[i + 1], call, result))
    BY <2>1
  <2>3. FlattenSeq(SaidAll(f[i])) = g[i]
    BY <1>4, <2>1
  <2> QED
    BY <1>1, <1>2, <2>1, <2>2, <2>3
<1> HIDE DEF N
<1>5. n \in N
  BY <1>1, <1>3, <1>4, NaturalInduction
<1>6. FlattenSeq(SaidAll(f[n])) = FlattenSeq(s)
  BY <1>1, <1>2, <1>5 DEF N
<1> QED
  BY <1>6 DEF Complete, SaidAll, s

-----------------------------------------------------------------------------
(* The Messages API.                                                       *)

\* What every history is: the system prompt is first and no other message is
\* one, and an answer follows a prompt or a result.
Orderly(h) ==
  /\ h # << >> /\ Paired(h)
  /\ \A i \in DOMAIN h : h[i].role = "system" <=> i = 1
  /\ \A j \in Assistants(h) : h[j - 1].role \in {"user", "tool"}

\* What a history is when a request is made of it.
Sendable(h) ==
  Orderly(h) /\ Settled(h) /\ h[Len(h)].role \in {"user", "tool"}

\* Every call of the first n messages has its result among them.
Closed(h, n) == \A j \in Assistants(h) : j <= n => j + Len(h[j].calls) <= n

\* It is so before every message that is no result, and at the end.
LEMMA ClosedBefore ==
  ASSUME NEW h \in Seq(Message), Paired(h), NEW n \in 1..(Len(h) - 1),
         h[n + 1].role # "tool"
  PROVE  Closed(h, n)
<1> SUFFICES ASSUME NEW j \in Assistants(h), j <= n, ~(j + Len(h[j].calls) <= n)
             PROVE  FALSE
  BY DEF Closed
<1>1. j \in 1..Len(h) /\ Len(h[j].calls) \in Nat /\ Len(h) \in Nat
  BY AssistantCalls
<1>2. /\ (n + 1) - j \in 1..Len(h[j].calls)
      /\ j + ((n + 1) - j) = n + 1 /\ n + 1 <= Len(h)
  BY <1>1
<1>3. h[n + 1].role = "tool"
  BY <1>2 DEF Paired, CallsAnsweredInOrder
<1> QED
  BY <1>3

\* Between an answer and the next one the results are those of its calls, and
\* they come first.
LEMMA OwnResults ==
  ASSUME NEW h \in Seq(Message), Paired(h), NEW n \in 1..Len(h),
         NEW j \in Assistants(h), j <= n,
         \A i \in (j + 1)..n : h[i].role # "assistant"
  PROVE  /\ \A k \in 1..(n - j) : h[j + k].role = "tool" <=> k <= Len(h[j].calls)
         /\ \A k \in 1..(n - j) : k <= Len(h[j].calls) =>
               h[j + k].id = h[j].calls[k].id
<1>1. j \in 1..Len(h) /\ Len(h[j].calls) \in Nat /\ Len(h) \in Nat
  BY AssistantCalls
<1>2. ASSUME NEW k \in 1..(n - j), k <= Len(h[j].calls)
      PROVE  h[j + k].role = "tool" /\ h[j + k].id = h[j].calls[k].id
  <2>1. k \in 1..Len(h[j].calls) /\ j + k <= Len(h)
    BY <1>1, <1>2
  <2> QED
    BY <2>1 DEF Paired, CallsAnsweredInOrder
<1>3. ASSUME NEW k \in 1..(n - j), h[j + k].role = "tool"
      PROVE  k <= Len(h[j].calls)
  <2>1. j + k \in DOMAIN h /\ j + k \in Nat
    BY <1>1
  <2>2. PICK i \in Assistants(h) : i < j + k /\ j + k <= i + Len(h[i].calls)
    BY <1>3, <2>1 DEF Paired, NoOrphanResult
  <2>3. i \in 1..Len(h) /\ Len(h[i].calls) \in Nat /\ h[i].role = "assistant"
    BY AssistantCalls DEF Assistants
  <2>4. CASE i < j
    <3>1. j - i \in 1..Len(h[i].calls) /\ i + (j - i) = j /\ j <= Len(h)
      BY <1>1, <2>2, <2>3, <2>4
    <3>2. h[j].role = "tool"
      BY <3>1 DEF Paired, CallsAnsweredInOrder
    <3> QED
      BY <3>2 DEF Assistants
  <2>5. CASE i > j
    <3>1. i \in (j + 1)..n
      BY <1>1, <2>2, <2>3, <2>5
    <3> QED
      BY <2>3, <3>1
  <2>6. CASE i = j
    BY <1>1, <2>2, <2>6
  <2> QED
    BY <1>1, <2>3, <2>4, <2>5, <2>6
<1> QED
  BY <1>2, <1>3

\* What AnthropicTurnsMatch asks of an answer and the blocks after it.
Answered(e, next) ==
  LET uses == Places(e, "use")
  IN  /\ Cardinality(uses) <= Len(next)
      /\ \A k \in DOMAIN next : next[k].kind = "result" <=> k <= Cardinality(uses)
      /\ \A k \in uses : next[Rank(e, "use", k)].id = e.blocks[k].id
      /\ \A k \in uses, l \in uses : e.blocks[k].id = e.blocks[l].id => k = l

\* The ids of one answer tell its calls apart.
IdsApart(h) ==
  \A j \in Assistants(h) : \A k \in DOMAIN h[j].calls, l \in DOMAIN h[j].calls :
     h[j].calls[k].id = h[j].calls[l].id => k = l

\* The block of a prompt or a result.
UserBlock(m) ==
  IF m.role = "tool" THEN Block("result", m.id, "tool", m.body) ELSE Text(m)

\* The blocks are those of the messages after an answer, up to the n-th.
Follows(e, blocks, h, n) ==
  \E j \in Assistants(h) :
     /\ j < n /\ e = AnthropicAssistant(h[j]) /\ Len(blocks) = n - j
     /\ \A k \in 1..(n - j) : /\ h[j + k].role # "assistant"
                              /\ blocks[k] = UserBlock(h[j + k])

\* Once the answer's results are there, what follows it answers it.
LEMMA FollowsAnswered ==
  ASSUME NEW h \in Seq(Message), Paired(h), NEW n \in 1..Len(h), Closed(h, n),
         NEW e, NEW blocks \in Seq(BlockSet), Follows(e, blocks, h, n),
         IdsApart(h)
  PROVE  Answered(e, blocks)
<1>1. PICK j \in Assistants(h) :
         /\ j < n /\ e = AnthropicAssistant(h[j]) /\ Len(blocks) = n - j
         /\ \A k \in 1..(n - j) : /\ h[j + k].role # "assistant"
                                  /\ blocks[k] = UserBlock(h[j + k])
  BY DEF Follows
<1> DEFINE c == Len(h[j].calls)
<1>2. j \in 1..Len(h) /\ c \in Nat /\ Len(h) \in Nat /\ h[j] \in Message
  BY AssistantCalls
<1>3. \A i \in (j + 1)..n : h[i].role # "assistant"
  <2> SUFFICES ASSUME NEW i \in (j + 1)..n
               PROVE  h[i].role # "assistant"
    OBVIOUS
  <2>1. i - j \in 1..(n - j) /\ j + (i - j) = i
    BY <1>1, <1>2
  <2> QED
    BY <1>1, <2>1
<1>4. /\ \A k \in 1..(n - j) : h[j + k].role = "tool" <=> k <= c
      /\ \A k \in 1..(n - j) : k <= c => h[j + k].id = h[j].calls[k].id
  <2>1. j <= n
    BY <1>1, <1>2
  <2> QED
    BY <1>3, <2>1, OwnResults
<1>5. c <= n - j
  BY <1>1, <1>2 DEF Closed
<1>6. /\ Cardinality(Places(e, "use")) = c
      /\ \A p \in Places(e, "use") :
           /\ Rank(e, "use", p) \in 1..c
           /\ e.blocks[p].id = h[j].calls[Rank(e, "use", p)].id
      /\ \A p \in Places(e, "use"), q \in Places(e, "use") :
           Rank(e, "use", p) = Rank(e, "use", q) => p = q
  BY <1>1, <1>2, AssistantsTurned, TurnedPlaces
<1>7. \A k \in 1..(n - j) :
         /\ blocks[k].kind = "result" <=> h[j + k].role = "tool"
         /\ h[j + k].role = "tool" => blocks[k].id = h[j + k].id
  BY <1>1 DEF UserBlock, Block, Text
<1>8. DOMAIN blocks = 1..(n - j)
  BY <1>1
<1>9. \A p \in Places(e, "use") : blocks[Rank(e, "use", p)].id = e.blocks[p].id
  <2> SUFFICES ASSUME NEW p \in Places(e, "use")
               PROVE  blocks[Rank(e, "use", p)].id = e.blocks[p].id
    OBVIOUS
  <2>1. PICK k \in 1..c : k = Rank(e, "use", p)
    BY <1>6
  <2>2. k \in 1..(n - j) /\ k <= c
    BY <1>1, <1>2, <1>5
  <2> QED
    BY <1>4, <1>6, <1>7, <2>1, <2>2
<1>11. \A p \in Places(e, "use"), q \in Places(e, "use") :
          e.blocks[p].id = e.blocks[q].id => p = q
  <2> SUFFICES ASSUME NEW p \in Places(e, "use"), NEW q \in Places(e, "use"),
                      e.blocks[p].id = e.blocks[q].id
               PROVE  p = q
    OBVIOUS
  <2>1. PICK k \in 1..c, l \in 1..c :
           k = Rank(e, "use", p) /\ l = Rank(e, "use", q)
    BY <1>6
  <2>2. DOMAIN h[j].calls = 1..c
    BY <1>2 DEF Message
  <2>3. k = l
    BY <1>6, <2>1, <2>2 DEF IdsApart
  <2> QED
    BY <1>6, <2>1, <2>3
<1> HIDE DEF c
<1>10. \A k \in DOMAIN blocks : blocks[k].kind = "result" <=> k <= Cardinality(Places(e, "use"))
  BY <1>4, <1>6, <1>7, <1>8
<1> QED
  BY <1>1, <1>5, <1>6, <1>9, <1>10, <1>11 DEF Answered

\* Odd and even take turns.
LEMMA Parity ==
  ASSUME NEW l \in Nat
  PROVE  (l + 1) % 2 = 1 <=> l % 2 # 1
OBVIOUS

\* The request after the first n messages of h.
BuiltAnthropic(R, h, n) ==
  /\ R \in Seq(EntrySet)
  /\ R = << >> <=> n = 1
  /\ \A i \in 1..Len(R) : R[i].role = (IF i % 2 = 1 THEN "user" ELSE "assistant")
  /\ \A i \in 1..(Len(R) - 2) :
        R[i].role = "assistant" => Answered(R[i], R[i + 1].blocks)
  /\ h[n].role = "assistant" => R[Len(R)] = AnthropicAssistant(h[n])
  /\ h[n].role \in {"user", "tool"} =>
        /\ R[Len(R)].role = "user"
        /\ Len(R) > 1 => Follows(R[Len(R) - 1], R[Len(R)].blocks, h, n)

\* An answer follows a message of the user.
LEMMA AnthropicAnswer ==
  ASSUME NEW h \in Seq(Message), Orderly(h), IdsApart(h), NEW n \in 1..(Len(h) - 1),
         NEW R, BuiltAnthropic(R, h, n), h[n + 1].role = "assistant"
  PROVE  BuiltAnthropic(Append(R, AnthropicAssistant(h[n + 1])), h, n + 1)
<1> DEFINE e == AnthropicAssistant(h[n + 1])
           Q == Append(R, e)
           l == Len(R)
<1>1. h[n + 1] \in Message /\ n + 1 \in 1..Len(h)
  OBVIOUS
<1>2. e \in EntrySet /\ e.role = "assistant" /\ e = AnthropicAssistant(h[n + 1])
  BY <1>1, AssistantsTurned DEF Turned
<1> HIDE DEF e
<1>3. h[n].role \in {"user", "tool"}
  <2>1. n + 1 \in Assistants(h) /\ (n + 1) - 1 = n
    BY <1>1 DEF Assistants
  <2> QED
    BY <2>1 DEF Orderly
<1>4. n # 1
  BY <1>3 DEF Orderly
<1>5. /\ R \in Seq(EntrySet) /\ l \in Nat /\ l >= 1
      /\ \A i \in 1..l : R[i] \in EntrySet
      /\ \A i \in 1..l : R[i].role = (IF i % 2 = 1 THEN "user" ELSE "assistant")
      /\ \A i \in 1..(l - 2) :
            R[i].role = "assistant" => Answered(R[i], R[i + 1].blocks)
      /\ R[l].role = "user"
      /\ l > 1 => Follows(R[l - 1], R[l].blocks, h, n)
  <2>1. R \in Seq(EntrySet) /\ R # << >>
    BY <1>4 DEF BuiltAnthropic
  <2>2. l \in Nat /\ l >= 1 /\ \A i \in 1..l : R[i] \in EntrySet
    BY <2>1
  <2> QED
    BY <1>3, <2>1, <2>2 DEF BuiltAnthropic
<1>6. l % 2 = 1
  <2>1. l \in 1..l
    BY <1>5
  <2>2. R[l].role = (IF l % 2 = 1 THEN "user" ELSE "assistant") /\ R[l].role = "user"
    BY <1>5, <2>1
  <2>3. "user" # "assistant"
    OBVIOUS
  <2> HIDE DEF l
  <2> QED
    BY <2>2, <2>3
<1>7. /\ Q \in Seq(EntrySet) /\ Len(Q) = l + 1 /\ Q[l + 1] = e
      /\ \A i \in 1..l : Q[i] = R[i]
  BY <1>2, <1>5
<1> HIDE DEF Q, l
<1>8. \A i \in 1..Len(Q) : Q[i].role = (IF i % 2 = 1 THEN "user" ELSE "assistant")
  <2> SUFFICES ASSUME NEW i \in 1..Len(Q)
               PROVE  Q[i].role = (IF i % 2 = 1 THEN "user" ELSE "assistant")
    OBVIOUS
  <2>1. CASE i \in 1..l
    BY <1>5, <1>7, <2>1
  <2>2. CASE i = l + 1
    <3>1. i % 2 # 1
      BY <1>5, <1>6, <2>2, Parity
    <3> QED
      BY <1>2, <1>7, <2>2, <3>1
  <2> QED
    BY <1>5, <1>7, <2>1, <2>2
<1>9. \A i \in 1..(Len(Q) - 2) : Q[i].role = "assistant" => Answered(Q[i], Q[i + 1].blocks)
  <2> SUFFICES ASSUME NEW i \in 1..(Len(Q) - 2), Q[i].role = "assistant"
               PROVE  Answered(Q[i], Q[i + 1].blocks)
    OBVIOUS
  <2>1. i \in 1..l /\ i + 1 \in 1..l /\ (i \in 1..(l - 2) \/ (i = l - 1 /\ i + 1 = l /\ l > 1))
    BY <1>5, <1>7
  <2>2. Q[i] = R[i] /\ Q[i + 1] = R[i + 1]
    BY <1>7, <2>1
  <2>3. CASE i \in 1..(l - 2)
    BY <1>5, <2>2, <2>3
  <2>4. CASE i = l - 1 /\ i + 1 = l /\ l > 1
    <3>1. Follows(R[i], R[i + 1].blocks, h, n)
      BY <1>5, <2>4
    <3>2. R[i + 1].blocks \in Seq(BlockSet)
      BY <1>5, <2>1 DEF EntrySet
    <3>3. Paired(h) /\ Closed(h, n) /\ n \in 1..Len(h)
      BY ClosedBefore DEF Orderly
    <3>4. Answered(R[i], R[i + 1].blocks)
      BY <3>1, <3>2, <3>3, FollowsAnswered
    <3> QED
      BY <2>2, <3>4
  <2> QED
    BY <2>1, <2>3, <2>4
<1>10. Q # << >> /\ n + 1 # 1
  <2>1. Len(Q) # 0
    BY <1>5, <1>7
  <2> QED
    BY <1>7, <2>1
<1>11. BuiltAnthropic(Q, h, n + 1)
  <2>2. h[n + 1].role \notin {"user", "tool"}
    OBVIOUS
  <2> QED
    BY <1>2, <1>7, <1>8, <1>9, <1>10, <2>2 DEF BuiltAnthropic
<1> QED
  BY <1>11 DEF e, Q

\* So does a message of the user, in an entry of its own or joining the last.
LEMMA AnthropicUser ==
  ASSUME NEW h \in Seq(Message), Orderly(h), NEW n \in 1..(Len(h) - 1),
         NEW R, BuiltAnthropic(R, h, n), h[n + 1].role \in {"user", "tool"}
  PROVE  BuiltAnthropic(AppendUserBlock(R, UserBlock(h[n + 1])), h, n + 1)
<1> DEFINE b == UserBlock(h[n + 1])
           e == Entry("user", << b >>)
           l == Len(R)
<1>1. h[n + 1] \in Message /\ n + 1 \in 1..Len(h) /\ n \in 1..Len(h) /\ h[n] \in Message
  OBVIOUS
<1>2. b \in BlockSet
  BY <1>1, BlockTypes DEF UserBlock, Message
<1>3. e \in EntrySet /\ e.role = "user" /\ e.blocks = << b >> /\ Len(<< b >>) = 1 /\ << b >>[1] = b
  BY <1>2, Singleton DEF Entry, EntrySet
<1>4. /\ R \in Seq(EntrySet) /\ l \in Nat
      /\ \A i \in 1..l : R[i] \in EntrySet
      /\ \A i \in 1..l : R[i].role = (IF i % 2 = 1 THEN "user" ELSE "assistant")
      /\ \A i \in 1..(l - 2) :
            R[i].role = "assistant" => Answered(R[i], R[i + 1].blocks)
      /\ h[n].role = "assistant" => R[l] = AnthropicAssistant(h[n])
      /\ h[n].role \in {"user", "tool"} =>
            /\ R[l].role = "user"
            /\ l > 1 => Follows(R[l - 1], R[l].blocks, h, n)
      /\ R = << >> <=> n = 1
  <2>1. R \in Seq(EntrySet)
    BY DEF BuiltAnthropic
  <2> QED
    BY <2>1 DEF BuiltAnthropic
<1>5. (h[n].role = "system" <=> n = 1) /\ h[n].role \in Roles
  <2>1. n \in DOMAIN h
    BY <1>1
  <2>2. h[n].role \in Roles
    BY <1>1 DEF Message
  <2> QED
    BY <2>1, <2>2 DEF Orderly
<1> HIDE DEF b, e
<1>6. CASE h[n].role # "user" /\ h[n].role # "tool"
  <2> DEFINE Q == Append(R, e)
  <2>1. R = << >> \/ (l >= 1 /\ R[l].role = "assistant" /\ h[n].role = "assistant")
    <3>1. CASE n = 1
      BY <1>4, <3>1
    <3>2. CASE n # 1
      <4>1. h[n].role = "assistant"
        BY <1>5, <1>6, <3>2 DEF Roles
      <4>2. R # << >> /\ l >= 1
        BY <1>4, <3>2
      <4> QED
        BY <1>1, <1>4, <4>1, <4>2, AssistantsTurned
    <3> QED
      BY <3>1, <3>2
  <2>2. AppendUserBlock(R, b) = Q
    <3>1. CASE R = << >>
      BY <3>1 DEF AppendUserBlock, e
    <3>2. CASE R # << >>
      <4>1. Last(R).role # "user"
        BY <2>1, <3>2 DEF Last
      <4> QED
        BY <4>1 DEF AppendUserBlock, e
    <3> QED
      BY <3>1, <3>2
  <2>3. /\ Q \in Seq(EntrySet) /\ Len(Q) = l + 1 /\ Q[l + 1] = e
        /\ \A i \in 1..l : Q[i] = R[i]
    BY <1>3, <1>4
  <2>4. l % 2 # 1
    <3>1. R = << >> => l = 0
      OBVIOUS
    <3>2. l = 0 => l % 2 # 1
      OBVIOUS
    <3>3. l >= 1 /\ R[l].role = "assistant" => l % 2 # 1
      BY <1>4
    <3> QED
      BY <2>1, <3>1, <3>2, <3>3
  <2>5. l = 0 \/ (l >= 1 /\ h[n].role = "assistant")
    BY <1>4, <2>1
  <2> HIDE DEF Q, l
  <2>6. \A i \in 1..Len(Q) : Q[i].role = (IF i % 2 = 1 THEN "user" ELSE "assistant")
    <3> SUFFICES ASSUME NEW i \in 1..Len(Q)
                 PROVE  Q[i].role = (IF i % 2 = 1 THEN "user" ELSE "assistant")
      OBVIOUS
    <3>1. CASE i \in 1..l
      BY <1>4, <2>3, <3>1
    <3>2. CASE i = l + 1
      <4>1. i % 2 = 1
        BY <1>4, <2>4, <3>2, Parity
      <4> QED
        BY <1>3, <2>3, <3>2, <4>1
    <3> QED
      BY <1>4, <2>3, <3>1, <3>2
  <2>7. \A i \in 1..(Len(Q) - 2) : Q[i].role = "assistant" => Answered(Q[i], Q[i + 1].blocks)
    <3> SUFFICES ASSUME NEW i \in 1..(Len(Q) - 2), Q[i].role = "assistant"
                 PROVE  Answered(Q[i], Q[i + 1].blocks)
      OBVIOUS
    <3>1. i \in 1..l /\ i + 1 \in 1..l /\ (i \in 1..(l - 2) \/ i = l - 1)
      BY <1>4, <2>3
    <3>2. Q[i] = R[i] /\ Q[i + 1] = R[i + 1]
      BY <2>3, <3>1
    <3>3. CASE i \in 1..(l - 2)
      BY <1>4, <3>2, <3>3
    <3>4. CASE i = l - 1
      <4>1. i % 2 = 1
        <5>1. i \in Nat /\ i + 1 = l
          BY <1>4, <3>1, <3>4
        <5> QED
          BY <2>4, <5>1, Parity
      <4> QED
        BY <1>4, <3>1, <3>2, <4>1
    <3> QED
      BY <3>1, <3>3, <3>4
  <2>8. Len(Q) > 1 => Follows(Q[Len(Q) - 1], Q[Len(Q)].blocks, h, n + 1)
    <3> SUFFICES ASSUME Len(Q) > 1
                 PROVE  Follows(Q[l], Q[l + 1].blocks, h, n + 1)
      <4>1. Len(Q) = l + 1 /\ Len(Q) - 1 = l
        BY <1>4, <2>3
      <4> QED
        BY <4>1
    <3>1. l >= 1 /\ h[n].role = "assistant" /\ l \in 1..l
      BY <1>4, <2>3, <2>5
    <3>2. Q[l] = AnthropicAssistant(h[n]) /\ Q[l + 1].blocks = << b >>
      BY <1>3, <1>4, <2>3, <3>1
    <3>3. n \in Assistants(h) /\ n < n + 1 /\ n + 1 - n = 1
      BY <1>1, <3>1 DEF Assistants
    <3>4. \A k \in 1..1 : h[n + k].role # "assistant" /\ << b >>[k] = UserBlock(h[n + k])
      BY <1>3 DEF b
    <3>5. /\ n < n + 1 /\ Len(<< b >>) = n + 1 - n
          /\ \A k \in 1..(n + 1 - n) : h[n + k].role # "assistant" /\ << b >>[k] = UserBlock(h[n + k])
      BY <1>3, <3>3, <3>4
    <3>6. Follows(AnthropicAssistant(h[n]), << b >>, h, n + 1)
      BY <3>3, <3>5 DEF Follows
    <3> QED
      BY <3>2, <3>6
  <2>9. Q # << >> /\ n + 1 # 1
    <3>1. Len(Q) # 0
      BY <1>4, <2>3
    <3> QED
      BY <1>1, <2>3, <3>1
  <2>10. Q[Len(Q)].role = "user"
    BY <1>3, <2>3
  <2>11. BuiltAnthropic(Q, h, n + 1)
    <3>2. h[n + 1].role # "assistant"
      OBVIOUS
    <3> QED
      BY <2>3, <2>6, <2>7, <2>8, <2>9, <2>10, <3>2 DEF BuiltAnthropic
  <2> QED
    BY <2>2, <2>11 DEF b
<1>7. CASE h[n].role \in {"user", "tool"}
  <2> DEFINE Q == AddBlock(R, b)
  <2>1. R # << >> /\ R[l].role = "user" /\ l >= 1
    <3>1. n # 1
      BY <1>5, <1>7
    <3>2. R # << >>
      BY <1>4, <3>1
    <3> QED
      BY <1>4, <1>7, <3>2
  <2>2. AppendUserBlock(R, b) = Q
    BY <2>1 DEF AppendUserBlock, Last
  <2>3. /\ Q \in Seq(EntrySet) /\ Len(Q) = l /\ Q # << >>
        /\ \A i \in 1..(l - 1) : Q[i] = R[i]
        /\ Q[l].role = R[l].role
        /\ Q[l].blocks = Append(R[l].blocks, b)
    BY <1>2, <1>4, <2>1, AddBlockShape
  <2> HIDE DEF Q, l
  <2>6. \A i \in 1..l : Q[i].role = (IF i % 2 = 1 THEN "user" ELSE "assistant")
    <3> SUFFICES ASSUME NEW i \in 1..l
                 PROVE  Q[i].role = (IF i % 2 = 1 THEN "user" ELSE "assistant")
      OBVIOUS
    <3>1. Q[i].role = R[i].role
      <4>1. i \in 1..(l - 1) \/ i = l
        BY <1>4
      <4> QED
        BY <2>3, <4>1
    <3> QED
      BY <1>4, <3>1
  <2>7. \A i \in 1..(l - 2) : Q[i].role = "assistant" => Answered(Q[i], Q[i + 1].blocks)
    <3> SUFFICES ASSUME NEW i \in 1..(l - 2), Q[i].role = "assistant"
                 PROVE  Answered(Q[i], Q[i + 1].blocks)
      OBVIOUS
    <3>1. i \in 1..(l - 1) /\ i + 1 \in 1..(l - 1)
      BY <1>4
    <3>2. Q[i] = R[i] /\ Q[i + 1] = R[i + 1]
      BY <2>3, <3>1
    <3> QED
      BY <1>4, <3>2
  <2>8. l > 1 => Follows(Q[l - 1], Q[l].blocks, h, n + 1)
    <3> SUFFICES ASSUME l > 1
                 PROVE  Follows(Q[l - 1], Q[l].blocks, h, n + 1)
      OBVIOUS
    <3> DEFINE B == R[l].blocks
               C == Q[l].blocks
    <3>1. PICK j \in Assistants(h) :
             /\ j < n /\ R[l - 1] = AnthropicAssistant(h[j]) /\ Len(B) = n - j
             /\ \A k \in 1..(n - j) : /\ h[j + k].role # "assistant"
                                      /\ B[k] = UserBlock(h[j + k])
      BY <1>4, <1>7 DEF Follows
    <3>2. j \in 1..Len(h) /\ l - 1 \in 1..(l - 1) /\ l \in 1..l
      BY <1>4, AssistantCalls
    <3>3. B \in Seq(BlockSet)
      BY <1>4, <3>2 DEF EntrySet
    <3>4. /\ Len(C) = n - j + 1 /\ C[n - j + 1] = b
          /\ \A k \in 1..(n - j) : C[k] = B[k]
      BY <1>2, <2>3, <3>1, <3>3
    <3> HIDE DEF B, C
    <3>5. ASSUME NEW k \in 1..((n + 1) - j)
          PROVE  h[j + k].role # "assistant" /\ C[k] = UserBlock(h[j + k])
      <4>1. CASE k \in 1..(n - j)
        BY <3>1, <3>4, <4>1
      <4>2. CASE k = n - j + 1
        <5>1. j + k = n + 1
          BY <1>1, <3>2, <4>2
        <5> QED
          BY <3>4, <4>2, <5>1 DEF b
      <4> QED
        BY <1>1, <3>2, <4>1, <4>2
    <3>6. j < n + 1 /\ Len(C) = (n + 1) - j /\ Q[l - 1] = AnthropicAssistant(h[j])
      BY <1>1, <2>3, <3>1, <3>2, <3>4
    <3>7. Follows(Q[l - 1], C, h, n + 1)
      <4>1. /\ j < n + 1 /\ Q[l - 1] = AnthropicAssistant(h[j]) /\ Len(C) = (n + 1) - j
            /\ \A k \in 1..((n + 1) - j) : /\ h[j + k].role # "assistant"
                                         /\ C[k] = UserBlock(h[j + k])
        BY <3>5, <3>6
      <4> QED
        BY <4>1 DEF Follows
    <3> QED
      BY <3>7 DEF C
  <2>9. n + 1 # 1
    BY <1>1
  <2>11. BuiltAnthropic(Q, h, n + 1)
    <3>1. /\ \A i \in 1..Len(Q) : Q[i].role = (IF i % 2 = 1 THEN "user" ELSE "assistant")
          /\ \A i \in 1..(Len(Q) - 2) :
                Q[i].role = "assistant" => Answered(Q[i], Q[i + 1].blocks)
          /\ Q[Len(Q)].role = "user"
          /\ Len(Q) > 1 => Follows(Q[Len(Q) - 1], Q[Len(Q)].blocks, h, n + 1)
      BY <2>1, <2>3, <2>6, <2>7, <2>8
    <3>2. h[n + 1].role # "assistant"
      OBVIOUS
    <3> QED
      BY <2>3, <2>9, <3>1, <3>2 DEF BuiltAnthropic
  <2> QED
    BY <2>2, <2>11 DEF b
<1> QED
  BY <1>6, <1>7

\* The turns of the request of any history that one is made of.
ValidAnthropic(request) ==
  /\ request # << >>
  /\ \A i \in DOMAIN request :
       request[i].role = (IF i % 2 = 1 THEN "user" ELSE "assistant")
  /\ request[Len(request)].role = "user"
  /\ \A i \in DOMAIN request :
       request[i].role = "assistant" => Answered(request[i], request[i + 1].blocks)

\* The loop invariant holds to the end of the history, where nothing is open.
LEMMA AnthropicValid ==
  ASSUME NEW h \in Seq(Message), Sendable(h), IdsApart(h)
  PROVE  /\ ValidAnthropic(AnthropicRequest(h))
         /\ Complete(AnthropicRequest(h), h, "use", "result")
<1> DEFINE n == Len(h)
<1>1. /\ n \in Nat /\ n >= 1 /\ DOMAIN h = 1..n
      /\ \A i \in 1..n : h[i] \in Message /\ h[i].role \in Roles
  <2>1. h # << >> /\ n \in Nat /\ DOMAIN h = 1..n
    BY DEF Sendable, Orderly
  <2>2. \A i \in 1..n : h[i] \in Message
    OBVIOUS
  <2> QED
    BY <2>1, <2>2 DEF Message
<1>0. \A i \in 1..n : h[i].role = "system" <=> i = 1
  BY <1>1 DEF Sendable, Orderly
<1>2. PICK f \in [0..n -> Seq(EntrySet)] :
         AnthropicParts(f, h) /\ AnthropicRequest(h) = f[n]
  BY AnthropicRequestInParts
<1>3. f[0] = << >> /\ \A i \in 1..n : f[i] = AnthropicAppend(f[i - 1], h[i])
  BY <1>2 DEF AnthropicParts
<1> HIDE DEF n
<1>4. \A i \in 0..n : f[i] \in Seq(EntrySet)
  BY <1>2
<1>5. Complete(f[n], h, "use", "result")
  <2>1. \A i \in 1..n : FlattenSeq(SaidAll(f[i]))
           = Join(FlattenSeq(SaidAll(f[i - 1])), Held(h[i], "use", "result"))
    <3> SUFFICES ASSUME NEW i \in 1..n
                 PROVE  FlattenSeq(SaidAll(f[i]))
                   = Join(FlattenSeq(SaidAll(f[i - 1])), Held(h[i], "use", "result"))
      OBVIOUS
    <3>1. f[i - 1] \in Seq(EntrySet) /\ h[i] \in Message
      BY <1>1, <1>4
    <3> QED
      BY <1>3, <3>1, AnthropicSays
  <2> QED
    BY <1>2, <1>3, <2>1, SaysAll DEF n
<1> DEFINE N == {i \in Nat : i + 1 <= n => BuiltAnthropic(f[i + 1], h, i + 1)}
<1>6. 0 \in N
  <2>1. h[1].role = "system"
    <3>1. 1 \in 1..n
      BY <1>1
    <3> QED
      BY <1>0, <3>1
  <2>2. f[1] = f[0]
    <3>1. 1 \in 1..n /\ 1 - 1 = 0
      BY <1>1
    <3> QED
      BY <1>3, <2>1, <3>1 DEF AnthropicAppend
  <2> DEFINE R == f[1]
  <2>3. R = << >> /\ R \in Seq(EntrySet) /\ Len(R) = 0
    BY <1>3, <2>2
  <2> HIDE DEF R
  <2>4. BuiltAnthropic(R, h, 1)
    BY <2>1, <2>3 DEF BuiltAnthropic
  <2> QED
    BY <2>4 DEF R
<1>7. ASSUME NEW i \in Nat, i \in N
      PROVE  i + 1 \in N
  <2> SUFFICES ASSUME (i + 1) + 1 <= n
               PROVE  BuiltAnthropic(f[(i + 1) + 1], h, (i + 1) + 1)
    OBVIOUS
  <2> DEFINE k == i + 1
             m == h[k + 1]
  <2>1. k \in 1..(Len(h) - 1) /\ k + 1 \in 1..n /\ (k + 1) - 1 = k
    BY <1>1 DEF n
  <2>2. BuiltAnthropic(f[k], h, k)
    <3>1. i + 1 <= n
      BY <1>1
    <3> QED
      BY <1>7, <3>1
  <2>3. f[k + 1] = AnthropicAppend(f[k], m)
    BY <1>3, <2>1
  <2>4. m.role \in Roles /\ m.role # "system"
    <3>1. k + 1 # 1
      BY <1>1
    <3> QED
      BY <1>0, <1>1, <2>1, <3>1
  <2>5. Orderly(h)
    BY DEF Sendable
  <2> HIDE DEF k
  <2>6. CASE m.role = "assistant"
    <3>1. f[k + 1] = Append(f[k], AnthropicAssistant(m))
      BY <2>3, <2>6 DEF AnthropicAppend
    <3> QED
      BY <2>1, <2>2, <2>5, <2>6, <3>1, AnthropicAnswer DEF k
  <2>7. CASE m.role \in {"user", "tool"}
    <3>1. f[k + 1] = AppendUserBlock(f[k], UserBlock(m))
      BY <2>3, <2>7 DEF AnthropicAppend, UserBlock
    <3> QED
      BY <2>1, <2>2, <2>5, <2>7, <3>1, AnthropicUser DEF k
  <2> QED
    BY <2>4, <2>6, <2>7 DEF Roles
<1> HIDE DEF N
<1>8. n - 1 \in N /\ (n - 1) + 1 = n
  <2>1. Nat \subseteq N
    BY <1>6, <1>7, NaturalInduction
  <2> QED
    BY <1>1, <2>1
<1> DEFINE R == f[n]
           l == Len(R)
<1>9. BuiltAnthropic(R, h, n)
  BY <1>1, <1>8 DEF N
<1>10. R \in Seq(EntrySet) /\ n \in 0..n
  BY <1>1, <1>4
<1>11. h[n].role \in {"user", "tool"} /\ n # 1 /\ Paired(h) /\ Closed(h, n)
  <2>1. h[n].role \in {"user", "tool"} /\ (h[n].role = "system" <=> n = 1)
    BY <1>1 DEF Sendable, Orderly, n
  <2> QED
    BY <2>1 DEF Sendable, Orderly, Settled, Closed, n
<1> HIDE DEF R
<1>12. /\ R # << >> /\ R[l].role = "user" /\ l \in Nat /\ l >= 1 /\ DOMAIN R = 1..l
       /\ \A i \in 1..l : R[i] \in EntrySet
       /\ l > 1 => Follows(R[l - 1], R[l].blocks, h, n)
  <2>1. R # << >>
    BY <1>9, <1>11 DEF BuiltAnthropic
  <2>2. l \in Nat /\ l >= 1 /\ DOMAIN R = 1..l /\ \A i \in 1..l : R[i] \in EntrySet
    BY <1>10, <2>1
  <2> QED
    BY <1>9, <1>11, <2>1, <2>2 DEF BuiltAnthropic
<1>13. ASSUME NEW i \in 1..l, R[i].role = "assistant"
       PROVE  Answered(R[i], R[i + 1].blocks)
  <2>1. i \in 1..(l - 2) \/ (i = l - 1 /\ i + 1 = l /\ l > 1)
    <3>1. i # l
      BY <1>12, <1>13
    <3>2. l \in Nat
      BY <1>12
    <3> HIDE DEF l
    <3> QED
      BY <3>1, <3>2
  <2>2. CASE i \in 1..(l - 2)
    BY <1>9, <1>13, <2>2 DEF BuiltAnthropic
  <2>3. CASE i = l - 1 /\ i + 1 = l /\ l > 1
    <3>1. Follows(R[i], R[i + 1].blocks, h, n)
      BY <1>12, <2>3
    <3>2. R[i + 1].blocks \in Seq(BlockSet)
      BY <1>12, <2>3 DEF EntrySet
    <3>3. n \in 1..Len(h)
      BY <1>1 DEF n
    <3> QED
      BY <1>11, <3>1, <3>2, <3>3, FollowsAnswered
  <2> QED
    BY <2>1, <2>2, <2>3
<1>14. \A i \in 1..l : R[i].role = (IF i % 2 = 1 THEN "user" ELSE "assistant")
  BY <1>9 DEF BuiltAnthropic
<1>15. ValidAnthropic(R)
  BY <1>12, <1>13, <1>14 DEF ValidAnthropic
<1> QED
  BY <1>2, <1>5, <1>15 DEF R

-----------------------------------------------------------------------------
(* Gemini.                                                                 *)

\* What GoogleRequestValid asks of the calls of an answer and the entry after.
Responded(e, next) ==
  LET calls == Places(e, "call")
  IN  calls # {} =>
        /\ Len(next.blocks) = Cardinality(calls)
        /\ Places(next, "response") = DOMAIN next.blocks
        /\ \A k \in calls :
             next.blocks[Rank(e, "call", k)].name = e.blocks[k].name

\* The entry answers the first calls of the answer before it, up to the n-th
\* message.
Responds(e, next, h, n) ==
  \E j \in Assistants(h) :
     /\ j < n /\ n <= j + Len(h[j].calls) /\ e = GoogleAssistant(h[j])
     /\ next.role = "user" /\ Len(next.blocks) = n - j
     /\ \A k \in 1..(n - j) : /\ next.blocks[k].kind = "response"
                              /\ next.blocks[k].name = h[j].calls[k].name

\* Once the answer's results are there, its calls are responded to.
LEMMA RespondsResponded ==
  ASSUME NEW h \in Seq(Message), NEW n \in 1..Len(h), Closed(h, n),
         NEW e, NEW next \in EntrySet, Responds(e, next, h, n)
  PROVE  Responded(e, next)
<1>1. PICK j \in Assistants(h) :
         /\ j < n /\ n <= j + Len(h[j].calls) /\ e = GoogleAssistant(h[j])
         /\ Len(next.blocks) = n - j
         /\ \A k \in 1..(n - j) : /\ next.blocks[k].kind = "response"
                                  /\ next.blocks[k].name = h[j].calls[k].name
  BY DEF Responds
<1> DEFINE c == Len(h[j].calls)
<1>2. j \in 1..Len(h) /\ c \in Nat /\ Len(h) \in Nat /\ h[j] \in Message
  BY AssistantCalls
<1>3. c = n - j
  <2>1. j + c <= n
    BY <1>1, <1>2 DEF Closed
  <2>2. n <= j + c /\ j \in Nat /\ n \in Nat /\ c \in Nat
    BY <1>1, <1>2
  <2> HIDE DEF c
  <2> QED
    BY <2>1, <2>2
<1>4. /\ Cardinality(Places(e, "call")) = c
      /\ \A p \in Places(e, "call") :
           /\ Rank(e, "call", p) \in 1..c
           /\ e.blocks[p].name = h[j].calls[Rank(e, "call", p)].name
  BY <1>1, <1>2, AssistantsTurned, TurnedPlaces
<1>5. next.blocks \in Seq(BlockSet)
  BY DEF EntrySet
<1>6. DOMAIN next.blocks = 1..(n - j)
  BY <1>1, <1>5
<1>7. Places(next, "response") = DOMAIN next.blocks
  BY <1>1, <1>6 DEF Places
<1> HIDE DEF c
<1>8. \A k \in Places(e, "call") :
         next.blocks[Rank(e, "call", k)].name = e.blocks[k].name
  BY <1>1, <1>3, <1>4
<1> QED
  BY <1>1, <1>3, <1>4, <1>7, <1>8 DEF Responded

\* The request after the first n messages of h.
BuiltGoogle(R, h, n) ==
  /\ R \in Seq(EntrySet)
  /\ R = << >> <=> n = 1
  /\ \A i \in 1..Len(R) : Places(R[i], "response") # {} =>
        i > 1 /\ Places(R[i - 1], "call") # {}
  /\ \A i \in 1..(Len(R) - 1) :
        i < Len(R) - 1 \/ h[n].role # "tool" => Responded(R[i], R[i + 1])
  /\ h[n].role = "assistant" => R[Len(R)] = GoogleAssistant(h[n])
  /\ h[n].role # "assistant" /\ R # << >> => Places(R[Len(R)], "call") = {}
  /\ h[n].role = "user" => Places(R[Len(R)], "response") = {}
  /\ h[n].role = "tool" =>
        Len(R) > 1 /\ Responds(R[Len(R) - 1], R[Len(R)], h, n)

\* Before a message that is no result nothing is left to respond to.
LEMMA GoogleClosed ==
  ASSUME NEW h \in Seq(Message), NEW n \in 1..Len(h), Closed(h, n),
         NEW R, BuiltGoogle(R, h, n)
  PROVE  /\ \A i \in 1..(Len(R) - 1) : Responded(R[i], R[i + 1])
         /\ R # << >> => Places(R[Len(R)], "call") = {}
<1> DEFINE l == Len(R)
<1>1. R \in Seq(EntrySet) /\ l \in Nat /\ \A i \in 1..l : R[i] \in EntrySet
  BY DEF BuiltGoogle
<1>2. ASSUME NEW i \in 1..(l - 1)
      PROVE  Responded(R[i], R[i + 1])
  <2>1. CASE i < l - 1 \/ h[n].role # "tool"
    BY <2>1 DEF BuiltGoogle
  <2>2. CASE i = l - 1 /\ h[n].role = "tool"
    <3>1. i + 1 = l /\ l \in 1..l
      BY <1>1, <2>2
    <3>2. Responds(R[i], R[i + 1], h, n)
      <4>1. Responds(R[l - 1], R[l], h, n)
        BY <2>2 DEF BuiltGoogle
      <4> QED
        BY <2>2, <3>1, <4>1
    <3>3. R[i + 1] \in EntrySet
      BY <1>1, <3>1
    <3> QED
      BY <3>2, <3>3, RespondsResponded
  <2>3. i < l - 1 \/ i = l - 1
    BY <1>1
  <2> QED
    BY <2>1, <2>2, <2>3
<1>3. ASSUME R # << >>
      PROVE  Places(R[l], "call") = {}
  <2>1. CASE h[n].role # "assistant"
    BY <1>3, <2>1 DEF BuiltGoogle
  <2>2. CASE h[n].role = "assistant"
    <3>1. n \in Assistants(h) /\ n <= n
      BY <2>2 DEF Assistants
    <3>2. Len(h[n].calls) \in Nat /\ h[n] \in Message
      BY <3>1, AssistantCalls
    <3>3. n + Len(h[n].calls) <= n
      BY <3>1 DEF Closed
    <3>4. Len(h[n].calls) = 0
      BY <3>2, <3>3
    <3>5. h[n].calls = << >>
      <4>1. h[n].calls \in Seq(ToolCall)
        BY <3>2 DEF Message
      <4> QED
        BY <3>4, <4>1
    <3>6. R[l] = GoogleAssistant(h[n])
      BY <2>2 DEF BuiltGoogle
    <3> QED
      BY <3>2, <3>5, <3>6, AssistantsTurned, TurnedPlaces
  <2> QED
    BY <2>1, <2>2
<1> QED
  BY <1>2, <1>3

\* A prompt or an answer is an entry of its own.
LEMMA GoogleOpens ==
  ASSUME NEW h \in Seq(Message), NEW n \in 1..(Len(h) - 1), Closed(h, n),
         NEW R, BuiltGoogle(R, h, n), h[n + 1].role # "tool",
         NEW e \in EntrySet, Places(e, "response") = {},
         h[n + 1].role = "assistant" => e = GoogleAssistant(h[n + 1]),
         h[n + 1].role # "assistant" => Places(e, "call") = {}
  PROVE  BuiltGoogle(Append(R, e), h, n + 1)
<1> DEFINE l == Len(R)
           Q == Append(R, e)
<1>1. R \in Seq(EntrySet) /\ l \in Nat
  BY DEF BuiltGoogle
<1>2. /\ Q \in Seq(EntrySet) /\ Len(Q) = l + 1 /\ Q[l + 1] = e
      /\ \A i \in 1..l : Q[i] = R[i]
  BY <1>1
<1>3. R # << >> <=> l > 0
  BY <1>1
<1>4. /\ \A i \in 1..l : Places(R[i], "response") # {} =>
            i > 1 /\ Places(R[i - 1], "call") # {}
      /\ \A i \in 1..(l - 1) : Responded(R[i], R[i + 1])
      /\ l > 0 => Places(R[l], "call") = {}
  <2>1. n \in 1..Len(h)
    OBVIOUS
  <2>2. /\ \A i \in 1..(l - 1) : Responded(R[i], R[i + 1])
        /\ R # << >> => Places(R[l], "call") = {}
    BY <2>1, GoogleClosed
  <2> QED
    BY <1>3, <2>2 DEF BuiltGoogle
<1> HIDE DEF Q, l
<1>5. ASSUME NEW i \in 1..Len(Q), Places(Q[i], "response") # {}
      PROVE  i > 1 /\ Places(Q[i - 1], "call") # {}
  <2>1. i \in 1..l
    <3>1. i # l + 1
      BY <1>2, <1>5
    <3> QED
      BY <1>1, <1>2, <3>1
  <2>2. i > 1 /\ Places(R[i - 1], "call") # {}
    BY <1>2, <1>4, <1>5, <2>1
  <2>3. i - 1 \in 1..l
    BY <1>1, <2>1, <2>2
  <2> QED
    BY <1>2, <2>2, <2>3
<1>6. ASSUME NEW i \in 1..(Len(Q) - 1)
      PROVE  Responded(Q[i], Q[i + 1])
  <2>1. i \in 1..l
    BY <1>1, <1>2
  <2>2. CASE i = l
    BY <1>2, <1>4, <2>1, <2>2 DEF Responded
  <2>3. CASE i # l
    <3>1. i \in 1..(l - 1) /\ i + 1 \in 1..l
      BY <1>1, <2>1, <2>3
    <3> QED
      BY <1>2, <1>4, <2>1, <3>1
  <2> QED
    BY <2>2, <2>3
<1>7. Q[Len(Q)] = e /\ n + 1 # 1 /\ Q # << >>
  <2>1. Len(Q) # 0
    BY <1>1, <1>2
  <2> QED
    BY <1>2, <2>1
<1> QED
  BY <1>2, <1>5, <1>6, <1>7 DEF BuiltGoogle, Q

\* A result is the first of its answer, or joins those before it.
LEMMA GoogleResult ==
  ASSUME NEW h \in Seq(Message), Orderly(h), NamesKnown(h),
         NEW n \in 1..(Len(h) - 1), NEW R, BuiltGoogle(R, h, n),
         h[n + 1].role = "tool"
  PROVE  BuiltGoogle(GoogleAppend(h, R, h[n + 1]), h, n + 1)
<1> DEFINE m == h[n + 1]
           b == Block("response", NoCall, NameOf(h, m.id), m.body)
           e == Entry("user", << b >>)
           l == Len(R)
<1>1. m \in Message /\ n + 1 \in DOMAIN h /\ n \in 1..Len(h) /\ h[n] \in Message
  OBVIOUS
<1>2. b \in BlockSet /\ b.kind = "response" /\ b.name = NameOf(h, m.id)
  BY <1>1, NameType, BlockTypes DEF Block
<1>3. GoogleAppend(h, R, m) = AppendToolPart(R, b)
  BY DEF GoogleAppend
<1>4. PICK j \in Assistants(h) : j < n + 1 /\ n + 1 <= j + Len(h[j].calls)
  BY <1>1 DEF Orderly, Paired, NoOrphanResult
<1>5. j \in 1..Len(h) /\ Len(h[j].calls) \in Nat /\ h[j] \in Message /\ Len(h) \in Nat
      /\ h[j].role = "assistant"
  BY AssistantCalls DEF Assistants
<1>6. \A k \in 1..Len(h[j].calls) : j + k <= Len(h) =>
         h[j + k].role = "tool" /\ h[j + k].id = h[j].calls[k].id
  BY DEF Orderly, Paired, CallsAnsweredInOrder
<1>7. b.name = h[j].calls[(n + 1) - j].name
  <2>1. /\ (n + 1) - j \in 1..Len(h[j].calls) /\ j + ((n + 1) - j) = n + 1
        /\ n + 1 <= Len(h)
    <3> DEFINE c == Len(h[j].calls)
    <3>1. /\ j < n + 1 /\ n + 1 <= j + c /\ c \in Nat /\ j \in Nat /\ n \in Nat
          /\ n + 1 <= Len(h)
      BY <1>1, <1>4, <1>5
    <3> HIDE DEF c
    <3>2. (n + 1) - j \in 1..c /\ j + ((n + 1) - j) = n + 1
      BY <3>1
    <3> QED
      BY <3>1, <3>2 DEF c
  <2>2. m.id = h[j].calls[(n + 1) - j].id
    BY <1>6, <2>1
  <2>3. (n + 1) - j \in DOMAIN h[j].calls
    <3>1. h[j].calls \in Seq(ToolCall)
      BY <1>5 DEF Message
    <3> QED
      BY <2>1, <3>1
  <2> QED
    BY <1>2, <2>2, <2>3, NameRight
<1>8. /\ R \in Seq(EntrySet) /\ l \in Nat /\ \A i \in 1..l : R[i] \in EntrySet
      /\ \A i \in 1..l : Places(R[i], "response") # {} =>
            i > 1 /\ Places(R[i - 1], "call") # {}
      /\ \A i \in 1..(l - 1) :
            i < l - 1 \/ h[n].role # "tool" => Responded(R[i], R[i + 1])
      /\ h[n].role = "assistant" => R[l] = GoogleAssistant(h[n])
      /\ h[n].role = "tool" => l > 1 /\ Responds(R[l - 1], R[l], h, n)
      /\ R = << >> <=> n = 1
  <2>1. R \in Seq(EntrySet)
    BY DEF BuiltGoogle
  <2>2. l \in Nat /\ \A i \in 1..l : R[i] \in EntrySet
    BY <2>1
  <2>3. /\ \A i \in 1..l : Places(R[i], "response") # {} =>
              i > 1 /\ Places(R[i - 1], "call") # {}
        /\ \A i \in 1..(l - 1) :
              i < l - 1 \/ h[n].role # "tool" => Responded(R[i], R[i + 1])
    BY DEF BuiltGoogle
  <2>4. /\ h[n].role = "assistant" => R[l] = GoogleAssistant(h[n])
        /\ h[n].role = "tool" => l > 1 /\ Responds(R[l - 1], R[l], h, n)
        /\ R = << >> <=> n = 1
    BY DEF BuiltGoogle
  <2> QED
    BY <2>1, <2>2, <2>3, <2>4
<1>9. e \in EntrySet /\ e.role = "user" /\ e.blocks = << b >> /\ Len(<< b >>) = 1 /\ << b >>[1] = b
  BY <1>2, Singleton DEF Entry, EntrySet
<1> HIDE DEF b, e, l, m
<1>10. CASE j = n
  <2> DEFINE Q == Append(R, e)
  <2>1. R[l] = GoogleAssistant(h[n]) /\ l >= 1
    <3>1. n # 1
      BY <1>1, <1>5, <1>10 DEF Orderly
    <3>2. R # << >>
      BY <1>8, <3>1
    <3> QED
      BY <1>5, <1>8, <1>10, <3>2 DEF l
  <2>2. AppendToolPart(R, b) = Q
    <3>1. Last(R).role # "user"
      BY <1>5, <1>10, <2>1, AssistantsTurned DEF Last, l
    <3> QED
      BY <3>1 DEF AppendToolPart, e
  <2>3. /\ Q \in Seq(EntrySet) /\ Len(Q) = l + 1 /\ Q[l + 1] = e
        /\ \A i \in 1..l : Q[i] = R[i]
    BY <1>8, <1>9 DEF l
  <2> HIDE DEF Q
  <2>4. Places(R[l], "call") # {}
    <3>1. h[n].calls # << >>
      BY <1>4, <1>5, <1>10
    <3> QED
      BY <1>1, <2>1, <3>1, AssistantsTurned, TurnedPlaces
  <2>5. ASSUME NEW i \in 1..Len(Q), Places(Q[i], "response") # {}
        PROVE  i > 1 /\ Places(Q[i - 1], "call") # {}
    <3>1. CASE i = l + 1
      <4>1. i > 1 /\ i - 1 = l /\ l \in 1..l
        BY <1>8, <2>1, <3>1
      <4> QED
        BY <2>3, <2>4, <4>1
    <3>2. CASE i # l + 1
      <4>1. i \in 1..l
        BY <1>8, <2>3, <3>2
      <4>2. i > 1 /\ Places(R[i - 1], "call") # {}
        BY <1>8, <2>3, <2>5, <4>1
      <4>3. i - 1 \in 1..l
        BY <1>8, <4>1, <4>2
      <4> QED
        BY <2>3, <4>2, <4>3
    <3> QED
      BY <3>1, <3>2
  <2>6. ASSUME NEW i \in 1..(Len(Q) - 1), i < Len(Q) - 1
        PROVE  Responded(Q[i], Q[i + 1])
    <3>1. i \in 1..(l - 1) /\ i \in 1..l /\ i + 1 \in 1..l
      BY <1>8, <2>3, <2>6
    <3>2. Q[i] = R[i] /\ Q[i + 1] = R[i + 1]
      BY <2>3, <3>1
    <3> QED
      BY <1>5, <1>8, <1>10, <3>1, <3>2
  <2>7. Responds(Q[Len(Q) - 1], Q[Len(Q)], h, n + 1)
    <3>1. Len(Q) - 1 = l /\ Q[Len(Q)] = e /\ Q[l] = GoogleAssistant(h[n])
      <4>1. l \in 1..l
        BY <1>8, <2>1
      <4> QED
        BY <1>8, <2>1, <2>3, <4>1
    <3>2. /\ n < n + 1 /\ n + 1 <= n + Len(h[n].calls) /\ (n + 1) - n = 1
      BY <1>1, <1>4, <1>5, <1>10
    <3>3. \A k \in 1..1 : e.blocks[k].kind = "response" /\ e.blocks[k].name = h[n].calls[k].name
      BY <1>2, <1>7, <1>9, <1>10, <3>2
    <3>4. /\ n < n + 1 /\ n + 1 <= n + Len(h[n].calls) /\ Len(e.blocks) = (n + 1) - n
          /\ \A k \in 1..((n + 1) - n) : /\ e.blocks[k].kind = "response"
                                         /\ e.blocks[k].name = h[n].calls[k].name
      BY <1>9, <3>2, <3>3
    <3>5. Responds(GoogleAssistant(h[n]), e, h, n + 1)
      BY <1>9, <1>10, <3>4 DEF Responds
    <3> QED
      BY <3>1, <3>5
  <2>8. Places(Q[Len(Q)], "call") = {}
    <3>1. DOMAIN << b >> = 1..1
      OBVIOUS
    <3>2. \A k \in 1..1 : << b >>[k].kind # "call"
      BY <1>2, <1>9
    <3> QED
      BY <1>9, <2>3, <3>1, <3>2 DEF Places
  <2>9. n + 1 # 1 /\ Q # << >> /\ Len(Q) > 1
    <3>1. Len(Q) # 0
      BY <1>8, <2>3
    <3> QED
      BY <1>1, <1>8, <2>1, <2>3, <3>1
  <2>10. BuiltGoogle(Q, h, n + 1)
    BY <2>3, <2>5, <2>6, <2>7, <2>8, <2>9 DEF BuiltGoogle
  <2> QED
    BY <1>3, <2>2, <2>10 DEF m
<1>11. CASE j # n
  <2> DEFINE Q == AddBlock(R, b)
  <2>1. h[n].role = "tool"
    <3>1. n - j \in 1..Len(h[j].calls) /\ j + (n - j) = n /\ n <= Len(h)
      BY <1>1, <1>4, <1>5, <1>11
    <3> QED
      BY <1>6, <3>1
  <2>2. PICK i \in Assistants(h) :
          /\ i < n /\ n <= i + Len(h[i].calls) /\ R[l - 1] = GoogleAssistant(h[i])
          /\ R[l].role = "user" /\ Len(R[l].blocks) = n - i
          /\ \A k \in 1..(n - i) : /\ R[l].blocks[k].kind = "response"
                                   /\ R[l].blocks[k].name = h[i].calls[k].name
    BY <1>8, <2>1 DEF Responds
  <2>3. i \in 1..Len(h) /\ Len(h[i].calls) \in Nat /\ h[i].role = "assistant"
    BY AssistantCalls DEF Assistants
  <2>4. i = j
    <3>1. CASE i < j
      <4>1. j - i \in 1..Len(h[i].calls) /\ i + (j - i) = j /\ j <= Len(h)
        BY <1>1, <1>4, <1>5, <2>2, <2>3, <3>1
      <4>2. h[j].role = "tool"
        BY <4>1 DEF Orderly, Paired, CallsAnsweredInOrder
      <4> QED
        BY <1>5, <4>2
    <3>2. CASE j < i
      <4>1. i - j \in 1..Len(h[j].calls) /\ j + (i - j) = i /\ i <= Len(h)
        <5> DEFINE c == Len(h[j].calls)
        <5>1. /\ j < i /\ i < n /\ n + 1 <= j + c /\ c \in Nat /\ j \in Nat /\ i \in Nat
              /\ n \in Nat /\ i <= Len(h)
          BY <1>1, <1>4, <1>5, <2>2, <2>3, <3>2
        <5> HIDE DEF c
        <5>2. i - j \in 1..c /\ j + (i - j) = i
          BY <5>1
        <5> QED
          BY <5>1, <5>2 DEF c
      <4>2. h[i].role = "tool"
        BY <1>6, <4>1
      <4> QED
        BY <2>3, <4>2
    <3> QED
      BY <1>5, <2>3, <3>1, <3>2
  <2> DEFINE B == R[l].blocks
             C == Q[l].blocks
  <2>5. l > 1 /\ R # << >> /\ B \in Seq(BlockSet) /\ DOMAIN B = 1..(n - j)
    <3>1. l > 1 /\ R # << >>
      BY <1>8, <2>1 DEF l
    <3>2. l \in 1..l
      BY <1>8, <3>1
    <3>3. B \in Seq(BlockSet)
      BY <1>8, <3>2 DEF EntrySet
    <3> QED
      BY <2>2, <2>4, <3>1, <3>3
  <2>6. AppendToolPart(R, b) = Q
    <3>1. Last(R) = R[l]
      BY DEF Last, l
    <3>2. \A k \in DOMAIN R[l].blocks : R[l].blocks[k].kind = "response"
      BY <2>2, <2>4, <2>5
    <3> QED
      BY <2>2, <2>5, <3>1, <3>2 DEF AppendToolPart
  <2>7. /\ Q \in Seq(EntrySet) /\ Len(Q) = l /\ Q # << >>
        /\ \A k \in 1..(l - 1) : Q[k] = R[k]
        /\ Q[l].role = "user" /\ C = Append(B, b)
    BY <1>2, <1>8, <2>2, <2>5, AddBlockShape DEF l
  <2>8. /\ Len(C) = (n - j) + 1 /\ C[(n - j) + 1] = b
        /\ \A k \in 1..(n - j) : C[k] = B[k]
        /\ DOMAIN C = 1..((n - j) + 1)
    BY <1>2, <2>2, <2>4, <2>5, <2>7
  <2>9. R[l - 1] = GoogleAssistant(h[j])
    BY <2>2, <2>4
  <2>10. \A k \in 1..(n - j) : B[k].kind = "response" /\ B[k].name = h[j].calls[k].name
    BY <2>2, <2>4
  <2> HIDE DEF B, C, Q
  <2>11. \A k \in 1..((n + 1) - j) : C[k].kind = "response" /\ C[k].name = h[j].calls[k].name
    <3> SUFFICES ASSUME NEW k \in 1..((n + 1) - j)
                 PROVE  C[k].kind = "response" /\ C[k].name = h[j].calls[k].name
      OBVIOUS
    <3>1. CASE k \in 1..(n - j)
      BY <2>8, <2>10, <3>1
    <3>2. CASE k = (n - j) + 1
      <4>1. k = (n + 1) - j
        BY <1>1, <1>5, <3>2
      <4> QED
        BY <1>2, <1>7, <2>8, <3>2, <4>1
    <3> QED
      BY <1>1, <1>5, <3>1, <3>2
  <2>12. Responds(Q[Len(Q) - 1], Q[Len(Q)], h, n + 1)
    <3>1. l - 1 \in 1..(l - 1)
      BY <1>8, <2>5
    <3>2. Q[l - 1] = GoogleAssistant(h[j])
      BY <2>7, <2>9, <3>1
    <3>3. Len(C) = (n + 1) - j
      BY <1>1, <1>5, <2>8
    <3>4. Responds(Q[l - 1], Q[l], h, n + 1)
      BY <1>4, <2>7, <2>11, <3>2, <3>3 DEF Responds, C
    <3> QED
      BY <2>7, <3>4
  <2>13. Places(Q[Len(Q)], "call") = {}
    <3>1. \A k \in DOMAIN C : C[k].kind # "call"
      <4>1. (n - j) + 1 = (n + 1) - j
        BY <1>1, <1>5
      <4> QED
        BY <2>8, <2>11, <4>1
    <3> QED
      BY <2>7, <3>1 DEF Places, C
  <2>14. ASSUME NEW k \in 1..Len(Q), Places(Q[k], "response") # {}
         PROVE  k > 1 /\ Places(Q[k - 1], "call") # {}
    <3>1. CASE k = l
      <4>1. Places(R[l], "response") # {}
        <5>1. 1 \in DOMAIN B /\ B[1].kind = "response"
          <6>1. 1 \in 1..(n - j)
            BY <1>1, <1>4, <1>5, <1>11
          <6> QED
            BY <2>5, <2>10, <6>1
        <5> QED
          BY <5>1 DEF Places, B
      <4>2. l \in 1..l /\ l - 1 \in 1..(l - 1)
        BY <1>8, <2>5
      <4>3. Places(R[l - 1], "call") # {}
        BY <1>8, <4>1, <4>2
      <4> QED
        BY <2>5, <2>7, <3>1, <4>2, <4>3
    <3>2. CASE k # l
      <4>1. k \in 1..(l - 1) /\ k \in 1..l
        BY <1>8, <2>7, <3>2
      <4>2. k > 1 /\ Places(R[k - 1], "call") # {}
        BY <1>8, <2>7, <2>14, <4>1
      <4>3. k - 1 \in 1..(l - 1)
        BY <1>8, <4>1, <4>2
      <4> QED
        BY <2>7, <4>2, <4>3
    <3> QED
      BY <3>1, <3>2
  <2>15. ASSUME NEW k \in 1..(Len(Q) - 1), k < Len(Q) - 1
         PROVE  Responded(Q[k], Q[k + 1])
    <3>1. k \in 1..(l - 1) /\ k + 1 \in 1..(l - 1) /\ k < l - 1
      BY <1>8, <2>7, <2>15
    <3> QED
      BY <1>8, <2>7, <3>1
  <2>16. n + 1 # 1 /\ Len(Q) > 1
    BY <1>1, <2>5, <2>7
  <2>17. BuiltGoogle(Q, h, n + 1)
    BY <1>1, <2>7, <2>12, <2>13, <2>14, <2>15, <2>16 DEF BuiltGoogle, m
  <2> QED
    BY <1>3, <2>6, <2>17 DEF m
<1> QED
  BY <1>10, <1>11

\* What Gemini requires.
ValidGoogle(request) ==
  /\ request # << >>
  /\ \A i \in DOMAIN request :
       LET calls == Places(request[i], "call")
           next  == request[i + 1]
       IN  calls # {} =>
             /\ i < Len(request)
             /\ Len(next.blocks) = Cardinality(calls)
             /\ Places(next, "response") = DOMAIN next.blocks
             /\ \A k \in calls : next.blocks[Rank(request[i], "call", k)].name
                                   = request[i].blocks[k].name
  /\ \A i \in DOMAIN request :
       Places(request[i], "response") # {} =>
         i > 1 /\ Places(request[i - 1], "call") # {}

\* The loop invariant holds to the end of the history, for Gemini.
LEMMA GoogleValid ==
  ASSUME NEW h \in Seq(Message), Sendable(h), NamesKnown(h)
  PROVE  /\ ValidGoogle(GoogleRequest(h))
         /\ Complete(GoogleRequest(h), h, "call", "response")
<1> DEFINE n == Len(h)
<1>1. /\ n \in Nat /\ n >= 1 /\ DOMAIN h = 1..n
      /\ \A i \in 1..n : h[i] \in Message /\ h[i].role \in Roles
  <2>1. h # << >> /\ n \in Nat /\ DOMAIN h = 1..n
    BY DEF Sendable, Orderly
  <2>2. \A i \in 1..n : h[i] \in Message
    OBVIOUS
  <2> QED
    BY <2>1, <2>2 DEF Message
<1>0. \A i \in 1..n : h[i].role = "system" <=> i = 1
  BY <1>1 DEF Sendable, Orderly
<1>2. PICK f \in [0..n -> Seq(EntrySet)] :
         GoogleParts(f, h) /\ GoogleRequest(h) = f[n]
  BY GoogleRequestInParts
<1>3. f[0] = << >> /\ \A i \in 1..n : f[i] = GoogleAppend(h, f[i - 1], h[i])
  BY <1>2 DEF GoogleParts
<1> HIDE DEF n
<1>4. \A i \in 0..n : f[i] \in Seq(EntrySet)
  BY <1>2
<1>5. Complete(f[n], h, "call", "response")
  <2>1. \A i \in 1..n : FlattenSeq(SaidAll(f[i]))
           = Join(FlattenSeq(SaidAll(f[i - 1])), Held(h[i], "call", "response"))
    <3> SUFFICES ASSUME NEW i \in 1..n
                 PROVE  FlattenSeq(SaidAll(f[i]))
                   = Join(FlattenSeq(SaidAll(f[i - 1])), Held(h[i], "call", "response"))
      OBVIOUS
    <3>1. f[i - 1] \in Seq(EntrySet) /\ h[i] \in Message
      BY <1>1, <1>4
    <3> QED
      BY <1>3, <3>1, GoogleSays
  <2> QED
    BY <1>2, <1>3, <2>1, SaysAll DEF n
<1> DEFINE N == {i \in Nat : i + 1 <= n => BuiltGoogle(f[i + 1], h, i + 1)}
<1>6. 0 \in N
  <2>1. h[1].role = "system"
    <3>1. 1 \in 1..n
      BY <1>1
    <3> QED
      BY <1>0, <3>1
  <2>2. f[1] = f[0]
    <3>1. 1 \in 1..n /\ 1 - 1 = 0
      BY <1>1
    <3> QED
      BY <1>3, <2>1, <3>1 DEF GoogleAppend
  <2> DEFINE R == f[1]
  <2>3. R = << >> /\ R \in Seq(EntrySet) /\ Len(R) = 0
    BY <1>3, <2>2
  <2> HIDE DEF R
  <2>4. BuiltGoogle(R, h, 1)
    BY <2>1, <2>3 DEF BuiltGoogle
  <2> QED
    BY <2>4 DEF R
<1>7. ASSUME NEW i \in Nat, i \in N
      PROVE  i + 1 \in N
  <2> SUFFICES ASSUME (i + 1) + 1 <= n
               PROVE  BuiltGoogle(f[(i + 1) + 1], h, (i + 1) + 1)
    OBVIOUS
  <2> DEFINE k == i + 1
             m == h[k + 1]
  <2>1. k \in 1..(Len(h) - 1) /\ k + 1 \in 1..n /\ (k + 1) - 1 = k
    BY <1>1 DEF n
  <2>2. BuiltGoogle(f[k], h, k)
    <3>1. i + 1 <= n
      BY <1>1
    <3> QED
      BY <1>7, <3>1
  <2>3. f[k + 1] = GoogleAppend(h, f[k], m)
    BY <1>3, <2>1
  <2>4. m.role \in Roles /\ m.role # "system" /\ m \in Message
    <3>1. k + 1 # 1
      BY <1>1
    <3> QED
      BY <1>0, <1>1, <2>1, <3>1
  <2>5. Orderly(h) /\ Paired(h)
    BY DEF Sendable, Orderly
  <2> HIDE DEF k
  <2>6. CASE m.role \in {"assistant", "user"}
    <3> DEFINE e == IF m.role = "assistant" THEN GoogleAssistant(m)
                    ELSE Entry("user", << Text(m) >>)
    <3>1. f[k + 1] = Append(f[k], e)
      BY <2>3, <2>6 DEF GoogleAppend
    <3>2. /\ e \in EntrySet /\ Places(e, "response") = {}
          /\ m.role = "user" => Places(e, "call") = {}
      <4>1. CASE m.role = "assistant"
        <5>1. Turned(GoogleAssistant(m), m, "call")
          BY <2>4, AssistantsTurned
        <5>2. GoogleAssistant(m) \in EntrySet
          BY <5>1 DEF Turned
        <5> QED
          BY <2>4, <4>1, <5>1, <5>2, TurnedPlaces
      <4>2. CASE m.role = "user"
        <5>1. Text(m) \in BlockSet /\ Text(m).kind = "text"
          BY <2>4, BlockTypes DEF Text, Block
        <5> DEFINE x == Text(m)
        <5> HIDE DEF x
        <5>2. << x >> \in Seq(BlockSet) /\ << x >>[1] = x /\ DOMAIN << x >> = 1..1
          BY <5>1, Singleton DEF x
        <5> DEFINE u == Entry("user", << x >>)
        <5>3. u \in EntrySet /\ u.blocks = << x >>
          BY <5>2 DEF Entry, EntrySet
        <5>4. Places(u, "response") = {} /\ Places(u, "call") = {}
          <6>1. \A p \in 1..1 : << x >>[p].kind = "text"
            BY <5>1, <5>2 DEF x
          <6> QED
            BY <5>2, <5>3, <6>1 DEF Places
        <5>5. e = u
          BY <4>2 DEF x
        <5> QED
          BY <4>2, <5>3, <5>4, <5>5
      <4> QED
        BY <2>6, <4>1, <4>2
    <3>3. Closed(h, k)
      BY <2>1, <2>5, <2>6, ClosedBefore
    <3>4. m.role = "assistant" => e = GoogleAssistant(h[k + 1])
      OBVIOUS
    <3>5. m.role # "assistant" => Places(e, "call") = {}
      BY <2>6, <3>2
    <3> HIDE DEF e
    <3>6. BuiltGoogle(Append(f[k], e), h, k + 1)
      BY <2>1, <2>2, <2>6, <3>2, <3>3, <3>4, <3>5, GoogleOpens
    <3> QED
      BY <3>1, <3>6 DEF k
  <2>7. CASE m.role = "tool"
    BY <2>1, <2>2, <2>3, <2>5, <2>7, GoogleResult DEF k
  <2> QED
    BY <2>4, <2>6, <2>7 DEF Roles
<1> HIDE DEF N
<1>8. n - 1 \in N /\ (n - 1) + 1 = n
  <2>1. Nat \subseteq N
    BY <1>6, <1>7, NaturalInduction
  <2> QED
    BY <1>1, <2>1
<1> DEFINE R == f[n]
           l == Len(R)
<1>9. BuiltGoogle(R, h, n)
  BY <1>1, <1>8 DEF N
<1>10. R \in Seq(EntrySet) /\ n \in 0..n
  BY <1>1, <1>4
<1>11. n # 1 /\ Closed(h, n) /\ n \in 1..Len(h)
  <2>1. h[n].role \in {"user", "tool"} /\ (h[n].role = "system" <=> n = 1)
    <3>1. n \in 1..n
      BY <1>1
    <3> QED
      BY <1>0, <3>1 DEF Sendable, n
  <2> QED
    BY <1>1, <2>1 DEF Sendable, Settled, Closed, n
<1> HIDE DEF R
<1>12. /\ R # << >> /\ l \in Nat /\ DOMAIN R = 1..l
       /\ \A i \in 1..(l - 1) : Responded(R[i], R[i + 1])
       /\ Places(R[l], "call") = {}
  <2>1. R # << >>
    BY <1>9, <1>11 DEF BuiltGoogle
  <2>2. l \in Nat /\ DOMAIN R = 1..l
    BY <1>10
  <2>3. /\ \A i \in 1..(l - 1) : Responded(R[i], R[i + 1])
        /\ R # << >> => Places(R[l], "call") = {}
    BY <1>9, <1>11, GoogleClosed
  <2> QED
    BY <2>1, <2>2, <2>3
<1>13. \A i \in 1..l : Places(R[i], "response") # {} =>
          i > 1 /\ Places(R[i - 1], "call") # {}
  BY <1>9 DEF BuiltGoogle
<1>14. ASSUME NEW i \in 1..l, Places(R[i], "call") # {}
       PROVE  i < l /\ Responded(R[i], R[i + 1])
  <2>1. i # l /\ l \in Nat
    BY <1>12, <1>14
  <2>2. i < l /\ i \in 1..(l - 1)
    <3> HIDE DEF l
    <3> QED
      BY <2>1
  <2> QED
    BY <1>12, <2>2
<1>15. ValidGoogle(R)
  BY <1>12, <1>13, <1>14 DEF ValidGoogle, Responded
<1> QED
  BY <1>2, <1>5, <1>15 DEF R

-----------------------------------------------------------------------------
(* Requests of a run.                                                      *)

\* A prompt, a result, or an answer to one keeps a history orderly.
LEMMA OrderlyAppend ==
  ASSUME NEW h \in Seq(Message), Orderly(h), NEW m \in Message,
         Paired(Append(h, m)), m.role # "system",
         m.role = "assistant" => h[Len(h)].role \in {"user", "tool"}
  PROVE  Orderly(Append(h, m))
<1> DEFINE g == Append(h, m)
           n == Len(h)
<1>1. /\ g \in Seq(Message) /\ Len(g) = n + 1 /\ g[n + 1] = m
      /\ \A i \in 1..n : g[i] = h[i]
  BY AppendShape
<1>2. /\ n \in Nat /\ n >= 1 /\ DOMAIN h = 1..n /\ DOMAIN g = 1..(n + 1)
  BY <1>1 DEF Orderly
<1>3. \A i \in 1..n : h[i].role = "system" <=> i = 1
  BY <1>2 DEF Orderly
<1>4. Paired(g)
  OBVIOUS
<1> HIDE DEF g, n
<1>5. \A i \in 1..(n + 1) : g[i].role = "system" <=> i = 1
  <2> SUFFICES ASSUME NEW i \in 1..(n + 1)
               PROVE  g[i].role = "system" <=> i = 1
    OBVIOUS
  <2>1. CASE i \in 1..n
    BY <1>1, <1>3, <2>1
  <2>2. CASE i = n + 1
    BY <1>1, <1>2, <2>2
  <2> QED
    BY <1>2, <2>1, <2>2
<1>6. \A j \in Assistants(g) : g[j - 1].role \in {"user", "tool"}
  <2> SUFFICES ASSUME NEW j \in Assistants(g)
               PROVE  g[j - 1].role \in {"user", "tool"}
    OBVIOUS
  <2>1. j \in 1..(n + 1) /\ g[j].role = "assistant" /\ j # 1
    BY <1>2, <1>5 DEF Assistants
  <2>2. j - 1 \in 1..n /\ g[j - 1] = h[j - 1]
    BY <1>1, <1>2, <2>1
  <2>3. CASE j \in 1..n
    <3>1. j \in Assistants(h)
      BY <1>1, <1>2, <2>1, <2>3 DEF Assistants
    <3> QED
      BY <2>2, <3>1 DEF Orderly
  <2>4. CASE j = n + 1
    <3>1. j - 1 = n /\ m.role = "assistant"
      BY <1>1, <1>2, <2>1, <2>4
    <3>2. h[n].role \in {"user", "tool"}
      BY <3>1 DEF n
    <3> QED
      BY <2>2, <3>1, <3>2
  <2> QED
    BY <1>2, <2>1, <2>3, <2>4
<1>7. g # << >>
  <2>1. Len(g) # 0
    BY <1>1, <1>2
  <2> QED
    BY <1>1, <2>1
<1>8. Orderly(g)
  BY <1>2, <1>4, <1>5, <1>6, <1>7 DEF Orderly
<1> QED
  BY <1>8 DEF g

\* Every answer of p has the calls of one of h.
CallsFrom(p, h) ==
  \A j \in Assistants(p) : \E i \in Assistants(h) : p[j].calls = h[i].calls

\* Pruning keeps it orderly: a cut is before a prompt, and rounds stay whole.
LEMMA PruneOrderly ==
  ASSUME NEW h \in Seq(Message), Orderly(h), Settled(h)
  PROVE  LET p == Prune(Condense(h))
         IN  /\ Orderly(p) /\ CallsFrom(p, h)
             /\ KeepRecentRounds > 0 /\ RoundStarts(h) # {} =>
                   p[Len(p)].role = h[Len(h)].role
<1> DEFINE g == Condense(h)
           p == Prune(g)
           L == Len(Lead(g))
           c == Cut(g)
           s == c - 1 - L
           n == Len(h)
<1>1. /\ g \in Seq(Message) /\ Len(g) = n /\ DOMAIN h = 1..n /\ n \in Nat /\ n >= 1
      /\ \A i \in 1..n : g[i].role = h[i].role /\ g[i].calls = h[i].calls
  BY CondenseShape DEF Orderly
<1>2. \A i \in 1..n : h[i].role = "system" <=> i = 1
  BY <1>1 DEF Orderly
<1>3. Paired(p) /\ Settled(p)
  BY CompactPairing DEF Orderly
<1>4. /\ p \in Seq(Message) /\ SuffixOf(p, g, c, L, s)
      /\ c \in 1..(Len(g) + 1) /\ (c \in DOMAIN g => g[c].role = "user")
  BY <1>1, PruneIsSuffix, CutStartsRound
<1>5. L = 1
  <2>1. g # << >>
    BY <1>1
  <2>2. 1 \in 1..n
    BY <1>1
  <2>3. g[1].role = "system"
    BY <1>1, <1>2, <2>2
  <2> QED
    BY <1>1, <2>1, <2>3, PruneShape
<1>6. KeepRecentRounds > 0 /\ RoundStarts(h) # {} => c <= n
  <2> SUFFICES ASSUME KeepRecentRounds > 0, RoundStarts(h) # {}
               PROVE  c <= n
    OBVIOUS
  <2>1. RoundStarts(g) # {}
    BY CondenseLastStart
  <2>2. c <= LastStart(g) /\ LastStart(g) \in RoundStarts(g)
    BY <1>1, <2>1, LastRoundSurvivesCut, LastStartIsLast
  <2>3. LastStart(g) \in 1..n
    BY <1>1, <2>2 DEF RoundStarts
  <2> QED
    BY <1>1, <1>4, <2>2, <2>3
<1> HIDE DEF g, p, L
<1>7. /\ s = c - 2 /\ s \in Int /\ Len(p) = n - s /\ p[1].role = "system"
      /\ \A i \in 2..Len(p) : p[i] = g[i + s]
      /\ c \in 1..(n + 1) /\ (c \in 1..n => h[c].role = "user")
  <2>1. /\ s \in Int /\ Len(p) = n - s /\ p[1].role = "system"
        /\ \A i \in (L + 1)..Len(p) : p[i] = g[i + s]
    BY <1>1, <1>4, <1>5 DEF SuffixOf
  <2>2. c \in 1..(n + 1) /\ (c \in 1..n => h[c].role = "user")
    BY <1>1, <1>4
  <2>3. s = c - 2
    <3>1. c \in Int
      BY <1>1, <2>2
    <3> HIDE DEF c
    <3> QED
      BY <1>5, <3>1
  <2>4. \A i \in 2..Len(p) : p[i] = g[i + s]
    BY <1>5, <2>1
  <2> QED
    BY <2>1, <2>2, <2>3, <2>4
<1> HIDE DEF c, s, n
<1>8. c >= 2 /\ s >= 0
  <2>1. c # 1
    <3>1. 1 \in 1..n
      BY <1>1
    <3>2. h[1].role = "system"
      BY <1>2, <3>1
    <3> QED
      BY <1>7, <3>1, <3>2
  <2> QED
    BY <1>1, <1>7, <2>1
<1>9. Len(p) \in Nat /\ Len(p) >= 1 /\ DOMAIN p = 1..Len(p) /\ p # << >>
  <2>1. Len(p) \in Nat /\ DOMAIN p = 1..Len(p)
    BY <1>4
  <2>2. Len(p) >= 1
    BY <1>1, <1>7
  <2> QED
    BY <1>4, <2>1, <2>2
<1>10. ASSUME NEW i \in 2..Len(p)
       PROVE  i + s \in 2..n /\ p[i].role = h[i + s].role /\ p[i].calls = h[i + s].calls
  <2>1. i + s \in 2..n
    BY <1>1, <1>7, <1>8
  <2>2. i + s \in 1..n
    BY <2>1
  <2> QED
    BY <1>1, <1>7, <2>1, <2>2
<1>11. ASSUME NEW i \in 1..Len(p)
       PROVE  p[i].role = "system" <=> i = 1
  <2>1. CASE i = 1
    BY <1>7, <2>1
  <2>2. CASE i # 1
    <3>1. i \in 2..Len(p)
      BY <1>9, <2>2
    <3>2. i + s \in 2..n /\ p[i].role = h[i + s].role
      BY <1>10, <3>1
    <3>3. i + s \in 1..n /\ i + s # 1
      BY <3>2
    <3> QED
      BY <1>2, <2>2, <3>2, <3>3
  <2> QED
    BY <2>1, <2>2
<1>12. ASSUME NEW j \in Assistants(p)
       PROVE  /\ p[j - 1].role \in {"user", "tool"}
              /\ \E i \in Assistants(h) : p[j].calls = h[i].calls
  <2>1. j \in 1..Len(p) /\ p[j].role = "assistant" /\ j # 1
    BY <1>9, <1>11 DEF Assistants
  <2>2. j \in 2..Len(p)
    BY <1>9, <2>1
  <2>3. j + s \in 2..n /\ h[j + s].role = "assistant" /\ p[j].calls = h[j + s].calls
    BY <1>10, <2>1, <2>2
  <2>4. j + s \in Assistants(h)
    <3>1. j + s \in 1..n
      BY <2>3
    <3> QED
      BY <1>1, <2>3, <3>1 DEF Assistants
  <2>5. j # 2
    <3> SUFFICES ASSUME j = 2
                 PROVE  FALSE
      OBVIOUS
    <3>1. j + s = c /\ c \in 1..n
      BY <1>7, <1>8, <2>3
    <3> QED
      BY <1>7, <2>3, <3>1
  <2>6. j - 1 \in 2..Len(p) /\ (j - 1) + s = (j + s) - 1
    BY <1>7, <2>2, <2>5
  <2>7. h[(j + s) - 1].role \in {"user", "tool"}
    BY <2>4 DEF Orderly
  <2>8. p[j - 1].role = h[(j + s) - 1].role
    BY <1>10, <2>6
  <2> QED
    BY <2>3, <2>4, <2>7, <2>8
<1>13. ASSUME c <= n
       PROVE  p[Len(p)].role = h[n].role
  <2>1. Len(p) \in 2..Len(p) /\ Len(p) + s = n
    BY <1>1, <1>7, <1>8, <1>13
  <2> QED
    BY <1>10, <2>1
<1>14. Orderly(p)
  BY <1>3, <1>9, <1>11, <1>12 DEF Orderly
<1>15. CallsFrom(p, h)
  BY <1>12 DEF CallsFrom
<1> QED
  BY <1>6, <1>13, <1>14, <1>15 DEF p, g, n

\* Compaction is to leave the history alone or to condense and prune it.
LEMMA CompactOrderly ==
  ASSUME NEW h \in Seq(Message), Orderly(h), Settled(h),
         NEW p, p \in {Compact(h), Prune(Condense(h))}
  PROVE  /\ Orderly(p) /\ CallsFrom(p, h)
         /\ KeepRecentRounds > 0 /\ RoundStarts(h) # {} =>
               p[Len(p)].role = h[Len(h)].role
<1>1. p = h \/ p = Prune(Condense(h))
  BY DEF Compact
<1>2. CASE p = h
  BY <1>2 DEF CallsFrom
<1>3. CASE p = Prune(Condense(h))
  BY <1>3, PruneOrderly
<1> QED
  BY <1>1, <1>2, <1>3

-----------------------------------------------------------------------------
(* Ids.                                                                    *)

\* Ids of the two parsers never meet, and those of Gemini tell the tool.
LEMMA IdsDiffer ==
  ASSUME NEW a, NEW b, NEW k, NEW l
  PROVE  /\ GoogleId(a, k) = GoogleId(b, l) => a = b
         /\ GoogleId(a, k) # << "toolu", l >>
         /\ GoogleId(a, k) = GoogleId(b, l) => k = l
         /\ << "toolu", k >> = << "toolu", l >> => k = l
<1>1. /\ << "call", a, k >>[2] = a /\ << "call", b, l >>[2] = b
      /\ << "call", a, k >>[3] = k /\ << "call", b, l >>[3] = l
      /\ << "call", a, k >>[1] = "call" /\ << "toolu", l >>[1] = "toolu"
      /\ << "toolu", k >>[2] = k /\ << "toolu", l >>[2] = l
  OBVIOUS
<1> QED
  BY <1>1 DEF GoogleId

\* The id of a call for the tool with the name: Gemini's calls are numbered,
\* the others are given by the API, of which the first n are known.
IdFor(id, name, n) ==
  \/ \E k \in Nat : id = GoogleId(name, k)
  \/ \E x \in 1..n : id = << "toolu", x >>

IdsFor(h, n) ==
  \A j \in Assistants(h) : \A k \in DOMAIN h[j].calls :
     IdFor(h[j].calls[k].id, h[j].calls[k].name, n)

IdsIn(h, n) == IdsFor(h, n) /\ IdsApart(h)

\* Compaction brings no new calls.
LEMMA IdsKept ==
  ASSUME NEW h, NEW p, CallsFrom(p, h), NamesKnown(h), NEW n, IdsIn(h, n)
  PROVE  NamesKnown(p) /\ IdsIn(p, n)
<1>1. ASSUME NEW i \in Assistants(p), NEW j \in Assistants(p),
             NEW k \in DOMAIN p[i].calls, NEW l \in DOMAIN p[j].calls,
             p[i].calls[k].id = p[j].calls[l].id
      PROVE  p[i].calls[k].name = p[j].calls[l].name
  <2>1. PICK u \in Assistants(h) : p[i].calls = h[u].calls
    BY DEF CallsFrom
  <2>2. PICK v \in Assistants(h) : p[j].calls = h[v].calls
    BY DEF CallsFrom
  <2> QED
    BY <1>1, <2>1, <2>2 DEF NamesKnown
<1>2. ASSUME NEW j \in Assistants(p), NEW k \in DOMAIN p[j].calls
      PROVE  IdFor(p[j].calls[k].id, p[j].calls[k].name, n)
  <2>1. PICK v \in Assistants(h) : p[j].calls = h[v].calls
    BY DEF CallsFrom
  <2> QED
    BY <1>2, <2>1 DEF IdsIn, IdsFor
<1>3. ASSUME NEW j \in Assistants(p), NEW k \in DOMAIN p[j].calls,
             NEW l \in DOMAIN p[j].calls, p[j].calls[k].id = p[j].calls[l].id
      PROVE  k = l
  <2>1. PICK v \in Assistants(h) : p[j].calls = h[v].calls
    BY DEF CallsFrom
  <2> QED
    BY <1>3, <2>1 DEF IdsIn, IdsApart
<1> QED
  BY <1>1, <1>2, <1>3 DEF NamesKnown, IdsIn, IdsFor, IdsApart

\* A prompt or a result has no calls.
LEMMA IdsAppendOther ==
  ASSUME NEW h \in Seq(Message), NEW m \in Message, m.role # "assistant",
         NamesKnown(h), NEW n, IdsIn(h, n)
  PROVE  NamesKnown(Append(h, m)) /\ IdsIn(Append(h, m), n)
<1> DEFINE g == Append(h, m)
<1>1. /\ g \in Seq(Message) /\ Len(g) = Len(h) + 1 /\ g[Len(h) + 1] = m
      /\ \A i \in 1..Len(h) : g[i] = h[i]
      /\ DOMAIN g = 1..(Len(h) + 1) /\ DOMAIN h = 1..Len(h) /\ Len(h) \in Nat
  BY AppendShape
<1> HIDE DEF g
<1>2. CallsFrom(g, h)
  <2> SUFFICES ASSUME NEW j \in Assistants(g)
               PROVE  \E i \in Assistants(h) : g[j].calls = h[i].calls
    BY DEF CallsFrom
  <2>1. j \in 1..(Len(h) + 1) /\ j # Len(h) + 1 /\ g[j].role = "assistant"
    BY <1>1 DEF Assistants
  <2>2. j \in 1..Len(h)
    BY <1>1, <2>1
  <2>3. j \in Assistants(h) /\ g[j] = h[j]
    BY <1>1, <2>1, <2>2 DEF Assistants
  <2> QED
    BY <2>3
<1>3. NamesKnown(g) /\ IdsIn(g, n)
  BY <1>2, IdsKept
<1> QED
  BY <1>3 DEF g

\* The calls of one answer: Gemini's by their names, or the next n to next.
Fresh(calls, n, next) ==
  \/ GoogleCalls(calls) /\ next = n
  \/ /\ \A k \in DOMAIN calls : calls[k].id = << "toolu", n + k >>
     /\ next = n + Len(calls)

\* An answer's ids tell the tool, or were never given before.
LEMMA IdsAppendAnswer ==
  ASSUME NEW h \in Seq(Message), NEW m \in Message, m.role = "assistant",
         NEW n \in Nat, NamesKnown(h), IdsIn(h, n),
         NEW next, Fresh(m.calls, n, next)
  PROVE  NamesKnown(Append(h, m)) /\ IdsIn(Append(h, m), next) /\ next \in Nat
<1> DEFINE g == Append(h, m)
           c == m.calls
<1>1. /\ g \in Seq(Message) /\ Len(g) = Len(h) + 1 /\ g[Len(h) + 1] = m
      /\ \A i \in 1..Len(h) : g[i] = h[i]
      /\ DOMAIN g = 1..(Len(h) + 1) /\ DOMAIN h = 1..Len(h) /\ Len(h) \in Nat
  BY AppendShape
<1>2. c \in Seq(ToolCall) /\ DOMAIN c = 1..Len(c) /\ Len(c) \in Nat
  BY DEF Message
<1> HIDE DEF g, c
<1>3. ASSUME NEW j \in Assistants(g)
      PROVE  \/ j \in Assistants(h) /\ g[j].calls = h[j].calls
             \/ g[j].calls = c
  <2>1. j \in 1..(Len(h) + 1) /\ g[j].role = "assistant"
    BY <1>1 DEF Assistants
  <2>2. CASE j \in 1..Len(h)
    BY <1>1, <2>1, <2>2 DEF Assistants
  <2>3. CASE j = Len(h) + 1
    BY <1>1, <2>3 DEF c
  <2> QED
    BY <1>1, <2>1, <2>2, <2>3
<1>4. \/ next = n /\ \A k \in DOMAIN c : c[k].id = GoogleId(c[k].name, k)
      \/ next = n + Len(c) /\ \A k \in DOMAIN c : c[k].id = << "toolu", n + k >>
  BY DEF Fresh, GoogleCalls, c
<1>5. next \in Nat /\ n <= next
  BY <1>2, <1>4
<1>6. ASSUME NEW k \in DOMAIN c
      PROVE  IdFor(c[k].id, c[k].name, next)
  <2>1. k \in Nat /\ k >= 1 /\ k <= Len(c)
    BY <1>2
  <2>2. CASE c[k].id = GoogleId(c[k].name, k)
    BY <2>1, <2>2 DEF IdFor
  <2>3. CASE next = n + Len(c) /\ c[k].id = << "toolu", n + k >>
    <3>1. n + k \in 1..next
      BY <1>2, <2>1, <2>3
    <3> QED
      BY <2>3, <3>1 DEF IdFor
  <2> QED
    BY <1>4, <2>2, <2>3
<1>7. ASSUME NEW id, NEW name, IdFor(id, name, n)
      PROVE  IdFor(id, name, next)
  <2>1. CASE \E x \in 1..n : id = << "toolu", x >>
    <3>1. PICK x \in 1..n : id = << "toolu", x >>
      BY <2>1
    <3>2. x \in 1..next
      BY <1>5
    <3> QED
      BY <3>1, <3>2 DEF IdFor
  <2>2. CASE \E k \in Nat : id = GoogleId(name, k)
    BY <2>2 DEF IdFor
  <2> QED
    BY <1>7, <2>1, <2>2 DEF IdFor
<1>8. IdsFor(g, next)
  <2> SUFFICES ASSUME NEW j \in Assistants(g), NEW k \in DOMAIN g[j].calls
               PROVE  IdFor(g[j].calls[k].id, g[j].calls[k].name, next)
    BY DEF IdsFor
  <2>1. CASE j \in Assistants(h) /\ g[j].calls = h[j].calls
    <3>1. k \in DOMAIN h[j].calls
      BY <2>1
    <3>2. IdFor(h[j].calls[k].id, h[j].calls[k].name, n)
      BY <2>1, <3>1 DEF IdsIn, IdsFor
    <3>3. IdFor(h[j].calls[k].id, h[j].calls[k].name, next)
      BY <1>7, <3>2
    <3> QED
      BY <2>1, <3>3
  <2>2. CASE g[j].calls = c
    BY <1>6, <2>2
  <2> QED
    BY <1>3, <2>1, <2>2
<1>9. \* a call of the answer and an older one
      ASSUME NEW j \in Assistants(h), NEW l \in DOMAIN h[j].calls,
             NEW k \in DOMAIN c, c[k].id = h[j].calls[l].id
      PROVE  c[k].name = h[j].calls[l].name
  <2> DEFINE id == h[j].calls[l].id
             name == h[j].calls[l].name
  <2>1. \/ \E i \in Nat : id = GoogleId(name, i)
        \/ \E x \in 1..n : id = << "toolu", x >>
    BY DEF IdsIn, IdsFor, IdFor
  <2>2. c[k].id = id /\ k \in Nat /\ k >= 1
    BY <1>2, <1>9
  <2> HIDE DEF id, name
  <2>3. c[k].name = name
    <3>1. CASE c[k].id = GoogleId(c[k].name, k)
      BY <2>1, <2>2, <3>1, IdsDiffer
    <3>2. CASE c[k].id = << "toolu", n + k >>
      <4>1. \A x \in 1..n : x # n + k
        BY <2>2
      <4> QED
        BY <2>1, <2>2, <3>2, <4>1, IdsDiffer
    <3> QED
      BY <1>4, <3>1, <3>2
  <2> QED
    BY <2>3 DEF name
<1>10. \* two calls of the answer
       ASSUME NEW k \in DOMAIN c, NEW l \in DOMAIN c, c[k].id = c[l].id
       PROVE  k = l
  <2>1. CASE \A i \in DOMAIN c : c[i].id = GoogleId(c[i].name, i)
    <3>1. GoogleId(c[k].name, k) = GoogleId(c[l].name, l)
      BY <1>10, <2>1
    <3> QED
      BY <3>1, IdsDiffer
  <2>2. CASE \A i \in DOMAIN c : c[i].id = << "toolu", n + i >>
    <3>1. << "toolu", n + k >> = << "toolu", n + l >>
      BY <1>10, <2>2
    <3>2. n + k = n + l
      BY <3>1, IdsDiffer
    <3>3. k = l
      BY <1>2, <3>2
    <3> QED
      BY <3>3
  <2> QED
    BY <1>4, <2>1, <2>2
<1>11. NamesKnown(g)
  <2> SUFFICES ASSUME NEW i \in Assistants(g), NEW j \in Assistants(g),
                      NEW k \in DOMAIN g[i].calls, NEW l \in DOMAIN g[j].calls,
                      g[i].calls[k].id = g[j].calls[l].id
               PROVE  g[i].calls[k].name = g[j].calls[l].name
    BY DEF NamesKnown
  <2>1. CASE i \in Assistants(h) /\ g[i].calls = h[i].calls
             /\ j \in Assistants(h) /\ g[j].calls = h[j].calls
    BY <2>1 DEF NamesKnown
  <2>2. CASE i \in Assistants(h) /\ g[i].calls = h[i].calls /\ g[j].calls = c
    BY <1>9, <2>2
  <2>3. CASE g[i].calls = c /\ j \in Assistants(h) /\ g[j].calls = h[j].calls
    BY <1>9, <2>3
  <2>4. CASE g[i].calls = c /\ g[j].calls = c
    BY <1>10, <2>4
  <2> QED
    BY <1>3, <2>1, <2>2, <2>3, <2>4
<1>12. IdsApart(g)
  <2> SUFFICES ASSUME NEW j \in Assistants(g), NEW k \in DOMAIN g[j].calls,
                      NEW l \in DOMAIN g[j].calls,
                      g[j].calls[k].id = g[j].calls[l].id
               PROVE  k = l
    BY DEF IdsApart
  <2>1. CASE j \in Assistants(h) /\ g[j].calls = h[j].calls
    BY <2>1 DEF IdsIn, IdsApart
  <2>2. CASE g[j].calls = c
    BY <1>10, <2>2
  <2> QED
    BY <1>3, <2>1, <2>2
<1> QED
  BY <1>5, <1>8, <1>11, <1>12 DEF g, IdsIn

-----------------------------------------------------------------------------
\* The inductive invariant: with a round kept, the history is one requests can
\* be made of, and the calls with one id ask for one tool.
TurnsInv ==
  KeepRecentRounds > 0 =>
    /\ Orderly(history)
    /\ pc \in {"turn", "chat"} => history[Len(history)].role \in {"user", "tool"}
    /\ given \in Nat /\ NamesKnown(history) /\ IdsIn(history, given)

ProviderInv == LoopInv /\ TurnsInv

\* It holds before the first prompt.
LEMMA ProviderInitHolds == ProviderInit => ProviderInv
<1> SUFFICES ASSUME ProviderInit
             PROVE  ProviderInv
  OBVIOUS
<1>1. LoopInv
  BY InitHolds DEF ProviderInit
<1>2. /\ history = << SystemMessage(SystemSize) >> /\ pc = "idle" /\ given = 0
  BY DEF ProviderInit, Init
<1>3. /\ history # << >> /\ DOMAIN history = {1} /\ history[1].role = "system"
  BY <1>2 DEF SystemMessage, Msg
<1>4. Assistants(history) = {}
  BY <1>3 DEF Assistants
<1>5. Paired(history)
  BY <1>1 DEF LoopInv, ToolPairing
<1>6. Orderly(history)
  BY <1>3, <1>4, <1>5 DEF Orderly
<1> QED
  BY <1>1, <1>2, <1>4, <1>6 DEF ProviderInv, TurnsInv, NamesKnown,
     IdsIn, IdsFor, IdsApart

\* What providers do is done by the loop, for any provider.
LEMMA ProviderStepsLoop ==
  ASSUME [ProviderNext]_providerVars
  PROVE  [Next]_vars
BY DEF ProviderNext, providerVars, ProviderReplies, Next, LoopSteps

\* Every step keeps turns and ids in order.
LEMMA TurnsStep ==
  ASSUME ProviderInv, [ProviderNext]_providerVars, LoopInv'
  PROVE  TurnsInv'
<1> SUFFICES ASSUME KeepRecentRounds > 0
             PROVE  /\ Orderly(history')
                    /\ pc' \in {"turn", "chat"} =>
                         history'[Len(history')].role \in {"user", "tool"}
                    /\ given' \in Nat /\ NamesKnown(history') /\ IdsIn(history', given')
  BY DEF TurnsInv
<1>1. /\ history \in Seq(Message) /\ Orderly(history) /\ given \in Nat
      /\ NamesKnown(history) /\ IdsIn(history, given)
      /\ pc \in {"turn", "chat"} => history[Len(history)].role \in {"user", "tool"}
  BY DEF ProviderInv, TurnsInv, LoopInv, TypeOK
<1>2. Paired(history') /\ history' \in Seq(Message)
  BY DEF LoopInv, ToolPairing, TypeOK
<1>3. pc \in {"idle", "turn", "chat"} => Settled(history)
  BY DEF ProviderInv, LoopInv, ToolPairing
<1>4. \* a prompt or a result
      ASSUME NEW m \in Message, m.role \in {"user", "tool"},
             history' = Append(history, m), UNCHANGED given
      PROVE  /\ Orderly(history') /\ history'[Len(history')].role \in {"user", "tool"}
             /\ given' \in Nat /\ NamesKnown(history') /\ IdsIn(history', given')
  <2>1. Orderly(history')
    BY <1>1, <1>2, <1>4, OrderlyAppend
  <2>2. history'[Len(history')] = m
    BY <1>1, <1>4, AppendShape
  <2>3. NamesKnown(history') /\ IdsIn(history', given)
    BY <1>1, <1>4, IdsAppendOther
  <2> QED
    BY <1>1, <1>4, <2>1, <2>2, <2>3
<1>5. \* compaction
      ASSUME history' \in {Compact(history), Prune(Condense(history))},
             pc \in {"idle", "turn"}, UNCHANGED given
      PROVE  /\ Orderly(history')
             /\ RoundStarts(history) # {} =>
                   history'[Len(history')].role = history[Len(history)].role
             /\ given' \in Nat /\ NamesKnown(history') /\ IdsIn(history', given')
  <2>1. /\ Orderly(history') /\ CallsFrom(history', history)
        /\ RoundStarts(history) # {} =>
               history'[Len(history')].role = history[Len(history)].role
    BY <1>1, <1>3, <1>5, CompactOrderly
  <2>2. NamesKnown(history') /\ IdsIn(history', given)
    BY <1>1, <2>1, IdsKept
  <2> QED
    BY <1>1, <1>5, <2>1, <2>2
<1>6. CASE SubmitPrompt /\ UNCHANGED given
  <2>1. PICK size \in PromptSizes :
           history' = Append(history, UserMessage(prompts + 1, size))
    BY <1>6 DEF SubmitPrompt
  <2>2. /\ UserMessage(prompts + 1, size) \in Message
        /\ UserMessage(prompts + 1, size).role = "user"
    <3>1. prompts \in Nat
      BY LoopAssumption DEF ProviderInv, LoopInv, TypeOK
    <3> QED
      BY <3>1, ConstructorTypes, LoopAssumption DEF UserMessage, Msg
  <2> QED
    BY <1>4, <1>6, <2>1, <2>2
<1>7. CASE SwitchRole /\ UNCHANGED given
  BY <1>1, <1>7 DEF SwitchRole
<1>8. CASE CompactCommand /\ UNCHANGED given
  BY <1>5, <1>8 DEF CompactCommand
<1>9. CASE SendRequest /\ UNCHANGED given
  <2>1. RoundStarts(history) # {}
    BY <1>9 DEF SendRequest, ProviderInv, LoopInv, RequestHasPrompt, Running, LastStart
  <2> QED
    BY <1>1, <1>5, <1>9, <2>1 DEF SendRequest
<1>10. CASE ProviderFails /\ UNCHANGED given
  BY <1>1, <1>10 DEF ProviderFails
<1>11. CASE DispatchCall /\ UNCHANGED given
  <2>1. PICK m \in DispatchResults(Head(pending)) : history' = Append(history, m)
    BY <1>11 DEF DispatchCall
  <2>2. Head(pending) \in ToolCall
    BY <1>11, DispatchStart DEF DispatchCall, ProviderInv, LoopInv
  <2>3. m \in Message /\ m.role = "tool"
    BY <2>2, DispatchResultsType
  <2> QED
    BY <1>4, <1>11, <2>1, <2>3
<1>12. CASE ProviderReplies
  <2>1. PICK calls \in CallSeqs, size \in AnswerSizes :
           /\ history' = Append(history, AssistantMessage(calls, size))
           /\ pending' = calls
           /\ pc' = IF calls = << >> THEN "idle" ELSE "dispatch"
    BY <1>12 DEF ProviderReplies, ProviderAnswers
  <2> DEFINE m == AssistantMessage(calls, size)
  <2>2. m \in Message /\ m.role = "assistant" /\ m.calls = calls
    BY CallSeqsType, ConstructorTypes, LoopAssumption DEF AssistantMessage, Msg
  <2>3. Fresh(m.calls, given, given')
    BY <1>12, <2>1, <2>2 DEF ProviderReplies, Fresh, GoogleCalls, AnthropicCalls
  <2>4. history[Len(history)].role \in {"user", "tool"} /\ pc' \notin {"turn", "chat"}
    BY <1>1, <1>12, <2>1 DEF ProviderReplies, ProviderAnswers
  <2> HIDE DEF m
  <2>5. history' = Append(history, m)
    BY <2>1 DEF m
  <2>6. Orderly(history')
    BY <1>1, <1>2, <2>2, <2>4, <2>5, OrderlyAppend
  <2>7. NamesKnown(history') /\ IdsIn(history', given') /\ given' \in Nat
    BY <1>1, <2>2, <2>3, <2>5, IdsAppendAnswer
  <2> QED
    BY <2>4, <2>6, <2>7
<1>13. CASE UNCHANGED providerVars
  BY <1>1, <1>13 DEF providerVars, vars
<1> QED
  BY <1>6, <1>7, <1>8, <1>9, <1>10, <1>11, <1>12, <1>13 DEF ProviderNext

\* Whoever answers, whatever fails and whatever is compacted: the loop's
\* invariant, the order of turns and the tools of ids hold together.
THEOREM ProviderInvariant == ProviderSpec => []ProviderInv
<1>1. ProviderInv /\ [ProviderNext]_providerVars => ProviderInv'
  <2> SUFFICES ASSUME ProviderInv, [ProviderNext]_providerVars
               PROVE  ProviderInv'
    OBVIOUS
  <2>1. LoopInv /\ [Next]_vars
    BY ProviderStepsLoop DEF ProviderInv
  <2>2. LoopInv'
    BY <2>1, TypeStep, PairingStep, PromptStep DEF LoopInv
  <2> QED
    BY <2>2, TurnsStep DEF ProviderInv
<1> QED
  BY ProviderInitHolds, <1>1, PTL DEF ProviderSpec

\* What a request is made of, when it is sent.
LEMMA ChatSendable ==
  ASSUME ProviderInv, pc = "chat", KeepRecentRounds > 0
  PROVE  /\ history \in Seq(Message) /\ Sendable(history) /\ NamesKnown(history)
         /\ IdsApart(history)
BY DEF ProviderInv, LoopInv, TypeOK, ToolPairing, TurnsInv, Sendable, IdsIn

\* Every request for Anthropic takes its turns as the Messages API asks, answers
\* each call it holds and says all of the history, whatever failed, was cut off,
\* refused or compacted before, for any number of calls, rounds and roles.
THEOREM AnthropicCorrect == ProviderSpec => []AnthropicTurnsMatch
<1>1. ProviderInv => AnthropicTurnsMatch
  <2> SUFFICES ASSUME ProviderInv, pc = "chat", KeepRecentRounds > 0
               PROVE  AnthropicTurnsMatch
    BY DEF AnthropicTurnsMatch
  <2> DEFINE request == AnthropicRequest(history)
  <2>1. ValidAnthropic(request) /\ Complete(request, history, "use", "result")
    BY ChatSendable, AnthropicValid
  <2> HIDE DEF request
  <2>2. request # << >> /\ Complete(request, history, "use", "result")
        /\ \A i \in DOMAIN request :
             request[i].role = (IF i % 2 = 1 THEN "user" ELSE "assistant")
        /\ request[Len(request)].role = "user"
    BY <2>1 DEF ValidAnthropic
  <2>3. \A i \in DOMAIN request : request[i].role = "assistant" =>
         LET uses == Places(request[i], "use")
             next == request[i + 1].blocks
         IN  /\ Cardinality(uses) <= Len(next)
             /\ \A k \in DOMAIN next : next[k].kind = "result" <=> k <= Cardinality(uses)
             /\ \A k \in uses :
                  next[Rank(request[i], "use", k)].id = request[i].blocks[k].id
             /\ \A k \in uses, l \in uses :
                  request[i].blocks[k].id = request[i].blocks[l].id => k = l
    BY <2>1 DEF ValidAnthropic, Answered
  <2> QED
    BY <2>2, <2>3 DEF AnthropicTurnsMatch, request
<1> QED
  BY <1>1, ProviderInvariant, PTL

\* Every request for Gemini answers each call it holds, by name and in order,
\* although the ids it looks names up by repeat from answer to answer, and says
\* all of the history.
THEOREM GoogleCorrect == ProviderSpec => []GoogleRequestValid
<1>1. ProviderInv => GoogleRequestValid
  <2> SUFFICES ASSUME ProviderInv, pc = "chat", KeepRecentRounds > 0
               PROVE  GoogleRequestValid
    BY DEF GoogleRequestValid
  <2> DEFINE request == GoogleRequest(history)
  <2>1. ValidGoogle(request) /\ Complete(request, history, "call", "response")
    BY ChatSendable, GoogleValid
  <2> QED
    BY <2>1 DEF GoogleRequestValid, ValidGoogle
<1> QED
  BY <1>1, ProviderInvariant, PTL

=============================================================================
