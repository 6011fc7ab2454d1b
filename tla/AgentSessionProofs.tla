------------------------- MODULE AgentSessionProofs -------------------------
(***************************************************************************)
(* A session whose steps may raise: for every model, every budget and any  *)
(* number of steps and failures, the damage of a step that raises stays    *)
(* where it happened, and the hooks remember what the messages show.       *)
(***************************************************************************)
EXTENDS AgentSession, CompactorProofs

-----------------------------------------------------------------------------
(* Answers, results and the calls that are answered in full, under the two *)
(* operations on a history: a message is appended, the history compacted.  *)

\* The calls of each message that is an answer with all its results.
Done(h) ==
  [j \in DOMAIN h |->
     IF j \in Assistants(h) \ CutAnswers(h) THEN h[j].calls ELSE << >>]

LEMMA MessageFields ==
  ASSUME NEW h \in Seq(Message), NEW j \in DOMAIN h
  PROVE  /\ j \in 1..Len(h) /\ h[j] \in Message
         /\ h[j].role \in Roles /\ h[j].calls \in Seq(ToolCall)
         /\ DOMAIN h[j].calls = 1..Len(h[j].calls) /\ Len(h[j].calls) \in Nat
<1>1. j \in 1..Len(h) /\ h[j] \in Message
  OBVIOUS
<1>2. h[j].role \in Roles /\ h[j].calls \in Seq(ToolCall)
  BY <1>1 DEF Message
<1> QED
  BY <1>1, <1>2

LEMMA CutAreAssistants ==
  ASSUME NEW h \in Seq(Message), NEW j \in CutAnswers(h)
  PROVE  /\ j \in Assistants(h) /\ j \in 1..Len(h)
         /\ \E k \in 1..Len(h[j].calls) : ~HasResult(h, j, k)
<1>1. j \in Assistants(h) /\ \E k \in DOMAIN h[j].calls : ~HasResult(h, j, k)
  BY DEF CutAnswers
<1>2. j \in DOMAIN h
  BY <1>1 DEF Assistants
<1> QED
  BY <1>1, <1>2, MessageFields

LEMMA CutFinite ==
  ASSUME NEW h \in Seq(Message)
  PROVE  /\ IsFiniteSet(CutAnswers(h)) /\ CutAnswers(h) \subseteq 1..Len(h)
         /\ Cardinality(CutAnswers(h)) \in Nat
<1>1. CutAnswers(h) \subseteq 1..Len(h)
  BY CutAreAssistants
<1>2. IsFiniteSet(1..Len(h))
  BY FS_Interval
<1> QED
  BY <1>1, <1>2, FS_Subset, FS_CardinalityType

LEMMA DoneType ==
  ASSUME NEW h \in Seq(Message)
  PROVE  /\ Done(h) \in Seq(Seq(ToolCall)) /\ Len(Done(h)) = Len(h)
         /\ CompletedCalls(h) = FlattenSeq(Done(h))
         /\ CompletedCalls(h) \in Seq(ToolCall)
<1>1. DOMAIN h = 1..Len(h) /\ Len(h) \in Nat
  OBVIOUS
<1>2. ASSUME NEW j \in 1..Len(h)
      PROVE  Done(h)[j] \in Seq(ToolCall)
  BY <1>1, MessageFields DEF Done
<1>3. DOMAIN Done(h) = 1..Len(h)
  BY <1>1 DEF Done
<1>4. Done(h) \in [1..Len(h) -> Seq(ToolCall)]
  BY <1>1, <1>2, <1>3 DEF Done
<1>5. Done(h) \in Seq(Seq(ToolCall)) /\ Len(Done(h)) = Len(h)
  BY <1>1, <1>4
<1>6. CompletedCalls(h) = FlattenSeq(Done(h))
  BY DEF CompletedCalls, Done
<1> QED
  BY <1>5, <1>6, FlatStep

LEMMA AppendFields ==
  ASSUME NEW h \in Seq(Message), NEW m \in Message
  PROVE  /\ Append(h, m) \in Seq(Message) /\ Len(Append(h, m)) = Len(h) + 1
         /\ DOMAIN h = 1..Len(h) /\ DOMAIN Append(h, m) = 1..(Len(h) + 1)
         /\ Append(h, m)[Len(h) + 1] = m /\ Len(h) \in Nat
         /\ \A i \in 1..Len(h) : Append(h, m)[i] = h[i]
OBVIOUS

\* What a message appended cannot change.
LEMMA AppendKeeps ==
  ASSUME NEW h \in Seq(Message), NEW m \in Message
  PROVE  LET g == Append(h, m)
         IN  /\ \A j \in 1..Len(h) : j \in Assistants(g) <=> j \in Assistants(h)
             /\ \A j \in Assistants(h), k \in Nat :
                   /\ HasResult(h, j, k) => HasResult(g, j, k)
                   /\ j + k <= Len(h) => (HasResult(g, j, k) <=> HasResult(h, j, k))
             /\ \A j \in CutAnswers(g) : j \in 1..Len(h) => j \in CutAnswers(h)
<1> DEFINE g == Append(h, m)
<1>1. /\ g \in Seq(Message) /\ Len(g) = Len(h) + 1 /\ Len(h) \in Nat
      /\ DOMAIN h = 1..Len(h) /\ DOMAIN g = 1..(Len(h) + 1)
      /\ \A i \in 1..Len(h) : g[i] = h[i]
  BY AppendFields
<1> HIDE DEF g
<1>2. \A j \in 1..Len(h) : j \in Assistants(g) <=> j \in Assistants(h)
  BY <1>1 DEF Assistants
<1>3. ASSUME NEW j \in Assistants(h), NEW k \in Nat, j + k <= Len(h)
      PROVE  HasResult(g, j, k) <=> HasResult(h, j, k)
  <2>1. j \in 1..Len(h) /\ j + k \in 1..Len(h)
    BY <1>1, <1>3 DEF Assistants
  <2>2. g[j] = h[j] /\ g[j + k] = h[j + k]
    BY <1>1, <2>1
  <2>3. j + k <= Len(g)
    BY <1>1, <1>3, <2>1
  <2> QED
    BY <1>3, <2>2, <2>3 DEF HasResult
<1>4. ASSUME NEW j \in Assistants(h), NEW k \in Nat, HasResult(h, j, k)
      PROVE  HasResult(g, j, k)
  <2>1. j + k <= Len(h)
    BY <1>4 DEF HasResult
  <2> QED
    BY <1>3, <1>4, <2>1
<1>5. ASSUME NEW j \in CutAnswers(g), j \in 1..Len(h)
      PROVE  j \in CutAnswers(h)
  <2>1. j \in Assistants(g) /\ j \in Assistants(h) /\ g[j] = h[j]
    BY <1>1, <1>2, <1>5, CutAreAssistants
  <2>2. PICK k \in 1..Len(h[j].calls) : ~HasResult(g, j, k)
    BY <1>1, <2>1, CutAreAssistants
  <2>3. k \in Nat /\ DOMAIN h[j].calls = 1..Len(h[j].calls)
    BY <1>1, <1>5, MessageFields
  <2>4. ~HasResult(h, j, k)
    BY <1>4, <2>1, <2>2, <2>3
  <2> QED
    BY <2>1, <2>3, <2>4 DEF CutAnswers
<1> QED
  BY <1>2, <1>3, <1>4, <1>5 DEF g

\* A result in its place stays there.
LEMMA AppendInPlace ==
  ASSUME NEW h \in Seq(Message), NEW m \in Message, ResultsInPlace(h),
         NEW i \in 1..Len(h), h[i].role = "tool"
  PROVE  LET g == Append(h, m)
         IN  \E j \in Assistants(g) : /\ i - j \in DOMAIN g[j].calls
                                      /\ \A k \in 1..(i - j) : HasResult(g, j, k)
<1> DEFINE g == Append(h, m)
<1>1. DOMAIN h = 1..Len(h) /\ \A j \in 1..Len(h) : g[j] = h[j]
  BY AppendFields
<1>2. PICK j \in Assistants(h) : /\ i - j \in DOMAIN h[j].calls
                                 /\ \A k \in 1..(i - j) : HasResult(h, j, k)
  BY <1>1 DEF ResultsInPlace
<1>3. j \in 1..Len(h)
  BY <1>1 DEF Assistants
<1>4. j \in Assistants(g) /\ g[j] = h[j]
  BY <1>1, <1>3, AppendKeeps
<1>5. \A k \in 1..(i - j) : HasResult(g, j, k)
  <2> SUFFICES ASSUME NEW k \in 1..(i - j)
               PROVE  HasResult(g, j, k)
    OBVIOUS
  <2>1. k \in Nat /\ HasResult(h, j, k)
    BY <1>2, <1>3
  <2> QED
    BY <2>1, AppendKeeps
<1> QED
  BY <1>2, <1>4, <1>5

\* A prompt or an answer behind the history: what was answered in full still
\* is, what was cut stays cut.
LEMMA AppendOther ==
  ASSUME NEW h \in Seq(Message), NEW m \in Message, m.role # "tool",
         m.role = "assistant" \/ m.calls = << >>
  PROVE  LET g == Append(h, m)
         IN  /\ ResultsInPlace(h) => ResultsInPlace(g)
             /\ m.calls = << >> => CutAnswers(g) = CutAnswers(h)
             /\ m.calls # << >> => CutAnswers(g) = CutAnswers(h) \cup {Len(h) + 1}
             /\ CompletedCalls(g) = CompletedCalls(h)
<1> DEFINE g == Append(h, m)
           n == Len(h)
<1>1. /\ g \in Seq(Message) /\ Len(g) = n + 1 /\ n \in Nat
      /\ DOMAIN h = 1..n /\ DOMAIN g = 1..(n + 1) /\ g[n + 1] = m
      /\ \A i \in 1..n : g[i] = h[i]
  BY AppendFields
<1>2. ASSUME ResultsInPlace(h)
      PROVE  ResultsInPlace(g)
  <2> SUFFICES ASSUME NEW i \in 1..(n + 1), g[i].role = "tool"
               PROVE  \E j \in Assistants(g) :
                         /\ i - j \in DOMAIN g[j].calls
                         /\ \A k \in 1..(i - j) : HasResult(g, j, k)
    BY <1>1 DEF ResultsInPlace
  <2>1. i \in 1..n /\ h[i].role = "tool"
    BY <1>1
  <2> QED
    BY <1>2, <2>1, AppendInPlace
<1> HIDE DEF g
<1>3. ASSUME NEW j \in CutAnswers(h)
      PROVE  j \in CutAnswers(g)
  <2>1. j \in Assistants(h) /\ j \in 1..n
    BY CutAreAssistants
  <2>2. PICK k \in 1..Len(h[j].calls) : ~HasResult(h, j, k)
    BY CutAreAssistants
  <2>3. j \in Assistants(g) /\ g[j] = h[j]
    BY <1>1, <2>1, AppendKeeps DEF g
  <2>4. k \in Nat /\ k \in DOMAIN h[j].calls
    BY <1>1, <2>1, MessageFields
  <2>5. ~HasResult(g, j, k)
    <3>1. CASE j + k <= n
      BY <2>1, <2>2, <2>4, <3>1, AppendKeeps DEF g
    <3>2. CASE j + k > n
      <4>1. j + k <= n + 1 => j + k = n + 1
        BY <1>1, <2>1, <2>4, <3>2
      <4> QED
        BY <1>1, <4>1 DEF HasResult
    <3> QED
      BY <1>1, <2>1, <2>4, <3>1, <3>2
  <2> QED
    BY <2>3, <2>4, <2>5 DEF CutAnswers
<1>4. n + 1 \in CutAnswers(g) <=> m.calls # << >>
  <2>1. ASSUME n + 1 \in CutAnswers(g)
        PROVE  m.calls # << >>
    <3>1. \E k \in 1..Len(m.calls) : ~HasResult(g, n + 1, k)
      BY <1>1, <2>1, CutAreAssistants
    <3> QED
      BY <3>1
  <2>2. ASSUME m.calls # << >>
        PROVE  n + 1 \in CutAnswers(g)
    <3>1. n + 1 \in Assistants(g)
      BY <1>1, <2>2 DEF Assistants
    <3>2. m.calls \in Seq(ToolCall) /\ 1 \in DOMAIN m.calls
      BY <2>2 DEF Message
    <3>3. ~HasResult(g, n + 1, 1)
      BY <1>1 DEF HasResult
    <3> QED
      BY <1>1, <3>1, <3>2, <3>3 DEF CutAnswers
  <2> QED
    BY <2>1, <2>2
<1>5. CutAnswers(g) \subseteq 1..(n + 1) /\ CutAnswers(h) \subseteq 1..n
  BY <1>1, CutFinite
<1>6. \A j \in 1..n : j \in CutAnswers(g) <=> j \in CutAnswers(h)
  BY <1>3, AppendKeeps DEF g
<1>7. /\ m.calls = << >> => CutAnswers(g) = CutAnswers(h)
      /\ m.calls # << >> => CutAnswers(g) = CutAnswers(h) \cup {n + 1}
  <2>1. \A j \in 1..(n + 1) : j \in 1..n \/ j = n + 1
    BY <1>1
  <2>2. n + 1 \notin 1..n
    BY <1>1
  <2> QED
    BY <1>4, <1>5, <1>6, <2>1, <2>2
<1>8. Done(g) = Append(Done(h), << >>)
  <2>1. /\ Done(h) \in Seq(Seq(ToolCall)) /\ Len(Done(h)) = n
        /\ Done(g) \in Seq(Seq(ToolCall)) /\ Len(Done(g)) = n + 1
    BY <1>1, DoneType
  <2>2. ASSUME NEW j \in 1..n
        PROVE  Done(g)[j] = Done(h)[j]
    <3>1. j \in Assistants(g) <=> j \in Assistants(h)
      BY AppendKeeps DEF g
    <3>2. j \in DOMAIN g /\ j \in DOMAIN h /\ g[j] = h[j]
      BY <1>1
    <3> QED
      BY <1>6, <3>1, <3>2 DEF Done
  <2>3. Done(g)[n + 1] = << >>
    <3>1. n + 1 \in Assistants(g) \ CutAnswers(g) => m.calls = << >>
      BY <1>4
    <3> QED
      BY <1>1, <3>1 DEF Done
  <2>4. << >> \in Seq(ToolCall)
    OBVIOUS
  <2> DEFINE D == Done(h)
             e == << >>
  <2>5. /\ Append(D, e) \in Seq(Seq(ToolCall)) /\ Len(Append(D, e)) = n + 1
        /\ Append(D, e)[n + 1] = e
        /\ \A j \in 1..n : Append(D, e)[j] = D[j]
    <3> HIDE DEF D, e
    <3>1. D \in Seq(Seq(ToolCall)) /\ Len(D) = n /\ e \in Seq(ToolCall)
      BY <2>1, <2>4 DEF D, e
    <3> QED
      BY <1>1, <3>1
  <2>6. \A j \in 1..(n + 1) : Done(g)[j] = Append(D, e)[j]
    <3>1. \A j \in 1..(n + 1) : j \in 1..n \/ j = n + 1
      BY <1>1
    <3> QED
      BY <2>2, <2>3, <2>5, <3>1
  <2> HIDE DEF D, e
  <2>7. Done(g) = Append(D, e)
    BY <2>1, <2>5, <2>6, SameSequence
  <2> QED
    BY <2>7 DEF D, e
<1>9. CompletedCalls(g) = CompletedCalls(h)
  <2>1. << >> \in Seq(ToolCall)
    OBVIOUS
  <2>2. FlattenSeq(Append(Done(h), << >>)) = Join(FlattenSeq(Done(h)), << >>)
    <3> DEFINE e == << >>
               D == Done(h)
    <3>1. D \in Seq(Seq(ToolCall)) /\ e \in Seq(ToolCall)
      BY <2>1, DoneType
    <3> HIDE DEF e, D
    <3>2. FlattenSeq(Append(D, e)) = Join(FlattenSeq(D), e)
      BY <3>1, FlattenAppend
    <3> QED
      BY <3>2 DEF e, D
  <2> QED
    BY <1>1, <1>8, <2>2, DoneType, EmptyNeutral
<1> QED
  BY <1>2, <1>7, <1>9 DEF g

\* The answer j of h is at work: its first n calls have their results, and the
\* last of these ends the history.
AtWork(h, j, n) ==
  /\ j \in Assistants(h) /\ n \in Nat
  /\ j + n = Len(h) /\ n < Len(h[j].calls)
  /\ \A k \in 1..n : HasResult(h, j, k)

LEMMA AtWorkIsCut ==
  ASSUME NEW h \in Seq(Message), NEW j, NEW n, AtWork(h, j, n)
  PROVE  /\ j \in CutAnswers(h) /\ j \in 1..Len(h)
         /\ \A i \in (j + 1)..Len(h) : h[i].role = "tool"
<1>1. /\ j \in Assistants(h) /\ n \in Nat
      /\ j + n = Len(h) /\ n < Len(h[j].calls)
      /\ \A k \in 1..n : HasResult(h, j, k)
  BY DEF AtWork
<1>2. j \in DOMAIN h /\ j \in 1..Len(h)
  BY <1>1 DEF Assistants
<1>3. DOMAIN h[j].calls = 1..Len(h[j].calls) /\ Len(h[j].calls) \in Nat
  BY <1>2, MessageFields
<1>4. n + 1 \in DOMAIN h[j].calls
  BY <1>1, <1>3
<1>5. ~HasResult(h, j, n + 1)
  BY <1>1, <1>2 DEF HasResult
<1>6. ASSUME NEW i \in (j + 1)..Len(h)
      PROVE  h[i].role = "tool"
  <2>1. i - j \in 1..n /\ j + (i - j) = i
    BY <1>1, <1>2
  <2>2. HasResult(h, j, i - j)
    BY <1>1, <2>1
  <2> QED
    BY <2>1, <2>2 DEF HasResult
<1> QED
  BY <1>1, <1>2, <1>4, <1>5, <1>6 DEF CutAnswers

\* The next result behind the answer at work.
LEMMA AppendResult ==
  ASSUME NEW h \in Seq(Message), NEW j, NEW n, AtWork(h, j, n),
         NEW m \in Message, m.role = "tool", m.id = h[j].calls[n + 1].id,
         m.calls = << >>
  PROVE  LET g == Append(h, m)
         IN  /\ ResultsInPlace(h) => ResultsInPlace(g)
             /\ n + 1 < Len(h[j].calls) =>
                  /\ AtWork(g, j, n + 1)
                  /\ CutAnswers(g) = CutAnswers(h)
                  /\ CompletedCalls(g) = CompletedCalls(h)
             /\ n + 1 = Len(h[j].calls) =>
                  /\ CutAnswers(g) = CutAnswers(h) \ {j}
                  /\ CompletedCalls(g) = Join(CompletedCalls(h), h[j].calls)
<1> DEFINE g == Append(h, m)
           l == Len(h)
<1>1. /\ g \in Seq(Message) /\ Len(g) = l + 1 /\ l \in Nat
      /\ DOMAIN h = 1..l /\ DOMAIN g = 1..(l + 1) /\ g[l + 1] = m
      /\ \A i \in 1..l : g[i] = h[i]
  BY AppendFields
<1>2. /\ j \in Assistants(h) /\ n \in Nat
      /\ j + n = l /\ n < Len(h[j].calls)
      /\ \A k \in 1..n : HasResult(h, j, k)
  BY DEF AtWork
<1>3. /\ j \in CutAnswers(h) /\ j \in 1..l
      /\ \A i \in (j + 1)..l : h[i].role = "tool"
  BY AtWorkIsCut
<1>4. /\ h[j].calls \in Seq(ToolCall) /\ Len(h[j].calls) \in Nat
      /\ DOMAIN h[j].calls = 1..Len(h[j].calls)
  BY <1>1, <1>3, MessageFields
<1>5. j \in Assistants(g) /\ g[j] = h[j]
  BY <1>1, <1>2, <1>3, AppendKeeps
<1> HIDE DEF g
<1>6. \A k \in 1..(n + 1) : HasResult(g, j, k)
  <2> SUFFICES ASSUME NEW k \in 1..(n + 1)
               PROVE  HasResult(g, j, k)
    OBVIOUS
  <2>1. CASE k = n + 1
    <3>1. j + k = l + 1
      BY <1>2, <1>3, <2>1
    <3> QED
      BY <1>1, <1>5, <2>1, <3>1 DEF HasResult
  <2>2. CASE k # n + 1
    <3>1. k \in 1..n /\ k \in Nat
      BY <1>2, <2>2
    <3> QED
      BY <1>2, <3>1, AppendKeeps DEF g
  <2> QED
    BY <2>1, <2>2
<1>7. ASSUME ResultsInPlace(h)
      PROVE  ResultsInPlace(g)
  <2> SUFFICES ASSUME NEW i \in 1..(l + 1), g[i].role = "tool"
               PROVE  \E a \in Assistants(g) :
                         /\ i - a \in DOMAIN g[a].calls
                         /\ \A k \in 1..(i - a) : HasResult(g, a, k)
    BY <1>1 DEF ResultsInPlace
  <2>1. CASE i \in 1..l
    <3>1. h[i].role = "tool"
      BY <1>1, <2>1
    <3> QED
      BY <1>7, <2>1, <3>1, AppendInPlace DEF g
  <2>2. CASE i = l + 1
    <3>1. i - j = n + 1 /\ n + 1 \in 1..Len(h[j].calls)
      BY <1>2, <1>3, <1>4, <2>2, SMTT(30)
    <3> QED
      BY <1>4, <1>5, <1>6, <3>1
  <2> QED
    BY <1>1, <2>1, <2>2
<1>8. ASSUME NEW a \in CutAnswers(h), a # j
      PROVE  a \in CutAnswers(g)
  <2>1. a \in Assistants(h) /\ a \in 1..l
    BY CutAreAssistants
  <2>2. PICK k \in 1..Len(h[a].calls) : ~HasResult(h, a, k)
    BY CutAreAssistants
  <2>3. a \in Assistants(g) /\ g[a] = h[a]
    BY <1>1, <2>1, AppendKeeps DEF g
  <2>4. /\ k \in Nat /\ k >= 1 /\ Len(h[a].calls) \in Nat /\ k <= Len(h[a].calls)
        /\ DOMAIN h[a].calls = 1..Len(h[a].calls)
    BY <1>1, <2>1, MessageFields
  <2>5. a < j
    <3>1. h[a].role = "assistant"
      BY <2>1 DEF Assistants
    <3> QED
      BY <1>3, <1>8, <2>1, <3>1
  <2>6. CASE a + k <= l
    <3>1. ~HasResult(g, a, k)
      BY <2>1, <2>2, <2>4, <2>6, AppendKeeps DEF g
    <3> QED
      BY <2>3, <2>4, <3>1 DEF CutAnswers
  <2>7. CASE a + k > l
    <3> DEFINE b == j - a
    <3>1. b \in 1..Len(h[a].calls) /\ a + b = j
      BY <1>2, <1>3, <2>1, <2>4, <2>5, <2>7
    <3>2. g[j].role = "assistant"
      BY <1>5 DEF Assistants
    <3> HIDE DEF b
    <3>3. ~HasResult(g, a, b)
      BY <3>1, <3>2 DEF HasResult
    <3> QED
      BY <2>3, <2>4, <3>1, <3>3 DEF CutAnswers
  <2> QED
    BY <1>1, <2>1, <2>4, <2>6, <2>7
<1>9. l + 1 \notin Assistants(g)
  BY <1>1 DEF Assistants
<1>10. CutAnswers(g) \subseteq CutAnswers(h)
  <2> SUFFICES ASSUME NEW a \in CutAnswers(g)
               PROVE  a \in CutAnswers(h)
    OBVIOUS
  <2>1. a \in 1..(l + 1) /\ a # l + 1
    BY <1>1, <1>9, CutAreAssistants
  <2>2. a \in 1..l
    BY <1>1, <2>1
  <2> QED
    BY <2>2, AppendKeeps DEF g
<1>11. j \in CutAnswers(g) <=> n + 1 < Len(h[j].calls)
  <2>1. ASSUME n + 1 < Len(h[j].calls)
        PROVE  j \in CutAnswers(g)
    <3>1. n + 2 \in DOMAIN h[j].calls
      BY <1>2, <1>4, <2>1
    <3>2. ~HasResult(g, j, n + 2)
      BY <1>1, <1>2, <1>3 DEF HasResult
    <3> QED
      BY <1>5, <3>1, <3>2 DEF CutAnswers
  <2>2. ASSUME ~(n + 1 < Len(h[j].calls))
        PROVE  j \notin CutAnswers(g)
    <3>1. Len(h[j].calls) = n + 1
      BY <1>2, <1>4, <2>2
    <3> QED
      BY <1>1, <1>5, <1>6, <3>1, CutAreAssistants
  <2> QED
    BY <2>1, <2>2
<1>12. ASSUME n + 1 < Len(h[j].calls)
       PROVE  AtWork(g, j, n + 1) /\ CutAnswers(g) = CutAnswers(h)
  <2>1. n + 1 \in Nat /\ j + (n + 1) = Len(g)
    BY <1>1, <1>2, <1>3, SMTT(30)
  <2>2. AtWork(g, j, n + 1)
    BY <1>5, <1>6, <1>12, <2>1 DEF AtWork
  <2>3. CutAnswers(g) = CutAnswers(h)
    BY <1>8, <1>10, <1>11, <1>12
  <2> QED
    BY <2>2, <2>3
<1>13. ASSUME n + 1 = Len(h[j].calls)
       PROVE  CutAnswers(g) = CutAnswers(h) \ {j}
  <2>1. j \notin CutAnswers(g)
    BY <1>4, <1>11, <1>13
  <2> QED
    BY <1>8, <1>10, <2>1
<1> DEFINE D == Done(h)
           e == << >>
           t == Append(D, e)
<1>14. D \in Seq(Seq(ToolCall)) /\ Len(D) = l /\ e \in Seq(ToolCall)
       /\ CompletedCalls(h) = FlattenSeq(D)
  BY DoneType
<1>15. /\ Done(g) \in Seq(Seq(ToolCall)) /\ Len(Done(g)) = l + 1
       /\ CompletedCalls(g) = FlattenSeq(Done(g))
  BY <1>1, DoneType
<1>16. ASSUME NEW a \in 1..l, a # j
       PROVE  Done(g)[a] = D[a]
  <2>1. a \in Assistants(g) <=> a \in Assistants(h)
    BY AppendKeeps DEF g
  <2>2. a \in CutAnswers(g) <=> a \in CutAnswers(h)
    BY <1>8, <1>10, <1>16
  <2>3. a \in DOMAIN g /\ a \in DOMAIN h /\ g[a] = h[a]
    BY <1>1
  <2> QED
    BY <2>1, <2>2, <2>3 DEF Done
<1>17. Done(g)[l + 1] = << >>
  BY <1>1, <1>9 DEF Done
<1>18. D[j] = << >>
  BY <1>1, <1>3 DEF Done
<1>19. \A i \in (j + 1)..l : D[i] = << >>
  <2> SUFFICES ASSUME NEW i \in (j + 1)..l
               PROVE  D[i] = << >>
    OBVIOUS
  <2>1. i \in DOMAIN h /\ h[i].role = "tool"
    BY <1>1, <1>3
  <2> QED
    BY <2>1 DEF Done, Assistants
<1>20. Done(g)[j] = IF n + 1 = Len(h[j].calls) THEN h[j].calls ELSE << >>
  <2>1. j \in DOMAIN g
    BY <1>1, <1>3
  <2>2. n + 1 = Len(h[j].calls) <=> ~(n + 1 < Len(h[j].calls))
    BY <1>2, <1>4
  <2> QED
    BY <1>5, <1>11, <2>1, <2>2 DEF Done
<1> HIDE DEF D, e
<1>21. /\ t \in Seq(Seq(ToolCall)) /\ Len(t) = l + 1 /\ t[l + 1] = e
       /\ \A i \in 1..l : t[i] = D[i]
  BY <1>1, <1>14
<1>22. FlattenSeq(t) = CompletedCalls(h)
  <2>1. FlattenSeq(t) = Join(FlattenSeq(D), e)
    BY <1>14, FlattenAppend
  <2>2. CompletedCalls(h) \in Seq(ToolCall)
    BY DoneType
  <2> QED
    BY <1>14, <2>1, <2>2, EmptyNeutral DEF e
<1> HIDE DEF t
<1>23. \A i \in 1..(l + 1) : i # j => Done(g)[i] = t[i]
  <2>1. \A i \in 1..(l + 1) : i \in 1..l \/ i = l + 1
    BY <1>1
  <2> QED
    BY <1>16, <1>17, <1>21, <2>1 DEF e
<1>24. ASSUME n + 1 < Len(h[j].calls)
       PROVE  CompletedCalls(g) = CompletedCalls(h)
  <2>1. Done(g)[j] = << >>
    BY <1>4, <1>20, <1>24
  <2>2. t[j] = << >>
    BY <1>3, <1>18, <1>21
  <2>3. \A i \in 1..(l + 1) : Done(g)[i] = t[i]
    BY <1>23, <2>1, <2>2
  <2>4. Done(g) = t
    BY <1>15, <1>21, <2>3, SameSequence
  <2> QED
    BY <1>15, <1>22, <2>4
<1>25. ASSUME n + 1 = Len(h[j].calls)
       PROVE  CompletedCalls(g) = Join(CompletedCalls(h), h[j].calls)
  <2>1. j \in 1..Len(t)
    BY <1>1, <1>3, <1>21
  <2>2. \A i \in j..Len(t) : t[i] = << >>
    <3>1. \A i \in j..(l + 1) : i = j \/ i \in (j + 1)..l \/ i = l + 1
      BY <1>1, <1>3
    <3>2. \A i \in (j + 1)..l : i \in 1..l
      BY <1>1, <1>3
    <3>3. t[j] = << >> /\ t[l + 1] = << >>
      BY <1>3, <1>18, <1>21 DEF e
    <3> QED
      BY <1>19, <1>21, <3>1, <3>2, <3>3
  <2>3. FillsIn(t, Done(g), j)
    BY <1>15, <1>21, <1>23, <2>1, <2>2 DEF FillsIn
  <2>4. FlattenSeq(Done(g)) = Join(FlattenSeq(t), Done(g)[j])
    <3>1. t \in Seq(Seq(ToolCall)) /\ Done(g) \in Seq(Seq(ToolCall))
      BY <1>15, <1>21
    <3> QED
      BY <2>3, <3>1, FlattenFill
  <2> QED
    BY <1>15, <1>20, <1>22, <1>25, <2>4
<1> QED
  BY <1>7, <1>12, <1>13, <1>24, <1>25 DEF g

\* Condensing changes sizes only.
LEMMA CondenseKeeps ==
  ASSUME NEW h \in Seq(Message)
  PROVE  LET g == Condense(h)
         IN  /\ g \in Seq(Message)
             /\ ResultsInPlace(h) => ResultsInPlace(g)
             /\ CutAnswers(g) = CutAnswers(h)
             /\ CompletedCalls(g) = CompletedCalls(h)
<1> DEFINE g == Condense(h)
<1>1. /\ g \in Seq(Message) /\ Len(g) = Len(h) /\ Len(h) \in Nat
      /\ DOMAIN h = 1..Len(h) /\ DOMAIN g = 1..Len(h)
      /\ \A i \in 1..Len(h) : /\ g[i].role = h[i].role
                              /\ g[i].calls = h[i].calls
                              /\ g[i].id = h[i].id
  BY CondenseShape
<1> HIDE DEF g
<1>2. Assistants(g) = Assistants(h)
  BY <1>1 DEF Assistants
<1>3. ASSUME NEW j \in 1..Len(h), NEW k \in Nat
      PROVE  HasResult(g, j, k) <=> HasResult(h, j, k)
  <2>1. CASE j + k <= Len(h)
    <3>1. j + k \in 1..Len(h)
      BY <1>1, <2>1
    <3> QED
      BY <1>1, <3>1 DEF HasResult
  <2>2. CASE ~(j + k <= Len(h))
    BY <1>1, <2>2 DEF HasResult
  <2> QED
    BY <2>1, <2>2
<1>4. \A j \in Assistants(h) : /\ j \in 1..Len(h) /\ g[j].calls = h[j].calls
                               /\ DOMAIN h[j].calls = 1..Len(h[j].calls)
                               /\ \A k \in DOMAIN h[j].calls : k \in Nat
  <2> SUFFICES ASSUME NEW j \in Assistants(h)
               PROVE  /\ j \in 1..Len(h) /\ g[j].calls = h[j].calls
                      /\ DOMAIN h[j].calls = 1..Len(h[j].calls)
                      /\ \A k \in DOMAIN h[j].calls : k \in Nat
    OBVIOUS
  <2>1. j \in DOMAIN h
    BY DEF Assistants
  <2> QED
    BY <1>1, <2>1, MessageFields
<1>5. CutAnswers(g) = CutAnswers(h)
  BY <1>2, <1>3, <1>4 DEF CutAnswers
<1>6. ASSUME ResultsInPlace(h)
      PROVE  ResultsInPlace(g)
  <2> SUFFICES ASSUME NEW i \in 1..Len(h), g[i].role = "tool"
               PROVE  \E j \in Assistants(g) :
                         /\ i - j \in DOMAIN g[j].calls
                         /\ \A k \in 1..(i - j) : HasResult(g, j, k)
    BY <1>1 DEF ResultsInPlace
  <2>1. h[i].role = "tool"
    BY <1>1
  <2>2. PICK j \in Assistants(h) : /\ i - j \in DOMAIN h[j].calls
                                   /\ \A k \in 1..(i - j) : HasResult(h, j, k)
    BY <1>1, <1>6, <2>1 DEF ResultsInPlace
  <2>3. \A k \in 1..(i - j) : HasResult(g, j, k)
    BY <1>3, <1>4, <2>2
  <2> QED
    BY <1>2, <1>4, <2>2, <2>3
<1>7. Done(g) = Done(h)
  <2>1. \A j \in 1..Len(h) : Done(g)[j] = Done(h)[j]
    BY <1>1, <1>2, <1>5 DEF Done
  <2>2. /\ Done(g) \in Seq(Seq(ToolCall)) /\ Len(Done(g)) = Len(h)
        /\ Done(h) \in Seq(Seq(ToolCall)) /\ Len(Done(h)) = Len(h)
    BY <1>1, DoneType
  <2> QED
    BY <2>1, <2>2, SameSequence
<1>8. CompletedCalls(g) = CompletedCalls(h)
  BY <1>1, <1>7, DoneType
<1> QED
  BY <1>1, <1>5, <1>6, <1>8 DEF g

\* Pruning takes whole rounds off the front: it cuts no answer, separates no
\* result from its answer, and what it forgets are the oldest calls.
LEMMA PruneKeeps ==
  ASSUME NEW h \in Seq(Message), ResultsInPlace(h)
  PROVE  LET p == Prune(h)
         IN  /\ p \in Seq(Message)
             /\ ResultsInPlace(p)
             /\ Cardinality(CutAnswers(p)) <= Cardinality(CutAnswers(h))
             /\ \E u \in Seq(ToolCall) :
                   CompletedCalls(h) = Join(u, CompletedCalls(p))
<1> DEFINE p == Prune(h)
           L == Len(Lead(h))
           c == Cut(h)
           s == c - 1 - L
<1>1. p \in Seq(Message) /\ SuffixOf(p, h, c, L, s)
  BY PruneIsSuffix
<1>2. c <= Len(h) => h[c].role = "user"
  BY CutStartsRound
<1> HIDE DEF p, L, c
<1>3. /\ L \in {0, 1} /\ c \in 1..(Len(h) + 1) /\ s \in Int
      /\ Len(p) = Len(h) - s
      /\ L = 1 => p[1].role = "system"
      /\ \A i \in (L + 1)..Len(p) : p[i] = h[i + s]
  BY <1>1 DEF SuffixOf
<1>4. Len(h) \in Nat /\ Len(p) \in Nat /\ DOMAIN h = 1..Len(h) /\ DOMAIN p = 1..Len(p)
  BY <1>1
<1>5. ASSUME NEW i \in (L + 1)..Len(p)
      PROVE  i + s \in 1..Len(h) /\ i + s >= c /\ p[i] = h[i + s] /\ i \in 1..Len(p)
  BY <1>3, <1>4
<1>6. ASSUME NEW i \in 1..Len(p), p[i].role # "system"
      PROVE  i \in (L + 1)..Len(p)
  <2>1. CASE L = 0
    BY <1>4, <2>1
  <2>2. CASE L = 1
    <3>1. i # 1
      BY <1>3, <1>6, <2>2
    <3> QED
      BY <1>4, <2>2, <3>1
  <2> QED
    BY <1>3, <2>1, <2>2
<1> HIDE DEF s
<1>7. ASSUME NEW j \in (L + 1)..Len(p), NEW k \in Nat
      PROVE  HasResult(p, j, k) <=> HasResult(h, j + s, k)
  <2>1. j + k <= Len(p) <=> (j + s) + k <= Len(h)
    BY <1>3, <1>4
  <2>2. CASE j + k <= Len(p)
    <3>1. j + k \in (L + 1)..Len(p) /\ (j + k) + s = (j + s) + k
      BY <1>3, <1>4, <2>2
    <3>2. p[j + k] = h[(j + s) + k] /\ p[j] = h[j + s]
      BY <1>5, <3>1
    <3> QED
      BY <2>1, <3>2 DEF HasResult
  <2>3. CASE ~(j + k <= Len(p))
    BY <2>1, <2>3 DEF HasResult
  <2> QED
    BY <2>2, <2>3
<1>8. ASSUME NEW j \in 1..Len(p), p[j].role = "assistant"
      PROVE  /\ j \in (L + 1)..Len(p) /\ j + s \in 1..Len(h) /\ p[j] = h[j + s]
             /\ j \in Assistants(p) /\ j + s \in Assistants(h)
             /\ j \in CutAnswers(p) <=> j + s \in CutAnswers(h)
  <2>1. j \in (L + 1)..Len(p)
    BY <1>6, <1>8
  <2>2. j + s \in 1..Len(h) /\ p[j] = h[j + s]
    BY <1>5, <2>1
  <2>3. j \in Assistants(p) /\ j + s \in Assistants(h)
    BY <1>4, <1>8, <2>2 DEF Assistants
  <2>4. \A k \in DOMAIN p[j].calls : k \in Nat
    BY <1>1, <1>4, MessageFields
  <2>5. j \in CutAnswers(p) <=> j + s \in CutAnswers(h)
    BY <1>7, <2>1, <2>2, <2>3, <2>4 DEF CutAnswers
  <2> QED
    BY <2>1, <2>2, <2>3, <2>5
<1>9. ResultsInPlace(p)
  <2> SUFFICES ASSUME NEW i \in 1..Len(p), p[i].role = "tool"
               PROVE  \E j \in Assistants(p) :
                         /\ i - j \in DOMAIN p[j].calls
                         /\ \A k \in 1..(i - j) : HasResult(p, j, k)
    BY <1>4 DEF ResultsInPlace
  <2>1. i \in (L + 1)..Len(p)
    BY <1>6
  <2>2. i + s \in 1..Len(h) /\ i + s >= c /\ p[i] = h[i + s]
    BY <1>5, <2>1
  <2>3. PICK a \in Assistants(h) : /\ (i + s) - a \in DOMAIN h[a].calls
                                   /\ \A k \in 1..((i + s) - a) : HasResult(h, a, k)
    BY <1>4, <2>2 DEF ResultsInPlace
  <2>4. a \in 1..Len(h) /\ h[a].role = "assistant"
    BY <1>4 DEF Assistants
  <2>5. (i + s) - a >= 1
    <3>1. DOMAIN h[a].calls = 1..Len(h[a].calls)
      BY <1>4, <2>4, MessageFields
    <3> QED
      BY <2>3, <3>1
  <2>6. a >= c
    <3> SUFFICES ASSUME ~(a >= c)
                 PROVE  FALSE
      OBVIOUS
    <3>1. c <= Len(h) /\ c - a \in 1..((i + s) - a) /\ a + (c - a) = c
      BY <1>3, <1>4, <2>2, <2>4
    <3>2. HasResult(h, a, c - a)
      BY <2>3, <3>1
    <3>3. h[c].role = "tool"
      BY <3>1, <3>2 DEF HasResult
    <3> QED
      BY <1>2, <3>1, <3>3
  <2> DEFINE j == a - s
  <2>7. j + s = a /\ j \in (L + 1)..Len(p) /\ i - j = (i + s) - a
    BY <1>3, <1>4, <2>1, <2>4, <2>6 DEF s
  <2> HIDE DEF j
  <2>8. j \in 1..Len(p) /\ p[j] = h[a]
    BY <1>5, <2>7
  <2>9. j \in Assistants(p)
    BY <1>4, <2>4, <2>8 DEF Assistants
  <2>10. \A k \in 1..(i - j) : HasResult(p, j, k)
    <3> SUFFICES ASSUME NEW k \in 1..(i - j)
                 PROVE  HasResult(p, j, k)
      OBVIOUS
    <3>1. k \in Nat /\ HasResult(h, a, k)
      BY <2>3, <2>7
    <3> QED
      BY <1>7, <2>7, <3>1
  <2> QED
    BY <2>3, <2>7, <2>8, <2>9, <2>10
<1>10. Cardinality(CutAnswers(p)) <= Cardinality(CutAnswers(h))
  <2> DEFINE f == [j \in CutAnswers(p) |-> j + s]
  <2>1. ASSUME NEW j \in CutAnswers(p)
        PROVE  j + s \in CutAnswers(h) /\ j \in Int
    <3>1. j \in Assistants(p) /\ j \in 1..Len(p)
      BY <1>1, CutAreAssistants
    <3>2. p[j].role = "assistant"
      BY <3>1 DEF Assistants
    <3> QED
      BY <1>8, <3>1, <3>2
  <2>2. f \in Injection(CutAnswers(p), CutAnswers(h))
    BY <1>3, <2>1 DEF Injection, IsInjective
  <2> HIDE DEF f
  <2> QED
    BY <2>2, CutFinite, FS_Injection
<1>11. \E u \in Seq(ToolCall) : CompletedCalls(h) = Join(u, CompletedCalls(p))
  <2> DEFINE D == Done(h)
             E == Done(p)
             m == Len(p) - L
             d == c - 1
  <2>1. /\ D \in Seq(Seq(ToolCall)) /\ Len(D) = Len(h)
        /\ E \in Seq(Seq(ToolCall)) /\ Len(E) = Len(p)
        /\ CompletedCalls(h) = FlattenSeq(D) /\ CompletedCalls(p) = FlattenSeq(E)
    BY <1>1, DoneType
  <2>2. /\ d \in Nat /\ L \in Nat /\ m \in Nat
        /\ d + m = Len(h) /\ L + m = Len(p) /\ d = L + s
    BY <1>3, <1>4 DEF s
  <2>3. ASSUME NEW j \in (L + 1)..Len(p)
        PROVE  E[j] = D[j + s]
    <3>1. j \in 1..Len(p) /\ j + s \in 1..Len(h) /\ p[j] = h[j + s]
      BY <1>5
    <3>2. j \in Assistants(p) <=> p[j].role = "assistant"
      BY <1>4, <3>1 DEF Assistants
    <3>3. j + s \in Assistants(h) <=> p[j].role = "assistant"
      BY <1>4, <3>1 DEF Assistants
    <3>4. p[j].role = "assistant" => (j \in CutAnswers(p) <=> j + s \in CutAnswers(h))
      BY <1>8, <3>1
    <3> QED
      BY <1>4, <3>1, <3>2, <3>3, <3>4 DEF Done
  <2>4. \A i \in 1..L : E[i] = << >>
    <3> SUFFICES ASSUME NEW i \in 1..L
                 PROVE  E[i] = << >>
      OBVIOUS
    <3>1. i = 1 /\ L = 1
      BY <1>3
    <3>2. 1 \in DOMAIN p
      BY <1>4, <2>2, <3>1
    <3> QED
      BY <1>3, <3>1, <3>2 DEF Done, Assistants
  <2> HIDE DEF D, E, m, d
  <2>5. ASSUME NEW i \in 1..m
        PROVE  D[d + i] = E[L + i]
    <3>1. L + i \in (L + 1)..Len(p) /\ (L + i) + s = d + i
      BY <1>3, <2>2
    <3> QED
      BY <2>3, <3>1
  <2>6. Alike(D, d, E, L, m)
    BY <2>1, <2>2, <2>5 DEF Alike
  <2>7. d + m = Len(D) /\ L + m = Len(E)
    BY <2>1, <2>2
  <2> QED
    BY <2>1, <2>4, <2>6, <2>7, FlattenSuffix
<1> QED
  BY <1>1, <1>9, <1>10, <1>11 DEF p

LEMMA CompactKeeps ==
  ASSUME NEW h \in Seq(Message), ResultsInPlace(h)
  PROVE  /\ Compact(h) \in Seq(Message)
         /\ ResultsInPlace(Compact(h))
         /\ Cardinality(CutAnswers(Compact(h))) <= Cardinality(CutAnswers(h))
         /\ \E u \in Seq(ToolCall) :
               CompletedCalls(h) = Join(u, CompletedCalls(Compact(h)))
<1>1. CASE MustCompact(h)
  <2> DEFINE g == Condense(h)
  <2>1. /\ g \in Seq(Message) /\ ResultsInPlace(g)
        /\ CutAnswers(g) = CutAnswers(h)
        /\ CompletedCalls(g) = CompletedCalls(h)
    BY CondenseKeeps
  <2>2. Compact(h) = Prune(g)
    BY <1>1 DEF Compact
  <2> HIDE DEF g
  <2> QED
    BY <2>1, <2>2, PruneKeeps
<1>2. CASE ~MustCompact(h)
  <2>1. Compact(h) = h
    BY <1>2 DEF Compact
  <2>2. << >> \in Seq(ToolCall)
    OBVIOUS
  <2>3. CompletedCalls(h) = Join(<< >>, CompletedCalls(h))
    BY DoneType, EmptyNeutral
  <2>4. Cardinality(CutAnswers(h)) <= Cardinality(CutAnswers(h))
    BY CutFinite
  <2>5. \E u \in Seq(ToolCall) : CompletedCalls(h) = Join(u, CompletedCalls(h))
    BY <2>2, <2>3, Zenon
  <2> QED
    BY <2>1, <2>4, <2>5
<1> QED
  BY <1>1, <1>2

LEMMA MessageTypes ==
  /\ \A body \in Nat, size \in Nat :
        /\ UserMessage(body, size) \in Message
        /\ UserMessage(body, size).role = "user"
        /\ UserMessage(body, size).calls = << >>
  /\ \A calls \in Seq(ToolCall), size \in Nat :
        /\ AssistantMessage(calls, size) \in Message
        /\ AssistantMessage(calls, size).role = "assistant"
        /\ AssistantMessage(calls, size).calls = calls
  /\ \A call \in ToolCall : \A result \in DispatchResults(call) :
        /\ result \in Message /\ result.role = "tool"
        /\ result.id = call.id /\ result.calls = << >>
<1>1. << >> \in Seq(ToolCall)
  OBVIOUS
<1>2. ASSUME NEW call \in ToolCall, NEW result \in DispatchResults(call)
      PROVE  /\ result \in Message /\ result.role = "tool"
             /\ result.id = call.id /\ result.calls = << >>
  <2>1. PICK body \in Nat, size \in Nat : result = ToolMessage(call.id, body, size)
    BY SessionAssumption DEF DispatchResults, Served, Refused
  <2>2. call.id \in CallIds
    BY DEF ToolCall
  <2> QED
    BY <1>1, <2>1, <2>2 DEF ToolMessage, Msg, Message, Roles
<1> QED
  BY <1>1, <1>2 DEF UserMessage, AssistantMessage, Msg, Message, Roles

-----------------------------------------------------------------------------
(* The inductive invariant.                                                *)

\* The answer being dispatched, and what is done of it: the context has the
\* calls that have results, the rest is still to come.
Dispatching(j, n) ==
  /\ AtWork(history, j, n)
  /\ active = kept \o SubSeq(history[j].calls, 1, n)
  /\ pending = SubSeq(history[j].calls, n + 1, Len(history[j].calls))

\* The session's context ends with the calls the messages show as answered in
\* full.
KeptEnds == \E u \in Seq(ToolCall) : kept = Join(u, CompletedCalls(history))

SessionInv ==
  /\ TypeOK
  /\ ResultsInPlace(history)
  /\ Cardinality(CutAnswers(history) \ AtHand) <= faults
  /\ KeptEnds
  /\ pc = "dispatch" => \E j \in DOMAIN history, n \in Nat : Dispatching(j, n)

\* The context says how far the answer at work is.
LEMMA WorkPlace ==
  ASSUME NEW h \in Seq(Message), NEW k \in Seq(ToolCall), NEW j, NEW n,
         AtWork(h, j, n)
  PROVE  Len(h) - (Len(k \o SubSeq(h[j].calls, 1, n)) - Len(k)) = j
<1>1. /\ j \in DOMAIN h /\ n \in Nat /\ j + n = Len(h)
      /\ n < Len(h[j].calls)
  BY DEF AtWork, Assistants
<1>2. h[j].calls \in Seq(ToolCall) /\ j \in 1..Len(h)
  BY <1>1, MessageFields
<1> DEFINE c == h[j].calls
<1> HIDE DEF c
<1>3. SubSeq(c, 1, n) \in Seq(ToolCall) /\ Len(SubSeq(c, 1, n)) = n
  BY <1>1, <1>2 DEF c
<1>4. Len(k \o SubSeq(c, 1, n)) = Len(k) + n
  BY <1>1, <1>3
<1>5. Len(k) \in Nat /\ j \in Nat /\ n \in Nat /\ Len(h) \in Nat
  BY <1>1, <1>2
<1>6. Len(k \o SubSeq(c, 1, n)) - Len(k) = n
  BY <1>4, <1>5
<1>7. Len(h) - n = j
  BY <1>1, <1>5
<1> QED
  BY <1>6, <1>7 DEF c

LEMMA HandIsOne ==
  ASSUME TypeOK, NEW j, NEW n, Dispatching(j, n), pc = "dispatch"
  PROVE  AtHand = {j}
<1>1. /\ history \in Seq(Message) /\ kept \in Seq(ToolCall)
      /\ AtWork(history, j, n)
      /\ active = kept \o SubSeq(history[j].calls, 1, n)
  BY DEF Dispatching, TypeOK
<1>2. Len(history) - (Len(kept \o SubSeq(history[j].calls, 1, n)) - Len(kept)) = j
  BY <1>1, WorkPlace
<1> QED
  BY <1>1, <1>2 DEF AtHand

LEMMA SessionStarts ==
  ASSUME Init
  PROVE  SessionInv
<1>1. << >> \in Seq(ToolCall)
  OBVIOUS
<1>2. SystemMessage(SystemSize) \in Message
      /\ SystemMessage(SystemSize).role = "system"
  BY <1>1, SessionAssumption DEF SystemMessage, Msg, Message, Roles
<1>3. history \in Seq(Message) /\ DOMAIN history = {1} /\ history[1].role = "system"
  BY <1>2 DEF Init
<1>4. TypeOK
  BY <1>1, <1>3, SessionAssumption DEF Init, TypeOK
<1>5. Assistants(history) = {}
  BY <1>3 DEF Assistants
<1>6. ResultsInPlace(history)
  BY <1>3 DEF ResultsInPlace
<1>7. CutAnswers(history) \ AtHand = {}
  BY <1>5 DEF CutAnswers
<1>8. Cardinality(CutAnswers(history) \ AtHand) <= faults
  BY <1>7, FS_EmptySet DEF Init
<1>9. KeptEnds
  <2>1. Len(Done(history)) = 1 /\ Done(history)[1] = << >>
    BY <1>3, <1>5, DoneType DEF Done
  <2>2. Done(history) \in Seq(Seq(ToolCall)) /\ CompletedCalls(history) = FlattenSeq(Done(history))
    BY <1>3, DoneType
  <2> DEFINE D == Done(history)
  <2> HIDE DEF D
  <2>3. Flat(ToolCall, D)[0 + 1] = Flat(ToolCall, D)[0]
    <3>1. Blank(D, 0, 1)
      BY <2>1 DEF D, Blank
    <3> QED
      BY <2>2, <3>1, FlatEmpty DEF D
  <2>4. FlattenSeq(D) = << >>
    <3>1. D \in Seq(Seq(ToolCall)) /\ Len(D) = 1
      BY <2>1, <2>2 DEF D
    <3>2. Flat(ToolCall, D)[0] = << >> /\ FlattenSeq(D) = Flat(ToolCall, D)[Len(D)]
      BY <3>1, FlatStep
    <3>3. Flat(ToolCall, D)[1] = Flat(ToolCall, D)[0]
      BY <2>3
    <3> QED
      BY <3>1, <3>2, <3>3
  <2>5. kept = Join(<< >>, << >>)
    BY <1>1, EmptyNeutral DEF Init
  <2> QED
    BY <1>1, <2>2, <2>4, <2>5, Zenon DEF KeptEnds, D
<1> QED
  BY <1>4, <1>6, <1>8, <1>9 DEF SessionInv, Init

\* A suffix of what is kept stays one when more is kept, or less is shown.
LEMMA KeptTypes ==
  ASSUME TypeOK
  PROVE  /\ history \in Seq(Message) /\ CompletedCalls(history) \in Seq(ToolCall)
         /\ IsFiniteSet(CutAnswers(history) \ AtHand)
         /\ Cardinality(CutAnswers(history) \ AtHand) \in Nat
         /\ pc # "dispatch" => AtHand = {}
<1>1. history \in Seq(Message)
  BY DEF TypeOK
<1>2. IsFiniteSet(CutAnswers(history))
  BY <1>1, CutFinite
<1>3. IsFiniteSet(CutAnswers(history) \ AtHand)
  BY <1>2, FS_Difference
<1> QED
  BY <1>1, <1>3, FS_CardinalityType, DoneType DEF AtHand

LEMMA StepKeeps ==
  ASSUME SessionInv, Step
  PROVE  SessionInv'
<1>1. /\ TypeOK /\ ResultsInPlace(history) /\ KeptEnds
      /\ Cardinality(CutAnswers(history) \ AtHand) <= faults
      /\ history \in Seq(Message) /\ AtHand = {} /\ AtHand' = {}
      /\ kept' = kept /\ faults' = faults /\ pc' = "turn"
  BY KeptTypes DEF SessionInv, Step, AtHand
<1>2. /\ history' \in Seq(Message) /\ ResultsInPlace(history')
      /\ CutAnswers(history') = CutAnswers(history)
      /\ CompletedCalls(history') = CompletedCalls(history)
  <2>1. CASE UNCHANGED history
    BY <1>1, <2>1
  <2>2. ASSUME NEW size \in PromptSizes,
               history' = Append(history, UserMessage(steps + 1, size))
        PROVE  /\ history' \in Seq(Message) /\ ResultsInPlace(history')
               /\ CutAnswers(history') = CutAnswers(history)
               /\ CompletedCalls(history') = CompletedCalls(history)
    <3> DEFINE m == UserMessage(steps + 1, size)
    <3>1. steps + 1 \in Nat /\ size \in Nat
      BY <1>1, SessionAssumption DEF TypeOK
    <3>2. m \in Message /\ m.role = "user" /\ m.calls = << >>
      BY <3>1, MessageTypes
    <3> HIDE DEF m
    <3>3. history' = Append(history, m)
      BY <2>2 DEF m
    <3> QED
      BY <1>1, <3>2, <3>3, AppendOther, AppendFields
  <2> QED
    BY <2>1, <2>2 DEF Step
<1>3. TypeOK'
  BY <1>1, <1>2, SessionAssumption DEF TypeOK, Step
<1>4. Cardinality(CutAnswers(history') \ AtHand') <= faults'
  BY <1>1, <1>2
<1>5. KeptEnds'
  BY <1>1, <1>2 DEF KeptEnds
<1> QED
  BY <1>1, <1>2, <1>3, <1>4, <1>5 DEF SessionInv

LEMMA SendRequestKeeps ==
  ASSUME SessionInv, SendRequest
  PROVE  SessionInv'
<1>1. /\ TypeOK /\ ResultsInPlace(history) /\ KeptEnds
      /\ Cardinality(CutAnswers(history) \ AtHand) <= faults
      /\ history \in Seq(Message) /\ AtHand = {} /\ AtHand' = {}
      /\ kept' = kept /\ faults' = faults /\ pc' = "chat"
      /\ history' = Compact(history)
  BY KeptTypes DEF SessionInv, SendRequest, AtHand
<1>2. /\ history' \in Seq(Message) /\ ResultsInPlace(history')
      /\ Cardinality(CutAnswers(history')) <= Cardinality(CutAnswers(history))
      /\ \E u \in Seq(ToolCall) :
            CompletedCalls(history) = Join(u, CompletedCalls(history'))
  BY <1>1, CompactKeeps
<1>3. TypeOK'
  BY <1>1, <1>2 DEF TypeOK, SendRequest
<1>4. Cardinality(CutAnswers(history') \ AtHand') <= faults'
  <2>1. Cardinality(CutAnswers(history)) <= faults
    BY <1>1
  <2>2. /\ Cardinality(CutAnswers(history)) \in Nat
        /\ Cardinality(CutAnswers(history')) \in Nat /\ faults \in Nat
    BY <1>1, <1>2, CutFinite DEF TypeOK
  <2>3. CutAnswers(history') \ AtHand' = CutAnswers(history')
    BY <1>1
  <2> QED
    BY <1>1, <1>2, <2>1, <2>2, <2>3
<1>5. KeptEnds'
  <2>1. PICK u \in Seq(ToolCall) : kept = Join(u, CompletedCalls(history))
    BY <1>1 DEF KeptEnds
  <2>2. PICK v \in Seq(ToolCall) :
           CompletedCalls(history) = Join(v, CompletedCalls(history'))
    BY <1>2
  <2>3. CompletedCalls(history') \in Seq(ToolCall)
    BY <1>2, DoneType
  <2>4. kept = Join(Join(u, v), CompletedCalls(history'))
    BY <2>1, <2>2, <2>3, Associative
  <2>5. Join(u, v) \in Seq(ToolCall)
    BY DEF Join
  <2> QED
    BY <1>1, <2>4, <2>5 DEF KeptEnds
<1> QED
  BY <1>1, <1>2, <1>3, <1>4, <1>5 DEF SessionInv

LEMMA ProviderFailsKeeps ==
  ASSUME SessionInv, ProviderFails
  PROVE  SessionInv'
<1>1. AtHand = {} /\ AtHand' = {}
  BY DEF ProviderFails, AtHand
<1>2. TypeOK'
  BY DEF SessionInv, TypeOK, ProviderFails
<1>3. KeptEnds'
  BY DEF SessionInv, KeptEnds, ProviderFails
<1> QED
  BY <1>1, <1>2, <1>3 DEF SessionInv, ProviderFails

LEMMA ProviderAnswersKeeps ==
  ASSUME SessionInv, ProviderAnswers
  PROVE  SessionInv'
<1>1. /\ TypeOK /\ ResultsInPlace(history) /\ KeptEnds
      /\ Cardinality(CutAnswers(history) \ AtHand) <= faults
      /\ history \in Seq(Message) /\ AtHand = {}
      /\ kept' = kept /\ faults' = faults /\ kept \in Seq(ToolCall)
  BY KeptTypes DEF SessionInv, ProviderAnswers, AtHand, TypeOK
<1>2. PICK calls \in Answers, size \in AnswerSizes :
        /\ history' = Append(history, AssistantMessage(calls, size))
        /\ pending' = calls
        /\ IF calls = << >> THEN pc' = "idle" /\ UNCHANGED active
           ELSE pc' = "dispatch" /\ active' = kept
  BY DEF ProviderAnswers
<1>3. PICK m \in Message : /\ m = AssistantMessage(calls, size)
                           /\ m.role = "assistant" /\ m.calls = calls
  BY SessionAssumption, MessageTypes
<1> DEFINE n == Len(history)
<1>4. /\ history' = Append(history, m) /\ calls \in Seq(ToolCall) /\ n \in Nat
      /\ history' \in Seq(Message) /\ Len(history') = n + 1
      /\ DOMAIN history' = 1..(n + 1) /\ history'[n + 1] = m
  BY <1>1, <1>2, <1>3, SessionAssumption, AppendFields
<1>5. /\ ResultsInPlace(history')
      /\ calls = << >> => CutAnswers(history') = CutAnswers(history)
      /\ calls # << >> => CutAnswers(history') = CutAnswers(history) \cup {n + 1}
      /\ CompletedCalls(history') = CompletedCalls(history)
  BY <1>1, <1>3, <1>4, AppendOther
<1>6. TypeOK'
  BY <1>1, <1>2, <1>4 DEF TypeOK, ProviderAnswers
<1>7. KeptEnds'
  BY <1>1, <1>5 DEF KeptEnds
<1>8. CASE calls = << >>
  <2>1. pc' = "idle" /\ AtHand' = {}
    BY <1>2, <1>8 DEF AtHand
  <2>2. Cardinality(CutAnswers(history') \ AtHand') <= faults'
    BY <1>1, <1>5, <1>8, <2>1
  <2> QED
    BY <1>5, <1>6, <1>7, <2>1, <2>2 DEF SessionInv
<1>9. CASE calls # << >>
  <2>1. pc' = "dispatch" /\ active' = kept /\ pending' = calls
    BY <1>2, <1>9
  <2>2. AtHand' = {n + 1}
    <3>1. Len(kept) - Len(kept) = 0 /\ (n + 1) - 0 = n + 1
      BY <1>1, <1>4
    <3> QED
      BY <1>1, <1>4, <2>1, <3>1 DEF AtHand
  <2>3. n + 1 \notin CutAnswers(history)
    BY <1>1, <1>4, CutFinite
  <2>4. Cardinality(CutAnswers(history') \ AtHand') <= faults'
    <3>1. CutAnswers(history') \ AtHand' = CutAnswers(history) \ AtHand
      BY <1>1, <1>5, <1>9, <2>2, <2>3
    <3> QED
      BY <1>1, <3>1
  <2>5. AtWork(history', n + 1, 0)
    <3>1. n + 1 \in Assistants(history')
      BY <1>3, <1>4 DEF Assistants
    <3>2. 0 < Len(calls)
      BY <1>4, <1>9
    <3> QED
      BY <1>3, <1>4, <3>1, <3>2 DEF AtWork
  <2>0. PICK j \in DOMAIN history' : j = n + 1
    BY <1>4
  <2>6. Dispatching(j, 0)'
    <3>1. SubSeq(calls, 1, 0) = << >> /\ kept \o << >> = kept
      BY <1>1, <1>4
    <3>2. SubSeq(calls, 0 + 1, Len(calls)) = calls
      BY <1>4
    <3>3. history'[n + 1].calls = calls
      BY <1>3, <1>4
    <3> QED
      BY <1>1, <2>0, <2>1, <2>5, <3>1, <3>2, <3>3 DEF Dispatching
  <2>7. 0 \in Nat
    OBVIOUS
  <2> QED
    BY <1>5, <1>6, <1>7, <2>4, <2>6, <2>7 DEF SessionInv
<1> QED
  BY <1>8, <1>9

\* Taking the next of the calls c from those to come to those done, behind s.
TakesNext(T, c, n, s) ==
  /\ Head(SubSeq(c, n + 1, Len(c))) = c[n + 1] /\ c[n + 1] \in T
  /\ Tail(SubSeq(c, n + 1, Len(c))) = SubSeq(c, n + 2, Len(c))
  /\ SubSeq(c, n + 2, Len(c)) = << >> <=> n + 1 = Len(c)
  /\ Append(s \o SubSeq(c, 1, n), c[n + 1]) = s \o SubSeq(c, 1, n + 1)
  /\ n + 1 = Len(c) => SubSeq(c, 1, n + 1) = c

LEMMA NextCall ==
  ASSUME NEW T, NEW c \in Seq(T), NEW n \in Nat, n < Len(c), NEW s \in Seq(T)
  PROVE  TakesNext(T, c, n, s)
<1>1. /\ SubSeq(c, n + 1, Len(c)) \in Seq(T)
      /\ Len(SubSeq(c, n + 1, Len(c))) = Len(c) - n
      /\ \A i \in 1..(Len(c) - n) : SubSeq(c, n + 1, Len(c))[i] = c[n + i]
  OBVIOUS
<1>2. /\ SubSeq(c, n + 2, Len(c)) \in Seq(T)
      /\ Len(SubSeq(c, n + 2, Len(c))) = Len(c) - (n + 1)
      /\ \A i \in 1..(Len(c) - (n + 1)) : SubSeq(c, n + 2, Len(c))[i] = c[(n + 1) + i]
  OBVIOUS
<1>3. Head(SubSeq(c, n + 1, Len(c))) = c[n + 1] /\ c[n + 1] \in T
  BY <1>1
<1>4. Tail(SubSeq(c, n + 1, Len(c))) = SubSeq(c, n + 2, Len(c))
  <2> DEFINE p == SubSeq(c, n + 1, Len(c))
             q == SubSeq(c, n + 2, Len(c))
             l == Len(c) - (n + 1)
  <2>1. /\ p \in Seq(T) /\ Len(p) = l + 1 /\ l \in Nat
        /\ \A i \in 1..(l + 1) : p[i] = c[n + i]
    BY <1>1
  <2>2. q \in Seq(T) /\ Len(q) = l /\ \A i \in 1..l : q[i] = c[(n + 1) + i]
    BY <1>2
  <2> HIDE DEF p, q, l
  <2>3. /\ Tail(p) \in Seq(T) /\ Len(Tail(p)) = l
        /\ \A i \in 1..l : Tail(p)[i] = p[i + 1]
    BY <2>1
  <2>4. \A i \in 1..l : Tail(p)[i] = q[i]
    <3> SUFFICES ASSUME NEW i \in 1..l
                 PROVE  Tail(p)[i] = q[i]
      OBVIOUS
    <3>1. i + 1 \in 1..(l + 1) /\ n + (i + 1) = (n + 1) + i
      BY <2>1
    <3>2. p[i + 1] = c[(n + 1) + i]
      BY <2>1, <3>1
    <3> QED
      BY <2>2, <2>3, <3>2
  <2>5. Tail(p) = q
    BY <2>2, <2>3, <2>4, SameSequence
  <2> QED
    BY <2>5 DEF p, q
<1>5. SubSeq(c, n + 2, Len(c)) = << >> <=> n + 1 = Len(c)
  <2> DEFINE q == SubSeq(c, n + 2, Len(c))
  <2>1. q \in Seq(T) /\ Len(q) = Len(c) - (n + 1) /\ Len(c) \in Nat
    BY <1>2
  <2> HIDE DEF q
  <2>2. q = << >> <=> Len(q) = 0
    BY <2>1
  <2>3. q = << >> <=> n + 1 = Len(c)
    BY <2>1, <2>2
  <2> QED
    BY <2>3 DEF q
<1>6. Append(s \o SubSeq(c, 1, n), c[n + 1]) = s \o SubSeq(c, 1, n + 1)
  <2> DEFINE p == SubSeq(c, 1, n)
             q == SubSeq(c, 1, n + 1)
             x == c[n + 1]
  <2>1. p \in Seq(T) /\ Len(p) = n /\ \A i \in 1..n : p[i] = c[i]
    OBVIOUS
  <2>2. q \in Seq(T) /\ Len(q) = n + 1 /\ \A i \in 1..(n + 1) : q[i] = c[i]
    OBVIOUS
  <2> HIDE DEF p, q, x
  <2>3. x \in T
    BY <1>3 DEF x
  <2>4. q = Append(p, x)
    <3>1. Append(p, x) \in Seq(T) /\ Len(Append(p, x)) = n + 1
      BY <2>1, <2>3
    <3>2. \A i \in 1..(n + 1) : Append(p, x)[i] = q[i]
      <4>1. \A i \in 1..n : Append(p, x)[i] = p[i] /\ i \in 1..(n + 1)
        BY <2>1, <2>3
      <4>2. Append(p, x)[n + 1] = x /\ q[n + 1] = x
        BY <2>1, <2>2, <2>3 DEF x
      <4>3. \A i \in 1..(n + 1) : i \in 1..n \/ i = n + 1
        OBVIOUS
      <4> QED
        BY <2>1, <2>2, <4>1, <4>2, <4>3
    <3> QED
      BY <2>2, <3>1, <3>2, SameSequence
  <2>5. Append(s \o p, x) = s \o Append(p, x)
    <3> DEFINE e == << x >>
    <3>1. \A y \in Seq(T) : Append(y, x) = Join(y, e)
      BY <2>3 DEF Join
    <3>2. e \in Seq(T) /\ Join(s, p) \in Seq(T)
      BY <2>1, <2>3 DEF Join
    <3> HIDE DEF e
    <3>3. Join(Join(s, p), e) = Join(s, Join(p, e))
      BY <2>1, <3>2, Associative
    <3>4. Append(Join(s, p), x) = Join(s, Append(p, x))
      BY <2>1, <3>1, <3>2, <3>3
    <3> QED
      BY <3>4 DEF Join
  <2> QED
    BY <2>4, <2>5 DEF p, q, x
<1>7. n + 1 = Len(c) => SubSeq(c, 1, n + 1) = c
  OBVIOUS
<1> QED
  BY <1>3, <1>4, <1>5, <1>6, <1>7 DEF TakesNext

\* An element of a concatenation behind its first part.
LEMMA BehindFirst ==
  ASSUME NEW T, NEW p \in Seq(T), NEW q \in Seq(T), NEW k \in 1..Len(q)
  PROVE  (p \o q)[Len(p) + k] = q[k]
<1>1. Len(p) \in Nat /\ k \in Nat /\ k >= 1 /\ k <= Len(q) /\ Len(q) \in Nat
  OBVIOUS
<1>2. Len(p) + k > Len(p) /\ (Len(p) + k) - Len(p) = k
  BY <1>1
<1> QED
  BY <1>1, <1>2

LEMMA CallsSplit ==
  ASSUME NEW T, NEW c \in Seq(T), NEW n \in Nat, n < Len(c)
  PROVE  /\ SubSeq(c, 1, n) \in Seq(T) /\ SubSeq(c, n + 1, Len(c)) \in Seq(T)
         /\ SubSeq(c, 1, n) \o SubSeq(c, n + 1, Len(c)) = c
<1> DEFINE p == SubSeq(c, 1, n)
           q == SubSeq(c, n + 1, Len(c))
           l == Len(c) - n
<1>1. p \in Seq(T) /\ Len(p) = n /\ \A i \in 1..n : p[i] = c[i]
  OBVIOUS
<1>2. /\ q \in Seq(T) /\ Len(q) = l /\ l \in Nat /\ n + l = Len(c)
      /\ \A i \in 1..l : q[i] = c[n + i]
  OBVIOUS
<1> HIDE DEF p, q, l
<1>3. p \o q \in Seq(T) /\ Len(p \o q) = n + l
  BY <1>1, <1>2
<1>4. \A i \in 1..(n + l) : (p \o q)[i] = c[i]
  <2>1. \A i \in 1..n : (p \o q)[i] = p[i]
    BY <1>1, <1>2
  <2>2. ASSUME NEW i \in (n + 1)..(n + l)
        PROVE  (p \o q)[i] = c[i]
    <3>1. i - n \in 1..l /\ n + (i - n) = i /\ ~(i <= n) /\ i \in 1..(n + l)
      BY <1>2
    <3>2. (p \o q)[i] = q[i - n]
      <4> DEFINE k == i - n
      <4>1. k \in 1..Len(q) /\ Len(p) + k = i
        BY <1>1, <1>2, <3>1
      <4> HIDE DEF k
      <4>2. (p \o q)[Len(p) + k] = q[k]
        BY <1>1, <1>2, <4>1, BehindFirst
      <4> QED
        BY <4>1, <4>2 DEF k
    <3>3. q[i - n] = c[n + (i - n)]
      BY <1>2, <3>1
    <3> QED
      BY <3>1, <3>2, <3>3
  <2>3. \A i \in 1..(n + l) : i \in 1..n \/ i \in (n + 1)..(n + l)
    BY <1>2
  <2> QED
    BY <1>1, <2>1, <2>2, <2>3
<1>5. p \o q = c
  BY <1>2, <1>3, <1>4, SameSequence
<1> QED
  BY <1>1, <1>2, <1>5 DEF p, q

LEMMA DispatchCallKeeps ==
  ASSUME SessionInv, DispatchCall
  PROVE  SessionInv'
<1>1. /\ TypeOK /\ ResultsInPlace(history) /\ KeptEnds
      /\ Cardinality(CutAnswers(history) \ AtHand) <= faults
      /\ history \in Seq(Message) /\ kept \in Seq(ToolCall)
      /\ active \in Seq(ToolCall) /\ pc = "dispatch" /\ faults' = faults
  BY DEF SessionInv, DispatchCall, TypeOK
<1>2. PICK j \in DOMAIN history, n \in Nat : Dispatching(j, n)
  BY <1>1 DEF SessionInv
<1>3. PICK c \in Seq(ToolCall) : c = history[j].calls
  BY <1>1, MessageFields
<1>4. /\ AtWork(history, j, n) /\ n < Len(c)
      /\ active = kept \o SubSeq(c, 1, n)
      /\ pending = SubSeq(c, n + 1, Len(c))
  BY <1>2, <1>3 DEF Dispatching, AtWork
<1>5. /\ Head(pending) = c[n + 1] /\ c[n + 1] \in ToolCall
      /\ Tail(pending) = SubSeq(c, n + 2, Len(c))
      /\ SubSeq(c, n + 2, Len(c)) = << >> <=> n + 1 = Len(c)
      /\ Append(active, Head(pending)) = kept \o SubSeq(c, 1, n + 1)
      /\ n + 1 = Len(c) => SubSeq(c, 1, n + 1) = c
  <2>1. TakesNext(ToolCall, c, n, kept)
    BY <1>1, <1>4, NextCall
  <2> QED
    BY <1>4, <2>1, Zenon DEF TakesNext
<1>6. PICK m \in Message :
        /\ history' = Append(history, m) /\ m.role = "tool"
        /\ m.id = c[n + 1].id /\ m.calls = << >>
  <2>1. PICK result \in DispatchResults(Head(pending)) :
           history' = Append(history, result)
    BY DEF DispatchCall
  <2> QED
    BY <1>5, <2>1, MessageTypes
<1>7. pending' = SubSeq(c, n + 2, Len(c))
  BY <1>5 DEF DispatchCall
<1>8. /\ history' \in Seq(Message) /\ Len(history') = Len(history) + 1
      /\ \A i \in 1..Len(history) : history'[i] = history[i]
      /\ DOMAIN history = 1..Len(history)
      /\ DOMAIN history' = 1..(Len(history) + 1) /\ Len(history) \in Nat
  BY <1>1, <1>6, AppendFields
<1>9. /\ ResultsInPlace(history')
      /\ n + 1 < Len(c) => /\ AtWork(history', j, n + 1)
                           /\ CutAnswers(history') = CutAnswers(history)
                           /\ CompletedCalls(history') = CompletedCalls(history)
      /\ n + 1 = Len(c) =>
           /\ CutAnswers(history') = CutAnswers(history) \ {j}
           /\ CompletedCalls(history') = Join(CompletedCalls(history), c)
  BY <1>1, <1>3, <1>4, <1>6, AppendResult
<1>10. AtHand = {j}
  BY <1>1, <1>2, HandIsOne
<1>11. j \in DOMAIN history' /\ history'[j] = history[j]
  BY <1>8
<1>12. /\ SubSeq(c, n + 2, Len(c)) \in Seq(ToolCall)
       /\ Append(active, Head(pending)) \in Seq(ToolCall)
  BY <1>1, <1>5
<1>13. CASE n + 1 < Len(c)
  <2>1. pending' # << >>
    BY <1>5, <1>7, <1>13
  <2>2. /\ active' = Append(active, Head(pending))
        /\ pc' = pc /\ iteration' = iteration /\ kept' = kept
        /\ steps' = steps
    BY <2>1 DEF DispatchCall
  <2>3. TypeOK'
    BY <1>1, <1>7, <1>8, <1>12, <2>1, <2>2 DEF TypeOK
  <2>4. Dispatching(j, n + 1)'
    <3>1. SubSeq(c, (n + 1) + 1, Len(c)) = SubSeq(c, n + 2, Len(c))
      OBVIOUS
    <3> QED
      BY <1>3, <1>5, <1>7, <1>9, <1>11, <1>13, <2>2, <3>1 DEF Dispatching
  <2>5. AtHand' = {j}
    <3>1. /\ history' \in Seq(Message) /\ kept' \in Seq(ToolCall)
          /\ AtWork(history', j, n + 1)
          /\ active' = kept' \o SubSeq(history'[j].calls, 1, n + 1)
      BY <1>1, <1>8, <2>2, <2>4 DEF Dispatching
    <3>3. Len(history') - (Len(kept' \o SubSeq(history'[j].calls, 1, n + 1)) - Len(kept')) = j
      BY <3>1, WorkPlace
    <3>2. pc' = "dispatch"
      BY <1>1, <2>2
    <3> QED
      BY <3>1, <3>2, <3>3 DEF AtHand
  <2>6. Cardinality(CutAnswers(history') \ AtHand') <= faults'
    BY <1>1, <1>9, <1>10, <1>13, <2>5
  <2>7. KeptEnds'
    BY <1>1, <1>9, <1>13, <2>2 DEF KeptEnds
  <2>8. n + 1 \in Nat
    OBVIOUS
  <2> QED
    BY <1>9, <1>11, <2>3, <2>4, <2>6, <2>7, <2>8 DEF SessionInv
<1>14. CASE n + 1 = Len(c)
  <2>1. pending' = << >>
    BY <1>5, <1>7, <1>14
  <2>2. /\ kept' = Append(active, Head(pending)) /\ active' = << >>
        /\ iteration' = iteration + 1 /\ steps' = steps
        /\ pc' = IF iteration' = MaxIterations THEN "idle" ELSE "turn"
    BY <2>1 DEF DispatchCall
  <2>3. AtHand' = {}
    BY <2>2 DEF AtHand
  <2>4. TypeOK'
    <3>1. iteration \in 0..MaxIterations /\ iteration < MaxIterations
      BY <1>1 DEF TypeOK
    <3>2. /\ iteration' \in 0..MaxIterations
          /\ pc' # "idle" => iteration' < MaxIterations
      BY <2>2, <3>1, SessionAssumption
    <3>3. pc' \in {"idle", "turn"}
      BY <2>2
    <3>4. << >> \in Seq(ToolCall)
      OBVIOUS
    <3> QED
      BY <1>1, <1>8, <1>12, <2>1, <2>2, <3>2, <3>3, <3>4 DEF TypeOK
  <2>5. Cardinality(CutAnswers(history') \ AtHand') <= faults'
    <3>1. CutAnswers(history') \ AtHand' = CutAnswers(history) \ AtHand
      BY <1>9, <1>10, <1>14, <2>3
    <3> QED
      BY <1>1, <3>1
  <2>6. KeptEnds'
    <3>1. kept' = Join(kept, c)
      BY <1>5, <1>14, <2>2 DEF Join
    <3>2. PICK u \in Seq(ToolCall) : kept = Join(u, CompletedCalls(history))
      BY <1>1 DEF KeptEnds
    <3>3. CompletedCalls(history) \in Seq(ToolCall)
      BY <1>1, DoneType
    <3>4. kept' = Join(u, Join(CompletedCalls(history), c))
      BY <3>1, <3>2, <3>3, Associative
    <3> QED
      BY <1>9, <1>14, <3>4 DEF KeptEnds
  <2>7. pc' # "dispatch"
    BY <2>2
  <2> QED
    BY <1>9, <2>4, <2>5, <2>6, <2>7 DEF SessionInv
<1> QED
  BY <1>3, <1>4, <1>13, <1>14

\* What a step that raises leaves behind is the one answer it was at.
LEMMA RaiseKeeps ==
  ASSUME SessionInv, Raise
  PROVE  SessionInv'
<1>1. /\ TypeOK /\ ResultsInPlace(history) /\ KeptEnds
      /\ Cardinality(CutAnswers(history) \ AtHand) <= faults
      /\ history \in Seq(Message) /\ history' = history /\ kept' = kept
      /\ faults' = faults + 1 /\ pc' = "idle" /\ AtHand' = {}
  BY DEF SessionInv, Raise, TypeOK, AtHand
<1>2. TypeOK'
  BY <1>1, SessionAssumption DEF TypeOK, Raise
<1>3. Cardinality(CutAnswers(history') \ AtHand') <= faults'
  <2> DEFINE C == CutAnswers(history)
             A == AtHand
  <2>1. CutAnswers(history') \ AtHand' = C
    BY <1>1
  <2>2. IsFiniteSet(C) /\ IsFiniteSet(C \ A)
    BY <1>1, CutFinite, KeptTypes
  <2>3. A = {} \/ \E j : A = {j}
    <3>1. ASSUME pc = "dispatch"
          PROVE  \E j : A = {j}
      <4>1. PICK j \in DOMAIN history, n \in Nat : Dispatching(j, n)
        BY <3>1 DEF SessionInv
      <4> QED
        BY <1>1, <3>1, <4>1, HandIsOne
    <3> QED
      BY <3>1 DEF AtHand
  <2> HIDE DEF C, A
  <2>4. Cardinality(C) <= Cardinality(C \ A) + 1
    <3>1. CASE C \ A = C
      BY <2>2, <3>1, FS_CardinalityType
    <3>2. ASSUME NEW j, A = {j}, j \in C
          PROVE  Cardinality(C) <= Cardinality(C \ A) + 1
      <4>1. Cardinality(C \ {j}) = Cardinality(C) - 1
        BY <2>2, <3>2, FS_RemoveElement
      <4>2. Cardinality(C) \in Nat
        BY <2>2, FS_CardinalityType
      <4> QED
        BY <3>2, <4>1, <4>2
    <3> QED
      BY <2>3, <3>1, <3>2
  <2>5. /\ Cardinality(C) \in Nat /\ Cardinality(C \ A) \in Nat
        /\ faults \in Nat /\ Cardinality(C \ A) <= faults
    BY <1>1, <2>2, FS_CardinalityType DEF TypeOK, C, A
  <2> QED
    BY <1>1, <2>1, <2>4, <2>5
<1>4. KeptEnds'
  BY <1>1 DEF KeptEnds
<1> QED
  BY <1>1, <1>2, <1>3, <1>4 DEF SessionInv

LEMMA SessionStutters ==
  ASSUME SessionInv, UNCHANGED vars
  PROVE  SessionInv'
BY DEF SessionInv, vars, TypeOK, AtHand, KeptEnds, Dispatching

THEOREM SessionInvariant == Spec => []SessionInv
<1>1. Init => SessionInv
  BY SessionStarts
<1>2. SessionInv /\ [Next]_vars => SessionInv'
  BY StepKeeps, SendRequestKeeps, ProviderFailsKeeps, ProviderAnswersKeeps,
     DispatchCallKeeps, RaiseKeeps, SessionStutters DEF Next
<1> QED
  BY <1>1, <1>2, PTL DEF Spec

-----------------------------------------------------------------------------
(* What it means for the owner of the session.                             *)

THEOREM SessionTypeCorrect == Spec => []TypeOK
<1>1. SessionInv => TypeOK
  BY DEF SessionInv
<1> QED
  BY <1>1, SessionInvariant, PTL

\* Whatever a step that raises leaves undone, and whatever steps, failures and
\* compactions follow (agent_session.py: step, _execute_turn and
\* _dispatch_tool_calls): every result stands behind its own call, and no more
\* answers lack a result than steps have raised.
THEOREM SessionDamageLocal == Spec => []DamageLocal
<1>1. SessionInv => DamageLocal
  BY DEF SessionInv, DamageLocal
<1> QED
  BY <1>1, SessionInvariant, PTL

\* The tool history the hooks are given (_execution_context) ends with exactly
\* the calls that the messages show as answered in full, and in a dispatch it
\* goes on with the calls of the answer at hand.
THEOREM SessionHooksRemember == Spec => []HooksRemember
<1>1. SessionInv => HooksRemember
  <2> SUFFICES ASSUME SessionInv
               PROVE  HooksRemember
    OBVIOUS
  <2>1. TypeOK /\ KeptEnds /\ kept \in Seq(ToolCall) /\ history \in Seq(Message)
    BY DEF SessionInv, TypeOK
  <2>2. CompletedCalls(history) \in Seq(ToolCall)
    BY <2>1, DoneType
  <2>3. IsSuffix(CompletedCalls(history), kept)
    <3>1. \E u \in Seq(ToolCall) : kept = u \o CompletedCalls(history)
      BY <2>1 DEF KeptEnds, Join
    <3> QED
      BY <2>1, <2>2, <3>1, SuffixSplits
  <2>4. ASSUME pc = "dispatch"
        PROVE  \E j \in AtHand : active \o pending = kept \o history[j].calls
    <3>1. PICK j \in DOMAIN history, n \in Nat : Dispatching(j, n)
      BY <2>4 DEF SessionInv
    <3>2. PICK c \in Seq(ToolCall) : c = history[j].calls
      BY <2>1, MessageFields
    <3>3. /\ n < Len(c) /\ active = kept \o SubSeq(c, 1, n)
          /\ pending = SubSeq(c, n + 1, Len(c))
      BY <3>1, <3>2 DEF Dispatching, AtWork
    <3> DEFINE p == SubSeq(c, 1, n)
               q == SubSeq(c, n + 1, Len(c))
    <3>4. p \in Seq(ToolCall) /\ q \in Seq(ToolCall) /\ p \o q = c
      BY <3>3, CallsSplit
    <3> HIDE DEF p, q
    <3>5. (kept \o p) \o q = kept \o (p \o q)
      <4>1. Join(Join(kept, p), q) = Join(kept, Join(p, q))
        BY <2>1, <3>4, Associative
      <4> QED
        BY <4>1 DEF Join
    <3>6. active \o pending = kept \o c
      BY <3>3, <3>4, <3>5 DEF p, q
    <3>7. AtHand = {j}
      BY <2>1, <2>4, <3>1, HandIsOne
    <3> QED
      BY <3>2, <3>6, <3>7
  <2> QED
    BY <2>3, <2>4 DEF HooksRemember
<1> QED
  BY <1>1, SessionInvariant, PTL

=============================================================================
