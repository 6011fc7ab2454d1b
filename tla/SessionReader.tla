--------------------------- MODULE SessionReader ---------------------------
(***************************************************************************)
(* Replaying a session: read_session_messages (src/pelmeni/session/        *)
(* reader.py) over the log that the request loop of module AgentLoop       *)
(* writes.  Each event stands for the messages the reader extracts from    *)
(* it; events without messages, and lines that do not parse, are skipped   *)
(* by the reader and left out here.  A crash leaves the log as it is: the  *)
(* line it tears is one of those.                                          *)
(***************************************************************************)
EXTENDS AgentLoop, SequencesExt

CONSTANTS TextOf   \* prompt number -> its text: a user may repeat one

ASSUME ReaderAssumption == TextOf \in [1..MaxPrompts -> Nat]

VARIABLES
  log,             \* messages of each event of main.jsonl
  intact           \* so far compaction has changed nothing

allVars == << vars, log, intact >>

\* Equality of messages is equality of texts.
Written(m) == IF m.role = "user" THEN [m EXCEPT !.body = TextOf[m.body]] ELSE m

WrittenAll(h) == [i \in DOMAIN h |-> Written(h[i])]

-----------------------------------------------------------------------------
(* The reader.                                                             *)

\* A message equal to the one before it is taken for the same.
Extend(merged, m) ==
  IF merged # << >> /\ Last(merged) = m THEN merged ELSE Append(merged, m)

AppendTail(base, incoming) ==
  LET upTo[n \in 0..Len(incoming)] ==
        IF n = 0 THEN base ELSE Extend(upTo[n - 1], incoming[n])
  IN  upTo[Len(incoming)]

CommonPrefix(current, incoming) ==
  {n \in 1..Len(current) : n <= Len(incoming)
                             /\ SubSeq(current, 1, n) = SubSeq(incoming, 1, n)}

\* How many messages at the end of current start incoming.
Overlaps(current, incoming) ==
  {n \in 1..Len(current) : n <= Len(incoming)
     /\ SubSeq(current, Len(current) - n + 1, Len(current)) = SubSeq(incoming, 1, n)}

Beyond(incoming, n) == SubSeq(incoming, n + 1, Len(incoming))

\* Mutant: the common prefix is not looked for.
MergeAppending(current, incoming) ==
  IF current = << >> THEN incoming ELSE AppendTail(current, incoming)

\* Mutant: a request that starts as the one before is taken for the same.
MergeKeeping(current, incoming) ==
  IF current = << >> THEN incoming
  ELSE IF CommonPrefix(current, incoming) # {} THEN current
  ELSE AppendTail(current, incoming)

\* _merge_messages: beyond the common prefix, or else beyond the longest
\* overlap, or else all of it.
Merge(current, incoming) ==
  CASE current = << >> -> incoming
    [] current # << >> /\ incoming = << >> -> current
    [] current # << >> /\ incoming # << >> ->
         LET prefix  == CommonPrefix(current, incoming)
             overlap == Overlaps(current, incoming)
         IN  IF prefix # {} THEN AppendTail(current, Beyond(incoming, Max(prefix)))
             ELSE IF overlap # {} THEN current \o Beyond(incoming, Max(overlap))
             ELSE AppendTail(current, incoming)

Replay(events) ==
  LET upTo[n \in 0..Len(events)] ==
        IF n = 0 THEN << >> ELSE Merge(upTo[n - 1], events[n])
  IN  upTo[Len(events)]

-----------------------------------------------------------------------------
(* The loop writes the log.                                                *)

LogInit == Init /\ log = << >> /\ intact = TRUE

\* A request is logged with all its messages, after compaction.
LogRequest == SendRequest /\ log' = Append(log, WrittenAll(history'))

LogResponse == ProviderAnswers /\ log' = Append(log, << Last(history') >>)

LogToolResult == DispatchCall /\ log' = Append(log, << Last(history') >>)

NotLogged == \/ SubmitPrompt \/ SwitchRole \/ CompactCommand \/ Exit
             \/ ProviderFails \/ BridgeAnnounces \/ Crash

LogNext ==
  /\ \/ LogRequest \/ LogResponse \/ LogToolResult
     \/ NotLogged /\ UNCHANGED log
  /\ intact' = (intact /\ IsPrefix(history, history'))

LogSpec == LogInit /\ [][LogNext]_allVars

-----------------------------------------------------------------------------
Replayed == Replay(log)

\* What the log can know of the history: all but a prompt not sent yet.
Sent ==
  IF log = << >> THEN << >>
  ELSE IF Last(history).role = "user" /\ pc \in {"turn", "down"}
         THEN Front(WrittenAll(history)) ELSE WrittenAll(history)

Repeats(h) == \E i \in 1..(Len(h) - 1) : h[i] = h[i + 1]

\* As long as no message follows an equal one and nothing is compacted, what is
\* replayed is the history, message by message, though each message was logged
\* many times over, and failed requests and tool calls lie in between.
ReplayFaithful ==
  (intact /\ ~Repeats(Sent)) => Replayed \in {Sent, WrittenAll(history)}

\* Whatever was repeated or compacted, no message that the model has been sent
\* or has answered is missing from the replay.
NothingLost ==
  pc \in {"chat", "dispatch"} => ToSet(WrittenAll(history)) \subseteq ToSet(Replayed)

=============================================================================
