--------------------------- MODULE CompactorCode ---------------------------
(***************************************************************************)
(* TruncateCompactor.compact and domain.group_into_rounds loop by loop, on *)
(* any message sequence.  A state of this module is the list of messages   *)
(* that compact is given, grown one message at a time; the invariants      *)
(* compare what the loops compute with the function Compact of module      *)
(* Compactor, and say what a compaction may and may not remove.            *)
(***************************************************************************)
EXTENDS Compactor, SequencesExt

CONSTANTS UserSizes,    \* sizes of user messages
          ToolSizes,    \* sizes of tool results
          MaxMessages   \* bound: the longest history explored

ASSUME SizesAssumption ==
  UserSizes \subseteq Nat /\ ToolSizes \subseteq Nat /\ MaxMessages \in Nat

VARIABLE messages

-----------------------------------------------------------------------------
(* group_into_rounds: a round is a record of its user message and turns.   *)

\* What comes before the first user message is in no round.
AddToSegments(segments, msg) ==
  IF msg.role = "user"
    THEN Append(segments, [user |-> msg, turns |-> << >>])
    ELSE IF segments # << >> /\ msg.role \in {"assistant", "tool"}
           THEN [segments EXCEPT ![Len(segments)].turns = Append(@, msg)]
           ELSE segments

SegmentByUser(list) ==
  LET upTo[n \in 0..Len(list)] ==
        IF n = 0 THEN << >> ELSE AddToSegments(upTo[n - 1], list[n])
  IN  upTo[Len(list)]

GroupIntoRounds(h) == SegmentByUser(SubSeq(h, Len(Lead(h)) + 1, Len(h)))

AllMessages(rnd) == << rnd.user >> \o rnd.turns

Flatten(system, rounds) ==
  system \o FlattenSeq([i \in DOMAIN rounds |-> AllMessages(rounds[i])])

-----------------------------------------------------------------------------
\* Mutant: long tool results are left out instead of truncated.
DropLongResults(rnd) ==
  [rnd EXCEPT !.turns =
     SelectSeq(@, LAMBDA m : m.role # "tool" \/ m.size <= MaxToolChars)]

CondenseTurn(turn) ==
  IF turn.role = "tool" /\ turn.size > MaxToolChars
    THEN [turn EXCEPT !.size = TruncatedSize(@)]
    ELSE turn

CondenseRoundTools(rnd) ==
  [user |-> rnd.user, turns |-> [i \in DOMAIN rnd.turns |-> CondenseTurn(rnd.turns[i])]]

\* Mutant: the last round is condensed too.
CondenseAllRounds(rounds) == [i \in DOMAIN rounds |-> CondenseRoundTools(rounds[i])]

CondenseHistoricalRounds(rounds) ==
  IF Len(rounds) <= 1
    THEN rounds
    ELSE [i \in DOMAIN rounds |->
            IF i < Len(rounds) THEN CondenseRoundTools(rounds[i]) ELSE rounds[i]]

\* One turn of the loop of _prune_rounds_to_target.
PruneOldest(left) ==
  IF left.ended \/ left.tokens <= TargetTokens
                \/ Len(left.rounds) <= KeepRecentRounds
    THEN left
    ELSE LET freed == EstimateMessages(AllMessages(Head(left.rounds)))
         IN  [rounds |-> Tail(left.rounds),
              tokens |-> IF freed <= 0 THEN left.tokens ELSE left.tokens - freed,
              ended  |-> freed <= 0]

\* The loop makes no more turns than there are rounds.
PruneRoundsToTarget(rounds, tokens) ==
  LET after[n \in 0..Len(rounds)] ==
        IF n = 0 THEN [rounds |-> rounds, tokens |-> tokens, ended |-> FALSE]
                 ELSE PruneOldest(after[n - 1])
  IN  after[Len(rounds)]

\* Mutant: pruning counts down from the tokens before condensing.
CompactFromBefore(h) ==
  LET before == EstimateMessages(h)
      pruned == PruneRoundsToTarget(
                  CondenseHistoricalRounds(GroupIntoRounds(h)), before)
  IN  [compacted |-> Enabled /\ before > MaxTokens,
       messages  |-> IF Enabled /\ before > MaxTokens
                       THEN Flatten(Lead(h), pruned.rounds) ELSE h,
       tokens    |-> pruned.tokens]

\* What compact returns: the flag, the messages and tokens_after.
CompactResult(h) ==
  LET before == EstimateMessages(h)
      rounds == CondenseHistoricalRounds(GroupIntoRounds(h))
      pruned == PruneRoundsToTarget(rounds,
                  EstimateMessages(Flatten(Lead(h), rounds)))
  IN  IF ~Enabled \/ before <= MaxTokens
        THEN [compacted |-> FALSE, messages |-> h, tokens |-> before]
        ELSE [compacted |-> TRUE,
              messages  |-> Flatten(Lead(h), pruned.rounds),
              tokens    |-> pruned.tokens]

-----------------------------------------------------------------------------
(* Histories: those of the two drivers, and those AgentSession.step(None)  *)
(* starts, where turns come before any user message.                       *)

CodeInit == messages \in {<< >>, << SystemMessage(40) >>}

Grow(m) == messages' = Append(messages, m)

AddPrompt == \E s \in UserSizes : Grow(UserMessage(0, s))

AddAnswer == \E calls \in {<< >>} \cup {<< c >> : c \in ToolCall} :
  Grow(AssistantMessage(calls, 10))

AddResult == \E s \in ToolSizes, c \in CallIds : Grow(ToolMessage(c, Served, s))

CodeNext == Len(messages) < MaxMessages /\ (AddPrompt \/ AddAnswer \/ AddResult)

CodeSpec == CodeInit /\ [][CodeNext]_messages

-----------------------------------------------------------------------------
\* The round-by-round loops of compactor.py and the function on histories
\* that the agent loop's model uses give the same messages; and tokens_after,
\* which the code gets by subtracting freed rounds from a running count, is
\* the estimate of these messages.
LoopsAgree ==
  LET r == CompactResult(messages)
  IN  /\ r.messages = Compact(messages)
      /\ r.tokens = EstimateMessages(r.messages)

\* "keeping at least config.keep_recent_rounds": rounds are left out only
\* beyond the last KeepRecentRounds ones, only while the target is exceeded,
\* and never one more than needed to meet it.
PrunedAsNeeded ==
  LET r     == CompactResult(messages)
      whole == Condense(messages)
      kept  == Cardinality(RoundStarts(r.messages))
      had   == Cardinality(RoundStarts(messages))
  IN  r.compacted =>
        /\ r.tokens <= TargetTokens \/ kept <= KeepRecentRounds
        /\ kept < had =>
             /\ kept >= KeepRecentRounds
             /\ \A s \in RoundStarts(whole) :
                  Cardinality(RoundsFrom(whole, s)) = kept + 1 => ~Fits(whole, s)

\* Compacting never breaks a history in which every result follows its call:
\* a call and its results stay or go together, so that a provider never sees
\* a tool result whose call was pruned.
CompactionKeepsPairing ==
  (Paired(messages) /\ Settled(messages)) =>
     LET left == CompactResult(messages).messages
     IN  Paired(left) /\ Settled(left)

=============================================================================
