----------------------------- MODULE Compactor -----------------------------
(***************************************************************************)
(* TruncateCompactor (src/pelmeni/context/compactor.py) as a function on   *)
(* histories: the tool results of every round but the last are condensed,  *)
(* then the oldest rounds go until the budget is met or only               *)
(* KeepRecentRounds are left.  CompactorCode has the same algorithm loop   *)
(* by loop; a run shows that the two agree.                                *)
(*                                                                         *)
(* Histories have no system message but the first one (both drivers only   *)
(* ever append user, assistant and tool messages to it).                   *)
(***************************************************************************)
EXTENDS Conversation

CONSTANTS Enabled,          \* config.enabled
          MaxTokens,        \* config.max_tokens
          TargetTokens,     \* config.target_tokens
          KeepRecentRounds, \* config.keep_recent_rounds, negative ones as 0
          MaxToolChars,     \* config.max_tool_chars
          Overhead,         \* JSON characters of a message around its content
          CallChars         \* JSON characters of one tool call

ASSUME CompactionAssumption ==
  /\ Enabled \in BOOLEAN
  /\ MaxTokens \in Nat /\ TargetTokens \in Nat
  /\ KeepRecentRounds \in Nat
  /\ MaxToolChars \in Nat \ {0}
  /\ Overhead \in Nat \ {0} /\ CallChars \in Nat

-----------------------------------------------------------------------------
(* The estimator: one token per character of the message's JSON.           *)

EstimateMessage(m) == Overhead + m.size + CallChars * Len(m.calls)

EstimateMessages(h) ==
  LET upTo[n \in 0..Len(h)] ==
        IF n = 0 THEN 0 ELSE upTo[n - 1] + EstimateMessage(h[n])
  IN  upTo[Len(h)]

-----------------------------------------------------------------------------
(* Truncating one tool result: a head, a marker that says how many         *)
(* characters are left out, and a tail.                                    *)

Digits(n) == 1 + Cardinality({k \in 1..6 : 10^k <= n})

MarkerChars(elided) == 28 + Digits(elided)

TruncatedSize(size) ==
  IF size <= MaxToolChars
    THEN size
    ELSE MaxToolChars + MarkerChars(size - MaxToolChars)

CondenseMessage(m) ==
  IF m.role = "tool" THEN [m EXCEPT !.size = TruncatedSize(m.size)] ELSE m

\* Mutant: the last round is condensed too.
CondenseEverything(h) == [i \in DOMAIN h |-> CondenseMessage(h[i])]

\* All rounds but the last are condensed.
Condense(h) ==
  LET last == LastStart(h)
  IN  [i \in DOMAIN h |-> IF i < last THEN CondenseMessage(h[i]) ELSE h[i]]

-----------------------------------------------------------------------------
(* Pruning: where the kept rounds start.                                   *)

From(h, c) == SubSeq(h, c, Len(h))

Fits(h, c) == EstimateMessages(Lead(h) \o From(h, c)) <= TargetTokens

\* Mutant: off by one at the floor.
AtFloorStrictly(h, c) == Cardinality(RoundsFrom(h, c)) < KeepRecentRounds

AtFloor(h, c) == Cardinality(RoundsFrom(h, c)) <= KeepRecentRounds

Cuts(h) == {c \in RoundStarts(h) \cup {Len(h) + 1} : Fits(h, c) \/ AtFloor(h, c)}

\* Oldest first, and no further than needed: the least admissible cut.
Cut(h) == CHOOSE c \in Cuts(h) : \A d \in Cuts(h) : c <= d

Prune(h) == Lead(h) \o From(h, Cut(h))

-----------------------------------------------------------------------------
MustCompact(h) == Enabled /\ EstimateMessages(h) > MaxTokens

Compact(h) == IF MustCompact(h) THEN Prune(Condense(h)) ELSE h

=============================================================================
