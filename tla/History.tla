------------------------------ MODULE History -------------------------------
(***************************************************************************)
(* The history a turn sends to the model: the messages it has read,        *)
(* trimmed to a budget of tokens (HistoryManager.get_trimmed_history).     *)
(*                                                                         *)
(* A history is a sequence of positions in the chat, and Summary for the   *)
(* message that stands for the summary.                                    *)
(***************************************************************************)
EXTENDS Conversation, FiniteSetsExt, SequencesExt

CONSTANTS
  TokensOf,       \* TokensOf[role]: tokens of a message
  HistoryBudget,  \* HISTORY_BUDGET_BY_TIER["standard"]
  SummaryTokens   \* tokens of a summary

ASSUME TokenAssumption ==
  /\ TokensOf \in [{"user", "assistant"} -> Nat]
  /\ HistoryBudget \in Nat
  /\ SummaryTokens \in Nat

Summary == 0

Size      == [i \in DOMAIN messages |-> TokensOf[messages[i].role]]
SizeOf(S) == SumFunctionOnSet(Size, S)

\* The last messages of n, which are always kept, and the others.
Recent(n) == {i \in 1..n : i > n - Kept}
Older(n)  == (1..n) \ Recent(n)

\* Negative when the recent messages alone exceed the budget.
RoomFor(n) == HistoryBudget - SizeOf(Recent(n))

\* There is a summary, and it takes no more than 35 % of the room.
Summarised(n) == summary > 0 /\ 100 * SummaryTokens <= 35 * RoomFor(n)

\* Newest first, until one does not fit.  (Plausible bug first: the room is not
\* reduced by what has been taken.)
FittingEach(n, room) == {i \in Older(n) : \A j \in Older(n) : j >= i => Size[j] <= room}

Fitting(n, room) == {i \in Older(n) : SizeOf({j \in Older(n) : j >= i}) <= room}

\* result.insert(len(result) - (1 if result begins with the summary else 0), msg)
InsertOlder(result, i) ==
  LET before == IF result # << >> /\ Head(result) = Summary THEN 1 ELSE 0
  IN InsertAt(result, Len(result) + 1 - before, i)

\* Of positions without a gap, which all of these are.
Ascending(S)  == [k \in 1..Cardinality(S) |-> Min(S) + k - 1]
Descending(S) == [k \in 1..Cardinality(S) |-> Max(S) - k + 1]

Trimmed(n) ==
  LET s == Summarised(n)
      room == RoomFor(n) - (IF s THEN SummaryTokens ELSE 0)
      start == IF s THEN <<Summary>> ELSE << >>
  IN IF SizeOf(1..n) <= HistoryBudget THEN Ascending(1..n)
     ELSE FoldLeft(InsertOlder, start, Descending(Fitting(n, room))) \o Ascending(Recent(n))

-----------------------------------------------------------------------------
(* Properties, of a turn that has just read the chat *)

HasRead(t) == pc[t] = "question" /\ chat

Positions(history) == ToSet(history) \ {Summary}

\* What the model is given are the recent messages, in order and at the end, before
\* them the messages next to them, each once and without a gap, and of both and the
\* summary no more than the budget, unless the recent ones alone exceed it
\* (history.py 41: "Keeps last RECENT_TURNS_ALWAYS_KEPT turns verbatim").
HistoryIsWindow ==
  \A t \in Turns : HasRead(t) =>
    LET n == seen[t]
        h == Trimmed(n)
        given == Positions(h)
        taken == SizeOf(given) + (IF Summary \in ToSet(h) THEN SummaryTokens ELSE 0)
    IN /\ IsSuffix(Ascending(Recent(n)), h)
       /\ Len(h) = Cardinality(ToSet(h))
       /\ \A i \in given : i..n \subseteq given
       /\ taken <= HistoryBudget \/ given = Recent(n)

\* history.py 1 calls it a "sliding window" and 27 "Trims gemini_history to a token
\* budget": trimming leaves messages out, it does not move them.
HistoryInOrder ==
  \A t \in Turns : HasRead(t) =>
    LET h == Trimmed(seen[t]) IN \A i, j \in DOMAIN h : i < j => h[i] < h[j]
=============================================================================
