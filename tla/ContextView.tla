----------------------------- MODULE ContextView -----------------------------
(***************************************************************************)
(* What the model sees of a history. The log keeps every message; a        *)
(* request shows a view of it, folded at two levels: old tool results      *)
(* become placeholders under a token budget (projectHistory), and a prefix *)
(* becomes one summary once the request is over a threshold (#maybeCompact *)
(* and #compactView).                                                      *)
(*                                                                         *)
(* Abstracted: a message costs Cost tokens instead of a quarter of its     *)
(* canonical JSON; a digest is the value digested; what a summary says is  *)
(* the messages it was made from. The messages of the retrieve and plan    *)
(* hooks are left out: they follow the history and nothing folds them.     *)
(***************************************************************************)
EXTENDS Naturals, FiniteSets, SequencesExt

CONSTANTS
    ResultCost,     \* the tokens of a tool result; every other message costs 1
    ResultBudget,   \* toolResultBudgetTokens
    KeepResults,    \* keepRecentToolResults
    KeepRecent,     \* keepRecentMessages
    MinCovered,     \* minCoveredMessages
    Threshold,      \* thresholdTokens of the level-2 compaction
    NoSummary       \* no compaction applies

ASSUME ViewAssumption ==
    /\ {ResultBudget, KeepResults, KeepRecent, MinCovered, Threshold} \subseteq Nat
    /\ ResultCost \in Nat \ {0}

-----------------------------------------------------------------------------
(* Messages *)

System == [role |-> "system"]
UserMessage(t) == [role |-> "user", turn |-> t]
SummaryMessage(c) == [role |-> "summary", of |-> c.summary]
AssistantMessage(request, text, calls) ==
    [role |-> "assistant", request |-> request, text |-> text, calls |-> calls]
ToolMessage(call, isError) ==
    [role |-> "tool", call |-> call, isError |-> isError, elided |-> FALSE]

Placeholder(m) == [m EXCEPT !.elided = TRUE]

Cost(m) == IF m.role = "tool" /\ ~ m.elided THEN ResultCost ELSE 1

estimateTokens(messages) == FoldLeft(LAMBDA sum, m : sum + Cost(m), 0, messages)

-----------------------------------------------------------------------------
(* Level 1: projectHistory *)

\* The results that are folded: neither an error nor among the recent ones
\* (slice(-0) is all of them), as long as the rest, with the older ones folded, is
\* over the budget.
Elided(messages) ==
    LET results == {i \in DOMAIN messages : messages[i].role = "tool"}
        recent == {i \in results : \/ KeepResults = 0
                                   \/ Cardinality({k \in results : k > i}) < KeepResults}
        foldable == {i \in results \ recent : ~ messages[i].isError}
        rest(i) == Cardinality(results) - Cardinality({k \in foldable : k < i})
    IN {i \in foldable : ResultCost * rest(i) > ResultBudget}

projectHistory(messages) ==
    LET elided == Elided(messages) IN
    [i \in DOMAIN messages |->
        IF i \in elided THEN Placeholder(messages[i]) ELSE messages[i]]

-----------------------------------------------------------------------------
(* Level 2: the covered prefix and its summary *)

Prefix(history, n) == SubSeq(history, 1, n)

\* #compactView: the summary stands for the prefix it was made from, and for
\* nothing else.
compactView(history, c) ==
    IF c = NoSummary THEN history
    ELSE IF Prefix(history, c.count) # c.digest THEN history
    ELSE <<SummaryMessage(c)>> \o SubSeq(history, c.count + 1, Len(history))

Compaction(covered) ==
    [summary |-> covered, count |-> Len(covered), digest |-> covered]

\* #compactionApplies
Applies(c, history) == c.count <= Len(history) /\ Prefix(history, c.count) = c.digest

\* #loadCompaction: the newest one that still describes the history.
LoadCompaction(compactions, history) ==
    LET applicable == {i \in DOMAIN compactions : Applies(compactions[i], history)} IN
    IF applicable = {} THEN NoSummary ELSE compactions[Max(applicable)]

Assembled(history, c) == <<System>> \o compactView(history, c)

\* The messages #maybeCompact would have covered: all of the history but the
\* recent window, and never less than before.
CoveredCount(history, c) ==
    LET already == IF c = NoSummary THEN 0 ELSE c.count
        beyond == IF Len(history) > KeepRecent THEN Len(history) - KeepRecent ELSE 0
    IN IF beyond > already THEN beyond ELSE already

\* The view is over the threshold, and there is more to cover than before.
WorthCompacting(history, c) ==
    LET already == IF c = NoSummary THEN 0 ELSE c.count
        covered == CoveredCount(history, c)
    IN /\ estimateTokens(projectHistory(Assembled(history, c))) > Threshold
       /\ covered > already
       /\ covered >= MinCovered
=============================================================================
